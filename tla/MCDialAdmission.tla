-------------------------- MODULE MCDialAdmission ---------------------------
(* DialAdmission on two instances at once, told apart by `scene`: two gates  *)
(* that compete, for two addresses of one peer, for room for one quarantine, *)
(* which does not expire; and one gate with a clock and a peer that is       *)
(* trusted, revoked and trusted again, or a shutdown, while the gate reloads. *)
EXTENDS DialAdmission, TLC

VARIABLE scene

MCTrustSets == SUBSET Peers

MCInit == AdmissionInit /\ scene \in {"race", "revocation"}

InScene ==
    \/ /\ scene = "race"
       /\ now' = 0
       /\ policy.authorized \subseteq policy'.authorized
       /\ ~shuttingDown'
    \/ /\ scene = "revocation"
       /\ Cardinality({g \in Gates : gate'[g].pc # "idle"}) <= 1
       /\ slots' <= 1

MCNext == AdmissionNext /\ InScene /\ UNCHANGED scene

MCSpec == MCInit /\ [][MCNext]_<<admissionVars, scene>>

\* Gates and addresses are told apart by nothing in the model.
Symmetry == Permutations(Gates) \cup Permutations(Addresses)
=============================================================================
