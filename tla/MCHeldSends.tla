---------------------------- MODULE MCHeldSends -----------------------------
(* HeldSends with a peer that is also reached through a relay and one that   *)
(* is not. A behaviour is about one of two things, chosen in its initial     *)
(* state: the ways to one peer for two sends, over time, the caller of the   *)
(* first of which may give up, and under one policy once the node drains; or *)
(* the ceilings with four sends to two peers, with the clock at rest. The    *)
(* sends are alike, so they are made in their order.                         *)
EXTENDS HeldSends, TLC

CONSTANTS
    far, near,
    Scenes      \* the scenes of this run

MCReachable == [p \in Peers |-> IF p = far THEN Routes ELSE {"direct"}]

MCPolicies == {[p \in Peers |-> IF p = far THEN c ELSE "data"] : c \in Classes}

VARIABLE scene

InOrder == \A s, t \in Sends : s < t /\ sends'[t].st # "new" => sends'[s].st # "new"

InScene ==
    \/ /\ scene = "ways"
       /\ \A s \in Sends : sends'[s].st # "new" => s \in {1, 2} /\ sends'[s].peer = far
       /\ dials'[near]["direct"] = 0 /\ open'[near]["direct"] = 0 /\ near \notin refused'
       /\ \A route \in Routes : dials'[far][route] <= 1
       /\ ~sends'[2].gone /\ (draining' => class'[far] = "data")
    \/ /\ scene = "ceilings"
       /\ now' = 0 /\ class'[far] = "data" /\ leased' /\ ~draining'
       /\ races' = EmptyMap
       /\ \A s \in Sends : ~sends'[s].gone
       /\ \A p \in Peers : dials'[p]["circuit"] = 0 /\ open'[p]["circuit"] = 0

MCInit == HeldInit /\ scene \in Scenes
MCNext == HeldNext /\ InOrder /\ InScene /\ UNCHANGED scene

MCSpec ==
    /\ MCInit /\ [][MCNext]_<<heldVars, scene>>
    /\ WF_heldVars(Clock) /\ WF_heldVars(HeldDue)
=============================================================================
