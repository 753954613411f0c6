---------------------------- MODULE MCHumanClient ----------------------------
(* Instance of HumanClient, for TLC. A behaviour is about one of four things, *)
(* chosen in its initial state, and their states add up instead of           *)
(* multiplying: two messages to send over a medium that fails, one over a    *)
(* store that refuses writes, three messages that are read and come again,   *)
(* and what becomes of a session's queue when the session ends.              *)
EXTENDS HumanClient, TLC

CONSTANTS
    m1, m2, k1, k2, k3, bad,
    Scenes     \* the scenes of this run

\* One error of each class of problem.rs, with and without a session that ends.
MCConfigs == {Outgoing, {}}
MCSendErrors == {"Timeout", "PeerUnknown", "BackendUnavailable", "EndpointNotRegistered",
                 "Internal", "UnauthorizedPeer"}
MCAmbiguous == {"Timeout", "BackendUnavailable", "Internal"}
MCOpenErrors == {"BackendUnavailable", "EndpointInUse"}

VARIABLE scene

MCInit ==
    /\ ClientInit /\ scene \in Scenes
    /\ scene \in {"reads", "ends"} => allowed = {}

OnlyNotices == Range(inbox') \subseteq {LeaseLost} /\ Len(inbox') <= 1

InScene ==
    \/ scene = "sends" /\ OnlyNotices /\ medium' # "refusing"
    \/ scene = "refusals" /\ OnlyNotices /\ medium' # "failing" /\ composed' \subseteq {m1}
    \/ /\ scene = "reads" /\ allowed' = {} /\ medium' = "ok"
       /\ Range(inbox') \subseteq {k1, k2, k3} /\ Len(inbox') <= 1
    \/ /\ scene = "ends" /\ allowed' = {} /\ released' = <<>>
       /\ Range(inbox') \subseteq {k1, k2, bad, LeaseLost}

MCNext == ClientNext /\ InScene /\ UNCHANGED scene

MCSpec == MCInit /\ [][MCNext]_<<vars, scene>> /\ ClientFairness
=============================================================================
