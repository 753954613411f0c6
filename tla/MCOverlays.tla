----------------------------- MODULE MCOverlays -----------------------------
(***************************************************************************)
(* Small instances of Overlays for model checking.                         *)
(***************************************************************************)
EXTENDS Overlays

MCTrustConfigs == {{"p", "q"}, {"p", "r", Local}}
MCTrustAsks == [peer : Peers, allowed : BOOLEAN]

MCEndpointConfigs ==
    {[enabled |-> [e |-> TRUE, f |-> FALSE, g |-> TRUE], default |-> "e"],
     [enabled |-> [e |-> TRUE, f |-> TRUE], default |-> "f"],
     [enabled |-> [f |-> FALSE, g |-> TRUE, h |-> TRUE], default |-> NoDefault]}
MCEndpointAsks ==
    [what : {"enabled"}, endpoint : {"e", "f", "g"}, to : BOOLEAN]
    \cup [what : {"default"}, endpoint : {"any"}, to : {"e", "f", NoDefault}]
=============================================================================
