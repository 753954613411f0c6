-------------------------- MODULE MCDirectInbound ---------------------------
(* DirectInbound with a configuration whose two endpoints admit the peer,   *)
(* and one that turns the first off and shuts the peer out. The peer sends  *)
(* one message to the default, once with another content under the same id, *)
(* and one to the second endpoint: two keys that compete for a cache of one *)
(* entry.                                                                   *)
EXTENDS DirectInbound

CONSTANTS e1, e2, p, i, x, y

MCConfigurations ==
    {[endpoints |-> [e \in Endpoints |-> [enabled |-> TRUE, kinds |-> {}, inbound |-> Peers]],
      default |-> e1, bound |-> 1],
     [endpoints |-> [e \in Endpoints |-> [enabled |-> e = e2, kinds |-> Kinds, inbound |-> {}]],
      default |-> NoEndpoint, bound |-> 2]}

MCMessages ==
    {[peer |-> p, dest |-> NoEndpoint, id |-> i, print |-> x],
     [peer |-> p, dest |-> NoEndpoint, id |-> i, print |-> y],
     [peer |-> p, dest |-> e2, id |-> i, print |-> x]}

MCTrustSets == {{}, Peers}
=============================================================================
