----------------------------- MODULE MCRetries ------------------------------
(* Retries with one peer that is also reached through the relay, and one   *)
(* that is only ever reached directly, at two addresses.                   *)
EXTENDS Retries

CONSTANTS near, far

MCReachable == [p \in Peers |-> IF p = far THEN {"direct", "circuit"} ELSE {"direct", "other"}]

MCTrustSets == {{near}, {near, far}}
=============================================================================
