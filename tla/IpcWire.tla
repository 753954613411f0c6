------------------------------ MODULE IpcWire ------------------------------
(* The local socket between a client library and the daemon: two byte        *)
(* streams that keep order and hold a bounded amount, and the ends of both.   *)
(* The operating system's part is modelled from how the two sides use it.     *)
EXTENDS Naturals, Sequences

CONSTANTS
  Ids,          \* the request ids the client's counter hands out, 1..n
  SocketRoom,   \* frames one direction of the socket holds before a write waits
  Budgets       \* MAX_PENDING, and the bounds of a behaviour: commands issued,
                \* events offered, probes sent

ASSUME WireAssumption ==
  /\ Ids \subseteq Nat
  /\ SocketRoom \in Nat \ {0}
  /\ Budgets \subseteq [pending : Nat, calls : Nat, events : Nat, probes : Nat]

VARIABLES
  toServer,     \* frames written by the client and not yet read
  toClient,     \* frames written by the server and not yet read
  clientWrite,  \* "open", "shut" (its write half only), "gone" (its socket closed)
  serverRead,   \* the server's read half: "open", "closed"
  budget,       \* the one of Budgets this behaviour has
  tail          \* what the client reads after the last frame: "none", "eof", "error"

wire == <<toServer, toClient, clientWrite, serverRead, tail, budget>>

Frame(type, id, code) == [type |-> type, id |-> id, code |-> code]

WireInit ==
  /\ toServer = << >>
  /\ toClient = << >>
  /\ clientWrite = "open"
  /\ serverRead = "open"
  /\ tail = "none"
  /\ budget \in Budgets
=============================================================================
