------------------------------ MODULE Commands ------------------------------
(* What a local client is promised about a command it issues on its session, *)
(* whatever lies between it and the daemon's port (LOCAL-IPC: "one response   *)
(* per request").  A command is issued once, performed at most once, and      *)
(* returns at most once.  A result means it was performed; a refusal means    *)
(* that it was not and never will be; any other code leaves the caller not    *)
(* knowing.                                                                   *)

CONSTANTS
  Ids,        \* the commands of one connection
  Refusals,   \* codes that promise the command was not performed
  Unknowns    \* codes that promise nothing

VARIABLES
  phase,      \* [Ids -> "idle", "issued", "abandoned", or what it returned]
  performed   \* the commands the daemon's port has been asked to perform

promises == <<phase, performed>>

CommandsInit ==
  /\ phase = [i \in Ids |-> "idle"]
  /\ performed = {}

Issue(i) ==
  /\ phase[i] = "idle"
  /\ phase' = [phase EXCEPT ![i] = "issued"]
  /\ UNCHANGED performed

\* A command may be performed after its caller has stopped waiting, never
\* after it was refused.
Perform(i) ==
  /\ phase[i] \notin {"idle"} \cup Refusals
  /\ i \notin performed
  /\ performed' = performed \cup {i}
  /\ UNCHANGED phase

\* Several callers may be answered at once: a connection's end answers all.
\* On a connection that has ended a command returns as it is issued.
Return ==
  /\ DOMAIN phase' = Ids
  /\ \A i \in Ids : phase'[i] # phase[i] =>
       /\ phase[i] = "issued" \/ (phase[i] = "idle" /\ phase'[i] \in Unknowns)
       /\ phase'[i] \in {"ok", "abandoned"} \cup Refusals \cup Unknowns
       /\ phase'[i] = "ok" => i \in performed
       /\ phase'[i] \in Refusals => i \notin performed
  /\ UNCHANGED performed

CommandsNext == Return \/ \E i \in Ids : Issue(i) \/ Perform(i)

CommandsSpec == CommandsInit /\ [][CommandsNext]_promises
=============================================================================
