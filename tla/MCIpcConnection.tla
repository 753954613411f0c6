-------------------------- MODULE MCIpcConnection --------------------------
(* Instance of IpcConnection for model checking. *)
EXTENDS IpcConnection

\* Two commands and a waiting slot or none, one command with pushed events or
\* with a probe, and probes alone.
MCBudgets == {[pending |-> 1, calls |-> 2, events |-> 0, probes |-> 0],
              [pending |-> 0, calls |-> 2, events |-> 0, probes |-> 0],
              [pending |-> 0, calls |-> 1, events |-> 2, probes |-> 0],
              [pending |-> 0, calls |-> 1, events |-> 0, probes |-> 1],
              [pending |-> 0, calls |-> 0, events |-> 0, probes |-> 7]}
=============================================================================
