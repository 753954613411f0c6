---------------------------- MODULE OverlayAdmin ----------------------------
(***************************************************************************)
(* An administrator's set and the file that keeps it: `set_trust` and      *)
(* `set_endpoints` of the composed runtime (runtime.rs of                  *)
(* crates/transport/composition) over the atomic write of persist.rs       *)
(* (crates/config/profile-config), with failures and crashes at every step *)
(* of a write.                                                             *)
(*                                                                         *)
(* The two sets share one discipline, so the module takes the overlay as   *)
(* parameters: TrustOverlay and EndpointOverlay give them values.          *)
(***************************************************************************)
EXTENDS Naturals, FiniteSets

CONSTANTS
    MaxUnwritten,     \* bound on the versions of the file that a power loss may leave
    Configs,          \* the configurations an operator may write
    Asks,             \* what an administrator may ask for
    Absent,           \* no file
    Torn,             \* a file whose contents never reached the disk
    ChecksFirst,      \* whether a start checks the bound before it rewrites the file
    Empty,            \* the overlay that changes nothing
    Readable(_),      \* documents that are read
    Normalise(_, _), Effective(_, _), Fits(_, _),
    Move(_, _, _),    \* the overlay after a set
    Denies(_, _, _, _), \* what is refused before anything is written
    Publish(_, _), Refuses(_, _), \* the substrate's own set
    Holds(_, _)       \* what was asked for is so

VARIABLES
    config,  \* the configuration on disk
    ran,     \* a runtime has started with it
    up,      \* "down", "up", or "gone": the driver without its substrate
    live,    \* what the substrate holds
    kept,    \* the overlay the driver keeps
    file,    \* `seen` under the name; `may`: what a power loss may leave there; `temp`
    job,     \* the set or the load under way
    last     \* the last set and its answer

vars == <<config, ran, up, live, kept, file, job, last>>

NoJob == [at |-> "idle", for |-> "none", doc |-> Empty, moved |-> Empty, answer |-> "none"]
Unasked == "none"
NoAnswer == [ask |-> Unasked, answer |-> "none", wrote |-> FALSE]

Init ==
    /\ config \in Configs
    /\ ran = FALSE
    /\ up = "down"
    /\ live = Effective(Empty, config) /\ kept = Empty
    /\ file = [seen |-> Absent, may |-> {Absent}, temp |-> Absent]
    /\ job = NoJob
    /\ last = NoAnswer

DocOf(contents) == IF contents = Absent THEN Empty ELSE contents

-----------------------------------------------------------------------------
(* The end of a set. *)

Answered(answer, wrote) == last' = [last EXCEPT !.answer = answer, !.wrote = wrote]
Writes(for, doc, moved, answer) ==
    job' = [at |-> "create", for |-> for, doc |-> doc, moved |-> moved, answer |-> answer]

\* Put the previous overlay back and answer, or answer at once if nothing was moved.
Restore(answer) ==
    IF job.moved = kept THEN job' = NoJob /\ Answered(answer, FALSE)
    ELSE Writes("restore", kept, job.moved, answer) /\ UNCHANGED last

\* Start with what was loaded, if it fits.
Serve(overlay) ==
    /\ kept' = overlay /\ live' = Effective(overlay, config)
    /\ up' = "up" /\ ran' = TRUE

\* What follows a write, by how it ended (`set_trust`, `set_endpoints`,
\* `load_within`): well; before its rename; after it (`installed`), unsynced.
WriteDone ==
    /\ UNCHANGED config
    /\ \/ /\ job.for = "set" /\ job' = [job EXCEPT !.at = "publish"]
          /\ UNCHANGED <<ran, up, live, kept, last>>
       \/ /\ job.for = "restore" /\ job' = NoJob /\ Answered(job.answer, FALSE)
          /\ UNCHANGED <<ran, up, live, kept>>
       \/ /\ job.for = "load" /\ job' = NoJob /\ UNCHANGED last
          /\ IF Fits(job.doc, config) THEN Serve(job.doc) ELSE UNCHANGED <<ran, up, live, kept>>

\* Mutant of WriteFailed: an overlay that could not be put back is not kept.
WriteFailedForgotten ==
    /\ UNCHANGED <<config, ran, up, live, kept>> /\ job' = NoJob
    /\ \/ job.for \in {"set", "restore"} /\ Answered("Internal", FALSE)
       \/ job.for = "load" /\ UNCHANGED last

WriteFailed ==
    /\ UNCHANGED <<config, ran, up, live>> /\ job' = NoJob
    /\ \/ job.for = "set" /\ Answered("Internal", FALSE) /\ UNCHANGED kept
       \/ job.for = "restore" /\ Answered("Internal", FALSE) /\ kept' = job.moved
       \/ job.for = "load" /\ UNCHANGED <<last, kept>>

WriteUnsynced ==
    /\ UNCHANGED <<config, ran, up, live, kept>>
    /\ \/ job.for = "set" /\ Writes("restore", kept, job.moved, "Internal") /\ UNCHANGED last
       \/ job.for = "restore" /\ job' = NoJob /\ Answered(job.answer, FALSE)
       \/ job.for = "load" /\ job' = NoJob /\ UNCHANGED last

-----------------------------------------------------------------------------
(* `write_atomic_with_mode`, step by step; a failed step removes the temporary. *)

Advance(at) == job' = [job EXCEPT !.at = at] /\ UNCHANGED <<config, ran, up, live, kept, last>>

CreateTemp ==
    /\ job.at = "create"
    /\ \/ Advance("fill") /\ UNCHANGED file
       \/ WriteFailed /\ UNCHANGED file

\* Mutant of FillTemp: the temporary is not synced before it is renamed.
FillUnsynced ==
    /\ job.at = "fill"
    /\ \/ Advance("rename") /\ file' = [file EXCEPT !.temp = Torn]
       \/ WriteFailed /\ UNCHANGED file

FillTemp ==
    /\ job.at = "fill"
    /\ \/ Advance("rename") /\ file' = [file EXCEPT !.temp = job.doc]
       \/ WriteFailed /\ UNCHANGED file

\* The name changes at once for readers; on disk when the directory is written.
RenameTemp ==
    /\ job.at = "rename"
    /\ \/ /\ Cardinality(file.may \cup {file.temp}) <= MaxUnwritten
          /\ Advance("sync")
          /\ file' = [seen |-> job.doc, may |-> file.may \cup {file.temp}, temp |-> Absent]
       \/ WriteFailed /\ file' = [file EXCEPT !.temp = Absent]

\* Mutant of SyncDirectory: a failed sync is discarded.
SyncDiscarded ==
    /\ job.at = "sync"
    /\ \/ WriteDone /\ file' = [file EXCEPT !.may = {file.seen}]
       \/ WriteDone /\ UNCHANGED file

\* `fsync_dir`.
SyncDirectory ==
    /\ job.at = "sync"
    /\ \/ WriteDone /\ file' = [file EXCEPT !.may = {file.seen}]
       \/ WriteUnsynced /\ UNCHANGED file

-----------------------------------------------------------------------------
(* The driver. *)

\* `set_trust` and `set_endpoints` up to their first write or publish.
Ask(ask) ==
    /\ up # "down" /\ job.at = "idle"
    /\ UNCHANGED <<config, ran, up, live, kept, file>>
    /\ LET moved == Move(kept, config, ask) IN
       IF Denies(live, kept, config, ask)
       THEN job' = NoJob /\ last' = [ask |-> ask, answer |-> "refused", wrote |-> FALSE]
       ELSE /\ last' = [NoAnswer EXCEPT !.ask = ask]
            /\ IF moved = kept
               THEN job' = [NoJob EXCEPT !.at = "publish", !.for = "set", !.doc = kept, !.moved = kept]
               ELSE Writes("set", moved, moved, "none")

\* The publish, and what is kept when it is answered `ok`.
PublishSet ==
    /\ job.at = "publish" /\ UNCHANGED <<config, ran, file>>
    /\ \/ /\ up = "up" /\ ~Refuses(live, last.ask)
          /\ live' = Publish(live, last.ask) /\ kept' = job.moved
          /\ job' = NoJob /\ Answered("ok", job.moved # kept) /\ UNCHANGED up
       \/ /\ up = "up" /\ Refuses(live, last.ask)
          /\ Restore("refused") /\ UNCHANGED <<up, live, kept>>
       \/ /\ up' = "gone" /\ UNCHANGED <<live, kept>>
          /\ Restore("BackendUnavailable")

\* `load_within` at a start; one that is refused changes nothing.
Start ==
    /\ up = "down" /\ job.at = "idle" /\ file.seen # Torn
    /\ LET doc == DocOf(file.seen)
           normal == Normalise(doc, config)
       IN  /\ Readable(doc) /\ (ChecksFirst => Fits(normal, config))
           /\ IF normal # doc
              THEN Writes("load", normal, normal, "none") /\ UNCHANGED <<ran, up, live, kept>>
              ELSE Fits(normal, config) /\ Serve(normal) /\ UNCHANGED job
    /\ last' = NoAnswer /\ UNCHANGED <<config, file>>

\* A start under way is a process too.
Running == up # "down" \/ job.at # "idle"
Ends(seen, may) ==
    /\ up' = "down" /\ job' = NoJob /\ last' = NoAnswer
    /\ file' = [seen |-> seen, may |-> may, temp |-> Absent]
    /\ live' = Effective(Empty, config) /\ kept' = Empty
    /\ UNCHANGED <<config, ran>>

\* The process dies; the power goes.
Crash == Running /\ Ends(file.seen, file.may)
PowerLoss == \E contents \in file.may : Ends(contents, {contents})

\* The kernel writes the directory back.
Writeback ==
    /\ file.may # {file.seen}
    /\ file' = [file EXCEPT !.may = {file.seen}]
    /\ UNCHANGED <<config, ran, up, live, kept, job, last>>

\* The operator edits the configuration of a stopped profile, long after it stopped.
EditConfig ==
    /\ ~Running /\ file.may = {file.seen}
    /\ config' \in Configs \ {config} /\ ran' = FALSE
    /\ live' = Effective(Empty, config')
    /\ UNCHANGED <<up, kept, file, job, last>>

Next ==
    \/ \E ask \in Asks : Ask(ask)
    \/ CreateTemp \/ FillTemp \/ RenameTemp \/ SyncDirectory
    \/ PublishSet \/ Start \/ Crash \/ PowerLoss \/ Writeback \/ EditConfig

Spec == Init /\ [][Next]_vars

-----------------------------------------------------------------------------
Idle == up = "up" /\ job.at = "idle"

\* The overlay the driver keeps is the one the next start reads (`set_trust`: the
\* previous one put back, or the new one kept when that fails), whatever failed.
KeptIsOnFile == up # "down" /\ job.at = "idle" => kept = DocOf(file.seen)

\* What an `ok` promises (`set_trust`, `fsync_dir`): the set is in force and is
\* what the next start loads, and one that was written survives a loss of power.
OkIsKept ==
    /\ Idle /\ last.answer = "ok" =>
          /\ Holds(last.ask, live)
          /\ Holds(last.ask, Effective(DocOf(file.seen), config))
    /\ last.answer = "ok" /\ last.wrote =>
          \A contents \in file.may : Holds(last.ask, Effective(DocOf(contents), config))

\* No set, and no crash in the middle of one, makes the next start with the same
\* configuration fatal (`set_trust`'s and `set_endpoints`' bound).
NextStartLoads ==
    ran => \A contents \in file.may \cup {file.seen} :
              /\ contents # Torn
              /\ Readable(DocOf(contents))
              /\ Fits(Normalise(DocOf(contents), config), config)

\* A set answered `ok` survives a crash.
OkSurvives ==
    last.answer = "ok" =>
        \A contents \in file.may : Holds(last.ask, Effective(DocOf(contents), config))
=============================================================================
