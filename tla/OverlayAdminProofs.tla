------------------------- MODULE OverlayAdminProofs -------------------------
(***************************************************************************)
(* Theorems of OverlayAdmin, for every overlay that keeps OverlayLaws,     *)
(* every configuration, and failures and crashes at any step of a write.   *)
(***************************************************************************)
EXTENDS OverlayAdmin, TLAPS

CONSTANTS
    Changes,   \* the documents that may be kept
    Lives(_)   \* what the substrate may hold under a configuration

\* What the discipline relies on of an overlay: normalising is idempotent and
\* keeps a document readable; a set that is not refused does what was asked and
\* leaves a document that fits, is read and is normal; a publish that is not
\* refused does what was asked.
OverlayLaws ==
    /\ Empty \in Changes /\ Readable(Empty)
    /\ Absent \notin Changes /\ Torn \notin Changes /\ Absent # Torn
    /\ \A c \in Configs, o \in Changes :
          /\ Normalise(o, c) \in Changes
          /\ Normalise(Normalise(o, c), c) = Normalise(o, c)
          /\ Readable(o) => Readable(Normalise(o, c))
          /\ Effective(o, c) \in Lives(c)
    /\ \A c \in Configs, o \in Changes, ask \in Asks : \A now \in Lives(c) :
          Normalise(o, c) = o /\ ~Denies(now, o, c, ask) =>
              /\ Move(o, c, ask) \in Changes
              /\ Holds(ask, Effective(Move(o, c, ask), c))
              /\ Move(o, c, ask) # o =>
                    /\ Readable(Move(o, c, ask)) /\ Fits(Move(o, c, ask), c)
                    /\ Normalise(Move(o, c, ask), c) = Move(o, c, ask)
    /\ \A c \in Configs, ask \in Asks : \A now \in Lives(c) :
          ~Refuses(now, ask) => Publish(now, ask) \in Lives(c) /\ Holds(ask, Publish(now, ask))

-----------------------------------------------------------------------------
(* The inductive invariant. *)

Contents == Changes \cup {Absent}
Writing == {"create", "fill", "rename"}
Failures == {"none", "refused", "BackendUnavailable", "Internal"}

AdminTypeOK ==
    /\ config \in Configs /\ ran \in BOOLEAN /\ up \in {"down", "up", "gone"}
    /\ live \in Lives(config) /\ kept \in Changes
    /\ file \in [seen : Contents, may : SUBSET Contents, temp : Contents]
    /\ job \in [at : {"idle", "publish", "sync"} \cup Writing, for : {"none", "set", "restore", "load"},
                doc : Changes, moved : Changes, answer : Failures]
    /\ last = [ask |-> last.ask, answer |-> last.answer, wrote |-> last.wrote]

\* What each job is for, and what of it is on file yet.
JobOK ==
    /\ job.at = "idle" => job = NoJob
    /\ job.at # "idle" => job.for # "none" /\ last.answer # "ok"
    /\ job.at = "publish" => job.for = "set"
    /\ job.at = "rename" => file.temp = job.doc
    /\ job.at = "sync" => file.seen = job.doc
    /\ job.for = "set" =>
          /\ up # "down" /\ job.doc = job.moved /\ last.ask \in Asks
          /\ Holds(last.ask, Effective(job.moved, config))
          /\ job.at \in Writing => DocOf(file.seen) = kept
          /\ job.at = "publish" => /\ DocOf(file.seen) = job.moved
                                   /\ job.moved # kept => file.may = {file.seen}
    /\ job.for = "restore" =>
          /\ up # "down" /\ job.doc = kept
          /\ job.at \in Writing => DocOf(file.seen) = job.moved
    /\ job.for = "load" =>
          /\ up = "down" /\ job.doc = Normalise(DocOf(file.seen), config)

\* A document the driver may keep while it runs.
Keepable(o) == Readable(o) /\ Normalise(o, config) = o /\ Fits(o, config)

\* What is on file, and what a power loss may leave there, is read and, once a
\* runtime has started with this configuration, fits.  Before that it is one
\* document and its normal form.
StoreOK ==
    /\ file.seen \in file.may
    /\ \A contents \in file.may : Readable(DocOf(contents))
    /\ ran => \A contents \in file.may : Fits(Normalise(DocOf(contents), config), config)
    /\ ~ran => \A contents \in file.may :
                  Normalise(DocOf(contents), config) = Normalise(DocOf(file.seen), config)

DriverOK ==
    up # "down" =>
        /\ ran /\ Keepable(kept)
        /\ job.at # "idle" => Keepable(job.doc) /\ Keepable(job.moved)

OkOK ==
    last.answer = "ok" =>
        /\ up # "down" /\ last.ask \in Asks
        /\ Holds(last.ask, live) /\ Holds(last.ask, Effective(DocOf(file.seen), config))
        /\ last.wrote => \A contents \in file.may : Holds(last.ask, Effective(DocOf(contents), config))

OverlayInv == AdminTypeOK /\ JobOK /\ StoreOK /\ DriverOK /\ KeptIsOnFile /\ OkOK

-----------------------------------------------------------------------------
(* What the laws and the types give to every step. *)

LEMMA Documents ==
  ASSUME OverlayLaws
  PROVE  /\ \A o \in Changes : DocOf(o) = o /\ o \in Contents /\ o # Absent /\ o # Torn
         /\ \A x \in Contents : DocOf(x) \in Changes /\ x # Torn
         /\ Absent \in Contents /\ DocOf(Absent) = Empty
         /\ \A c \in Configs, o \in Changes :
               /\ Normalise(o, c) \in Changes
               /\ Normalise(Normalise(o, c), c) = Normalise(o, c)
               /\ Readable(o) => Readable(Normalise(o, c))
               /\ Effective(o, c) \in Lives(c)
BY DEF OverlayLaws, DocOf, Contents

LEMMA Fields ==
  ASSUME OverlayLaws, AdminTypeOK
  PROVE  /\ file.seen \in Contents /\ file.may \subseteq Contents /\ file.temp \in Contents
         /\ file = [seen |-> file.seen, may |-> file.may, temp |-> file.temp]
         /\ job.doc \in Changes /\ job.moved \in Changes /\ job.answer \in Failures
         /\ job.at \in {"idle", "publish", "sync"} \cup Writing
         /\ job.for \in {"none", "set", "restore", "load"}
         /\ DocOf(file.seen) \in Changes
BY Documents DEF AdminTypeOK

\* No job is under way after the step.
LEMMA Rest ==
  ASSUME job' = NoJob
  PROVE  JobOK' /\ job'.at = "idle"
BY DEF JobOK, NoJob, Writing

\* Neither the configuration nor the file's contents change.
LEMMA SameStore ==
  ASSUME StoreOK, UNCHANGED <<config, ran>>, file'.seen = file.seen, file'.may = file.may
  PROVE  StoreOK'
BY DEF StoreOK, DocOf

LEMMA SameDriver ==
  ASSUME DriverOK, UNCHANGED <<config, ran>>, up' = up \/ up # "down", kept' = kept, job' = NoJob
  PROVE  DriverOK'
BY DEF DriverOK, NoJob, Keepable

LEMMA SameOk ==
  ASSUME OkOK, UNCHANGED <<config, live, last, up>>, file'.seen = file.seen, file'.may \subseteq file.may
  PROVE  OkOK'
BY DEF OkOK, DocOf

\* A job is typed as its parts are.
LEMMA JobType ==
  ASSUME OverlayLaws, NEW for \in {"set", "restore", "load"}, NEW doc \in Changes, NEW moved \in Changes,
         NEW answer \in Failures, NEW at \in {"idle", "publish", "sync"} \cup Writing
  PROVE  /\ [at |-> at, for |-> for, doc |-> doc, moved |-> moved, answer |-> answer]
              \in [at : {"idle", "publish", "sync"} \cup Writing, for : {"none", "set", "restore", "load"},
                   doc : Changes, moved : Changes, answer : Failures]
         /\ NoJob \in [at : {"idle", "publish", "sync"} \cup Writing, for : {"none", "set", "restore", "load"},
                        doc : Changes, moved : Changes, answer : Failures]
BY DEF NoJob, Failures, OverlayLaws

\* The initial states.
LEMMA OverlayInit == OverlayLaws /\ Init => OverlayInv
<1> SUFFICES ASSUME OverlayLaws, Init PROVE OverlayInv
  OBVIOUS
<1> USE Documents
<1>1. AdminTypeOK
  <2>1. job \in [at : {"idle", "publish", "sync"} \cup Writing, for : {"none", "set", "restore", "load"},
                 doc : Changes, moved : Changes, answer : Failures]
    BY DEF Init, NoJob, OverlayLaws, Failures
  <2>2. live \in Lives(config) /\ kept \in Changes
    BY DEF Init, OverlayLaws
  <2>3. file \in [seen : Contents, may : SUBSET Contents, temp : Contents]
    BY DEF Init
  <2>4. last = [ask |-> last.ask, answer |-> last.answer, wrote |-> last.wrote]
    BY DEF Init, NoAnswer
  <2> QED BY <2>1, <2>2, <2>3, <2>4, Zenon DEF Init, AdminTypeOK
<1>2. JobOK
  BY DEF Init, JobOK, NoJob, Writing
<1>3. StoreOK
  BY DEF Init, StoreOK, OverlayLaws
<1>4. DriverOK /\ KeptIsOnFile /\ OkOK
  BY DEF Init, DriverOK, KeptIsOnFile, OkOK, NoAnswer
<1> QED BY <1>1, <1>2, <1>3, <1>4 DEF OverlayInv

-----------------------------------------------------------------------------
(* One lemma per action. *)

\* `set_trust` and `set_endpoints` up to their first write or publish.
LEMMA AskOK ==
  ASSUME OverlayLaws, OverlayInv, NEW ask \in Asks, Ask(ask)
  PROVE  OverlayInv'
<1> USE Documents, Fields DEF OverlayInv
<1> DEFINE moved == Move(kept, config, ask)
<1>1. /\ up # "down" /\ job.at = "idle" /\ UNCHANGED <<config, ran, up, live, kept, file>>
      /\ kept = DocOf(file.seen) /\ Keepable(kept)
  BY DEF Ask, KeptIsOnFile, DriverOK
<1>2. StoreOK'
  BY <1>1, SameStore
<1>3. CASE Denies(live, kept, config, ask)
  <2>1. job' = NoJob /\ last' = [ask |-> ask, answer |-> "refused", wrote |-> FALSE]
    BY <1>3 DEF Ask
  <2>2. AdminTypeOK'
    BY <1>1, <2>1, JobType DEF AdminTypeOK, Failures
  <2> QED BY <1>1, <1>2, <2>1, <2>2, Rest, SameDriver DEF KeptIsOnFile, OkOK
<1>4. CASE ~Denies(live, kept, config, ask)
  <2>1. last' = [ask |-> ask, answer |-> "none", wrote |-> FALSE]
    BY <1>4 DEF Ask, NoAnswer
  <2>2. /\ moved \in Changes /\ Holds(ask, Effective(moved, config))
        /\ moved # kept => Keepable(moved)
    BY <1>1, <1>4 DEF OverlayLaws, Keepable, AdminTypeOK
  <2>3. Keepable(moved)
    BY <1>1, <2>2
  <2>4. \/ /\ moved = kept
           /\ job' = [at |-> "publish", for |-> "set", doc |-> moved, moved |-> moved, answer |-> "none"]
        \/ /\ moved # kept
           /\ job' = [at |-> "create", for |-> "set", doc |-> moved, moved |-> moved, answer |-> "none"]
    BY <1>4, Zenon DEF Ask, Writes, NoJob
  <2> HIDE DEF moved
  <2>5. AdminTypeOK'
    <3>1. "none" \in Failures /\ {"publish", "create"} \subseteq {"idle", "publish", "sync"} \cup Writing
      BY DEF Failures, Writing
    <3>2. job' \in [at : {"idle", "publish", "sync"} \cup Writing, for : {"none", "set", "restore", "load"},
                    doc : Changes, moved : Changes, answer : Failures]
      BY <2>2, <2>4, <3>1
    <3> QED BY <1>1, <2>1, <3>2 DEF AdminTypeOK
  <2>6. JobOK'
    BY <1>1, <2>1, <2>2, <2>4 DEF JobOK, Writing, DocOf
  <2>7. DriverOK'
    BY <1>1, <2>3, <2>4 DEF DriverOK, Keepable
  <2>8. KeptIsOnFile' /\ OkOK'
    BY <2>1, <2>4 DEF KeptIsOnFile, OkOK
  <2> QED BY <1>2, <2>5, <2>6, <2>7, <2>8
<1> QED BY <1>3, <1>4

\* A step of a write that succeeds before the rename.
LEMMA AdvanceOK ==
  ASSUME OverlayLaws, OverlayInv, NEW at \in {"fill", "rename"}, Advance(at), job.at \in Writing,
         file'.seen = file.seen, file'.may = file.may, file'.temp \in Contents,
         file' = [seen |-> file'.seen, may |-> file'.may, temp |-> file'.temp],
         at = "rename" => file'.temp = job.doc
  PROVE  OverlayInv'
<1> USE Documents, Fields DEF OverlayInv
<1>1. UNCHANGED <<config, ran, up, live, kept, last>> /\ job' = [job EXCEPT !.at = at]
  BY DEF Advance
<1>2. /\ job'.at = at /\ job'.for = job.for /\ job'.doc = job.doc /\ job'.moved = job.moved
      /\ at \in Writing
  BY <1>1 DEF AdminTypeOK, Writing
<1>3. AdminTypeOK'
  <2>1. job' \in [at : {"idle", "publish", "sync"} \cup Writing, for : {"none", "set", "restore", "load"},
                  doc : Changes, moved : Changes, answer : Failures]
    BY <1>1, <1>2 DEF AdminTypeOK
  <2>2. file' \in [seen : Contents, may : SUBSET Contents, temp : Contents]
    BY <1>1
  <2> QED BY <1>1, <2>1, <2>2 DEF AdminTypeOK
<1>4. JobOK'
  BY <1>1, <1>2 DEF JobOK, Writing, DocOf
<1>5. StoreOK' /\ OkOK'
  BY <1>1, SameStore, SameOk
<1>6. DriverOK' /\ KeptIsOnFile'
  BY <1>1, <1>2 DEF DriverOK, KeptIsOnFile, Keepable, Writing
<1> QED BY <1>3, <1>4, <1>5, <1>6

\* A write that fails before its rename: what was on file stays there.
LEMMA FailedOK ==
  ASSUME OverlayLaws, OverlayInv, WriteFailed, job.at \in Writing,
         file'.seen = file.seen, file'.may = file.may, file'.temp \in Contents,
         file' = [seen |-> file'.seen, may |-> file'.may, temp |-> file'.temp]
  PROVE  OverlayInv'
<1> USE Documents, Fields DEF OverlayInv
<1>1. UNCHANGED <<config, ran, up, live>> /\ job' = NoJob
  BY DEF WriteFailed
<1>2. /\ kept' \in Changes /\ (up # "down" => kept' = DocOf(file.seen) /\ Keepable(kept'))
      /\ last' = [ask |-> last'.ask, answer |-> last'.answer, wrote |-> last'.wrote]
      /\ last'.answer # "ok"
  <2>1. CASE job.for = "set"
    BY <2>1, Zenon DEF WriteFailed, Answered, JobOK, DriverOK, AdminTypeOK, Writing
  <2>2. CASE job.for = "restore"
    BY <2>2, Zenon DEF WriteFailed, Answered, JobOK, DriverOK, AdminTypeOK, Writing
  <2>3. CASE job.for = "load"
    BY <2>3 DEF WriteFailed, JobOK, AdminTypeOK, Writing
  <2> QED BY <2>1, <2>2, <2>3, Zenon DEF WriteFailed
<1>3. AdminTypeOK'
  <2>1. NoJob \in [at : {"idle", "publish", "sync"} \cup Writing, for : {"none", "set", "restore", "load"},
                   doc : Changes, moved : Changes, answer : Failures]
    BY JobType
  <2>2. file' \in [seen : Contents, may : SUBSET Contents, temp : Contents]
    OBVIOUS
  <2> QED BY <1>1, <1>2, <2>1, <2>2 DEF AdminTypeOK
<1>4. JobOK' /\ StoreOK'
  BY <1>1, Rest, SameStore
<1>5. DriverOK'
  BY <1>1, <1>2 DEF DriverOK, NoJob, Keepable
<1>6. KeptIsOnFile' /\ OkOK'
  BY <1>1, <1>2 DEF KeptIsOnFile, OkOK, DocOf
<1> QED BY <1>3, <1>4, <1>5, <1>6

LEMMA CreateTempOK ==
  ASSUME OverlayLaws, OverlayInv, CreateTemp
  PROVE  OverlayInv'
<1>1. /\ job.at \in Writing /\ file' = file
      /\ Advance("fill") \/ WriteFailed
  BY DEF CreateTemp, Writing
<1>2. file'.temp \in Contents /\ file' = [seen |-> file'.seen, may |-> file'.may, temp |-> file'.temp]
  BY <1>1, Fields DEF OverlayInv
<1> QED BY <1>1, <1>2, AdvanceOK, FailedOK

LEMMA FillTempOK ==
  ASSUME OverlayLaws, OverlayInv, FillTemp
  PROVE  OverlayInv'
<1> USE Documents, Fields DEF OverlayInv
<1>1. job.at \in Writing
  BY DEF FillTemp, Writing
<1>2. CASE Advance("rename") /\ file' = [file EXCEPT !.temp = job.doc]
  <2>1. /\ file'.seen = file.seen /\ file'.may = file.may /\ file'.temp = job.doc
        /\ file' = [seen |-> file'.seen, may |-> file'.may, temp |-> file'.temp]
    BY <1>2
  <2> QED BY <1>1, <1>2, <2>1, AdvanceOK
<1>3. CASE WriteFailed /\ file' = file
  BY <1>1, <1>3, FailedOK
<1> QED BY <1>2, <1>3 DEF FillTemp

\* The rename: what a power loss may leave grows by a document that loads.
LEMMA RenameTempOK ==
  ASSUME OverlayLaws, OverlayInv, RenameTemp
  PROVE  OverlayInv'
<1> USE Documents, Fields DEF OverlayInv
<1>1. job.at = "rename" /\ job.at \in Writing /\ file.temp = job.doc
  BY DEF RenameTemp, Writing, JobOK
<1>2. CASE WriteFailed /\ file' = [file EXCEPT !.temp = Absent]
  <2>1. /\ file'.seen = file.seen /\ file'.may = file.may /\ file'.temp = Absent
        /\ file' = [seen |-> file'.seen, may |-> file'.may, temp |-> file'.temp]
    BY <1>2
  <2> QED BY <1>1, <1>2, <2>1, FailedOK
<1>3. CASE /\ Advance("sync")
           /\ file' = [seen |-> job.doc, may |-> file.may \cup {file.temp}, temp |-> Absent]
  <2>1. /\ UNCHANGED <<config, ran, up, live, kept, last>> /\ job' = [job EXCEPT !.at = "sync"]
        /\ file'.seen = job.doc /\ file'.may = file.may \cup {job.doc}
    BY <1>1, <1>3 DEF Advance
  <2>2. /\ job'.at = "sync" /\ job'.for = job.for /\ job'.doc = job.doc /\ job'.moved = job.moved
        /\ job'.answer = job.answer
    BY <2>1 DEF AdminTypeOK
  <2>3. AdminTypeOK'
    <3>1. job' \in [at : {"idle", "publish", "sync"} \cup Writing, for : {"none", "set", "restore", "load"},
                    doc : Changes, moved : Changes, answer : Failures]
      BY <2>1, <2>2 DEF AdminTypeOK
    <3>2. file' \in [seen : Contents, may : SUBSET Contents, temp : Contents]
      BY <1>1, <1>3
    <3> QED BY <2>1, <3>1, <3>2 DEF AdminTypeOK
  <2>4. config \in Configs /\ job.for # "none" /\ last.answer # "ok"
    BY <1>1 DEF AdminTypeOK, JobOK
  <2>5. JobOK'
    <3>1. job.for = "load" => Normalise(DocOf(job.doc), config) = job.doc
      BY <2>4 DEF JobOK
    <3> QED BY <1>1, <2>1, <2>2, <2>4, <3>1 DEF JobOK, Writing
  <2>6. /\ Readable(job.doc) /\ (ran => Fits(Normalise(job.doc, config), config))
        /\ ~ran => Normalise(job.doc, config) = Normalise(DocOf(file.seen), config)
    <3>1. CASE up # "down"
      BY <1>1, <3>1 DEF DriverOK, Keepable
    <3>2. CASE job.for = "load"
      BY <2>4, <3>2 DEF JobOK, StoreOK
    <3> QED BY <2>4, <3>1, <3>2 DEF JobOK
  <2>7. StoreOK'
    BY <2>1, <2>6 DEF StoreOK, DocOf
  <2>8. DriverOK' /\ KeptIsOnFile' /\ OkOK'
    BY <1>1, <2>1, <2>2, <2>4 DEF DriverOK, Keepable, KeptIsOnFile, OkOK
  <2> QED BY <2>3, <2>5, <2>7, <2>8
<1> QED BY <1>2, <1>3 DEF RenameTemp

\* The directory's sync, which may fail after the rename.
LEMMA SyncDirectoryOK ==
  ASSUME OverlayLaws, OverlayInv, SyncDirectory
  PROVE  OverlayInv'
<1> USE Documents, Fields DEF OverlayInv
<1>1. /\ job.at = "sync" /\ file.seen = job.doc /\ DocOf(file.seen) = job.doc
      /\ config \in Configs /\ last.answer # "ok" /\ job.at \notin Writing /\ config' = config
  BY Zenon DEF SyncDirectory, JobOK, AdminTypeOK, Writing, WriteDone, WriteUnsynced
<1>2. NoJob \in [at : {"idle", "publish", "sync"} \cup Writing, for : {"none", "set", "restore", "load"},
                 doc : Changes, moved : Changes, answer : Failures]
  BY JobType DEF Failures
<1>3. CASE WriteDone /\ file' = [file EXCEPT !.may = {file.seen}]
  <2>1. /\ file'.seen = file.seen /\ file'.may = {file.seen}
        /\ file' \in [seen : Contents, may : SUBSET Contents, temp : Contents]
    BY <1>3
  <2>2. CASE job.for = "set"
    <3>1. job' = [job EXCEPT !.at = "publish"] /\ UNCHANGED <<ran, up, live, kept, last>>
      BY <1>3, <2>2 DEF WriteDone
    <3>2. /\ job'.at = "publish" /\ job'.for = "set" /\ job'.doc = job.doc /\ job'.moved = job.moved
      BY <2>2, <3>1 DEF AdminTypeOK
    <3>3. AdminTypeOK'
      <4>1. job' \in [at : {"idle", "publish", "sync"} \cup Writing, for : {"none", "set", "restore", "load"},
                      doc : Changes, moved : Changes, answer : Failures]
        BY <3>1 DEF AdminTypeOK
      <4> QED BY <1>1, <2>1, <3>1, <4>1 DEF AdminTypeOK
    <3>4. JobOK'
      BY <1>1, <2>1, <2>2, <3>1, <3>2 DEF JobOK, Writing, DocOf
    <3>5. StoreOK'
      BY <1>1, <2>1, <3>1 DEF StoreOK, DocOf
    <3>6. DriverOK' /\ KeptIsOnFile' /\ OkOK'
      BY <1>1, <3>1, <3>2 DEF DriverOK, KeptIsOnFile, OkOK, Keepable
    <3> QED BY <3>3, <3>4, <3>5, <3>6
  <2>3. CASE job.for = "restore"
    <3>1. /\ job' = NoJob /\ UNCHANGED <<ran, up, live, kept>>
          /\ last' = [last EXCEPT !.answer = job.answer, !.wrote = FALSE]
      BY <1>3, <2>3 DEF WriteDone, Answered
    <3>2. /\ last' = [ask |-> last'.ask, answer |-> last'.answer, wrote |-> last'.wrote]
          /\ last'.answer # "ok" /\ kept = job.doc /\ up # "down"
      BY <2>3, <3>1, Zenon DEF AdminTypeOK, Failures, JobOK
    <3>3. AdminTypeOK'
      BY <1>1, <1>2, <2>1, <3>1, <3>2 DEF AdminTypeOK
    <3>4. StoreOK'
      BY <1>1, <2>1, <3>1 DEF StoreOK, DocOf
    <3>5. KeptIsOnFile' /\ OkOK'
      BY <1>1, <2>1, <3>1, <3>2 DEF KeptIsOnFile, OkOK, DocOf
    <3> QED BY <1>1, <3>1, <3>3, <3>4, <3>5, Rest, SameDriver
  <2>4. CASE job.for = "load"
    <3>1. /\ job' = NoJob /\ last' = last
          /\ IF Fits(job.doc, config) THEN Serve(job.doc) ELSE UNCHANGED <<ran, up, live, kept>>
      BY <1>3, <2>4 DEF WriteDone
    <3>2. Normalise(job.doc, config) = job.doc /\ Readable(job.doc) /\ up = "down"
      BY <1>1, <2>4 DEF JobOK, StoreOK
    <3>3. CASE Fits(job.doc, config)
      <4>1. kept' = job.doc /\ live' = Effective(job.doc, config) /\ up' = "up" /\ ran' = TRUE
        BY <3>1, <3>3 DEF Serve
      <4>2. AdminTypeOK'
        BY <1>1, <1>2, <2>1, <3>1, <4>1 DEF AdminTypeOK
      <4>3. StoreOK'
        BY <1>1, <2>1, <3>2, <3>3, <4>1 DEF StoreOK, DocOf
      <4>4. DriverOK' /\ KeptIsOnFile' /\ OkOK'
        BY <1>1, <2>1, <3>1, <3>2, <3>3, <4>1 DEF DriverOK, KeptIsOnFile, OkOK, Keepable, NoJob, DocOf
      <4> QED BY <3>1, <4>2, <4>3, <4>4, Rest
    <3>4. CASE ~Fits(job.doc, config)
      <4>1. UNCHANGED <<ran, up, live, kept>>
        BY <3>1, <3>4
      <4>2. AdminTypeOK'
        BY <1>1, <1>2, <2>1, <3>1, <4>1 DEF AdminTypeOK
      <4>3. StoreOK'
        BY <1>1, <2>1, <4>1 DEF StoreOK, DocOf
      <4>4. DriverOK' /\ KeptIsOnFile' /\ OkOK'
        BY <1>1, <3>1, <3>2, <4>1 DEF DriverOK, KeptIsOnFile, OkOK
      <4> QED BY <3>1, <4>2, <4>3, <4>4, Rest
    <3> QED BY <3>3, <3>4
  <2> QED BY <1>3, <2>2, <2>3, <2>4, Zenon DEF WriteDone
<1>4. CASE WriteUnsynced /\ file' = file
  <2>0. UNCHANGED <<config, ran, up, live, kept>>
    BY <1>4 DEF WriteUnsynced
  <2>1. StoreOK'
    BY <1>4, <2>0, SameStore
  <2>2. CASE job.for = "set"
    <3>1. /\ last' = last
          /\ job' = [at |-> "create", for |-> "restore", doc |-> kept, moved |-> job.moved, answer |-> "Internal"]
      BY <1>4, <2>2 DEF WriteUnsynced, Writes
    <3>2. up # "down" /\ job.doc = job.moved
      BY <2>2 DEF JobOK
    <3>3. AdminTypeOK'
      <4>1. kept \in Changes /\ "Internal" \in Failures /\ "create" \in Writing
        BY DEF AdminTypeOK, Failures, Writing
      <4>2. job' \in [at : {"idle", "publish", "sync"} \cup Writing, for : {"none", "set", "restore", "load"},
                      doc : Changes, moved : Changes, answer : Failures]
        BY <3>1, <4>1
      <4> QED BY <1>4, <2>0, <3>1, <4>2 DEF AdminTypeOK
    <3>4. JobOK'
      BY <1>1, <1>4, <2>0, <3>1, <3>2 DEF JobOK, Writing, DocOf
    <3>5. DriverOK' /\ KeptIsOnFile' /\ OkOK'
      BY <1>1, <2>0, <3>1 DEF DriverOK, KeptIsOnFile, OkOK, Keepable
    <3> QED BY <2>1, <3>3, <3>4, <3>5
  <2>3. CASE job.for = "restore"
    <3>1. job' = NoJob /\ last' = [last EXCEPT !.answer = job.answer, !.wrote = FALSE]
      BY <1>4, <2>3 DEF WriteUnsynced, Answered
    <3>2. /\ last' = [ask |-> last'.ask, answer |-> last'.answer, wrote |-> last'.wrote]
          /\ last'.answer # "ok" /\ kept = job.doc
      BY <2>3, <3>1, Zenon DEF AdminTypeOK, Failures, JobOK
    <3>3. AdminTypeOK'
      BY <1>2, <1>4, <2>0, <3>1, <3>2 DEF AdminTypeOK
    <3>4. KeptIsOnFile' /\ OkOK'
      BY <1>1, <1>4, <2>0, <3>2 DEF KeptIsOnFile, OkOK, DocOf
    <3> QED BY <2>0, <2>1, <3>1, <3>3, <3>4, Rest, SameDriver
  <2>4. CASE job.for = "load"
    <3>1. job' = NoJob /\ last' = last /\ up = "down"
      BY <1>4, <2>4 DEF WriteUnsynced, JobOK
    <3>2. AdminTypeOK'
      BY <1>2, <1>4, <2>0, <3>1 DEF AdminTypeOK
    <3>3. KeptIsOnFile' /\ OkOK'
      BY <1>1, <2>0, <3>1 DEF KeptIsOnFile, OkOK
    <3> QED BY <2>0, <2>1, <3>1, <3>2, <3>3, Rest, SameDriver
  <2> QED BY <1>4, <2>2, <2>3, <2>4, Zenon DEF WriteUnsynced
<1> QED BY <1>3, <1>4 DEF SyncDirectory

\* The publish, and the previous overlay put back when it is not answered `ok`.
LEMMA PublishSetOK ==
  ASSUME OverlayLaws, OverlayInv, PublishSet
  PROVE  OverlayInv'
<1> USE Documents, Fields DEF OverlayInv
<1>1. /\ job.at = "publish" /\ job.for = "set" /\ up # "down" /\ UNCHANGED <<config, ran, file>>
      /\ last.ask \in Asks /\ last.answer # "ok" /\ job.doc = job.moved
      /\ Holds(last.ask, Effective(job.moved, config)) /\ DocOf(file.seen) = job.moved
      /\ job.moved # kept => file.may = {file.seen}
  BY DEF PublishSet, JobOK
<1>2. /\ config \in Configs /\ live \in Lives(config) /\ kept \in Changes
      /\ ran /\ Keepable(kept) /\ Keepable(job.moved)
  BY <1>1 DEF AdminTypeOK, DriverOK
<1>3. NoJob \in [at : {"idle", "publish", "sync"} \cup Writing, for : {"none", "set", "restore", "load"},
                 doc : Changes, moved : Changes, answer : Failures]
  BY JobType DEF Failures
<1>4. StoreOK'
  BY <1>1, SameStore
<1>5. CASE /\ ~Refuses(live, last.ask)
           /\ live' = Publish(live, last.ask) /\ kept' = job.moved
           /\ job' = NoJob /\ Answered("ok", job.moved # kept) /\ UNCHANGED up
  <2>1. live' \in Lives(config) /\ Holds(last.ask, live')
    BY <1>1, <1>2, <1>5 DEF OverlayLaws
  <2>2. /\ last'.ask = last.ask /\ last'.wrote = (job.moved # kept)
        /\ last' = [ask |-> last'.ask, answer |-> last'.answer, wrote |-> last'.wrote]
    BY <1>5, Zenon DEF Answered, AdminTypeOK
  <2>3. AdminTypeOK'
    BY <1>1, <1>3, <1>5, <2>1, <2>2 DEF AdminTypeOK
  <2>4. DriverOK' /\ KeptIsOnFile'
    BY <1>1, <1>2, <1>5 DEF DriverOK, KeptIsOnFile, NoJob, Keepable, DocOf
  <2>5. OkOK'
    <3>1. last'.wrote => file'.may = {file'.seen}
      BY <1>1, <2>2, Zenon
    <3>2. Holds(last'.ask, Effective(DocOf(file'.seen), config'))
      BY <1>1, <2>2
    <3>3. Holds(last'.ask, live') /\ last'.ask \in Asks /\ up' # "down"
      BY <1>1, <1>5, <2>1, <2>2
    <3> QED BY <3>1, <3>2, <3>3 DEF OkOK, DocOf
  <2> QED BY <1>4, <1>5, <2>3, <2>4, <2>5, Rest
<1>6. ASSUME NEW answer \in {"refused", "BackendUnavailable"}, Restore(answer), UNCHANGED <<live, kept>>,
             up' \in {"up", "gone"}
      PROVE  OverlayInv'
  <2>1. CASE job.moved = kept
    <3>1. job' = NoJob /\ last' = [last EXCEPT !.answer = answer, !.wrote = FALSE]
      BY <1>6, <2>1 DEF Restore, Answered
    <3>2. /\ last' = [ask |-> last'.ask, answer |-> last'.answer, wrote |-> last'.wrote]
          /\ last'.answer # "ok"
      BY <3>1, Zenon DEF AdminTypeOK
    <3>3. AdminTypeOK'
      BY <1>1, <1>3, <1>6, <3>1, <3>2 DEF AdminTypeOK
    <3>4. DriverOK' /\ KeptIsOnFile' /\ OkOK'
      BY <1>1, <1>2, <1>6, <2>1, <3>1, <3>2 DEF DriverOK, KeptIsOnFile, OkOK, NoJob, Keepable, DocOf
    <3> QED BY <1>4, <3>1, <3>3, <3>4, Rest
  <2>2. CASE job.moved # kept
    <3>1. /\ last' = last
          /\ job' = [at |-> "create", for |-> "restore", doc |-> kept, moved |-> job.moved, answer |-> answer]
      BY <1>6, <2>2 DEF Restore, Writes
    <3>2. AdminTypeOK'
      <4>1. answer \in Failures /\ "create" \in Writing
        BY <1>6 DEF Failures, Writing
      <4>2. job' \in [at : {"idle", "publish", "sync"} \cup Writing, for : {"none", "set", "restore", "load"},
                      doc : Changes, moved : Changes, answer : Failures]
        BY <1>2, <3>1, <4>1
      <4> QED BY <1>1, <1>6, <3>1, <4>2 DEF AdminTypeOK
    <3>3. JobOK'
      BY <1>1, <1>6, <3>1 DEF JobOK, Writing, DocOf
    <3>4. DriverOK' /\ KeptIsOnFile' /\ OkOK'
      BY <1>1, <1>2, <1>6, <3>1 DEF DriverOK, KeptIsOnFile, OkOK, Keepable
    <3> QED BY <1>4, <3>2, <3>3, <3>4
  <2> QED BY <2>1, <2>2
<1>7. CASE up = "up" /\ Restore("refused") /\ UNCHANGED <<up, live, kept>>
  BY <1>6, <1>7
<1>8. CASE up' = "gone" /\ UNCHANGED <<live, kept>> /\ Restore("BackendUnavailable")
  BY <1>6, <1>8
<1> QED BY <1>5, <1>7, <1>8 DEF PublishSet

\* `load_within` at a start.
LEMMA StartOK ==
  ASSUME OverlayLaws, OverlayInv, Start
  PROVE  OverlayInv'
<1> USE Documents, Fields DEF OverlayInv
<1> DEFINE doc == DocOf(file.seen)
           normal == Normalise(doc, config)
<1>1. /\ up = "down" /\ job.at = "idle" /\ Readable(doc) /\ last' = NoAnswer /\ UNCHANGED <<config, file>>
      /\ config \in Configs /\ job = NoJob
  BY DEF Start, AdminTypeOK, JobOK
<1>2. doc \in Changes /\ normal \in Changes /\ Readable(normal) /\ Normalise(normal, config) = normal
  BY <1>1
<1>3. \/ normal # doc /\ Writes("load", normal, normal, "none") /\ UNCHANGED <<ran, up, live, kept>>
      \/ normal = doc /\ Fits(normal, config) /\ Serve(normal) /\ UNCHANGED job
  BY DEF Start
<1>4. /\ last' = [ask |-> last'.ask, answer |-> last'.answer, wrote |-> last'.wrote]
      /\ last'.answer = "none"
  BY <1>1 DEF NoAnswer
<1> HIDE DEF normal
<1>5. CASE Writes("load", normal, normal, "none") /\ UNCHANGED <<ran, up, live, kept>>
  <2>1. job' = [at |-> "create", for |-> "load", doc |-> normal, moved |-> normal, answer |-> "none"]
    BY <1>5 DEF Writes
  <2>2. AdminTypeOK'
    <3>1. "none" \in Failures /\ "create" \in Writing
      BY DEF Failures, Writing
    <3>2. job' \in [at : {"idle", "publish", "sync"} \cup Writing, for : {"none", "set", "restore", "load"},
                    doc : Changes, moved : Changes, answer : Failures]
      BY <1>2, <2>1, <3>1
    <3> QED BY <1>1, <1>4, <1>5, <3>2 DEF AdminTypeOK
  <2>3. JobOK'
    BY <1>1, <1>4, <1>5, <2>1 DEF JobOK, Writing, DocOf, normal
  <2>4. StoreOK'
    BY <1>1, <1>5, SameStore
  <2>5. DriverOK' /\ KeptIsOnFile' /\ OkOK'
    BY <1>1, <1>4, <1>5 DEF DriverOK, KeptIsOnFile, OkOK
  <2> QED BY <2>2, <2>3, <2>4, <2>5
<1>6. CASE normal = doc /\ Fits(normal, config) /\ Serve(normal) /\ UNCHANGED job
  <2>1. /\ kept' = normal /\ live' = Effective(normal, config) /\ up' = "up" /\ ran' = TRUE
        /\ job' = NoJob
    BY <1>1, <1>6 DEF Serve
  <2>2. AdminTypeOK'
    BY <1>1, <1>2, <1>4, <1>6, <2>1 DEF AdminTypeOK
  <2>3. \A contents \in file.may : Fits(Normalise(DocOf(contents), config), config)
    <3>1. CASE ran
      BY <3>1 DEF StoreOK
    <3>2. CASE ~ran
      BY <1>6, <3>2 DEF StoreOK, normal
    <3> QED BY <3>1, <3>2
  <2>4. StoreOK'
    BY <1>1, <2>1, <2>3 DEF StoreOK, DocOf
  <2>5. DriverOK' /\ KeptIsOnFile' /\ OkOK'
    BY <1>1, <1>2, <1>4, <1>6, <2>1 DEF DriverOK, KeptIsOnFile, OkOK, Keepable, NoJob, DocOf
  <2> QED BY <2>1, <2>2, <2>4, <2>5, Rest
<1> QED BY <1>3, <1>5, <1>6

\* The process dies, or the power goes.
LEMMA EndsOK ==
  ASSUME OverlayLaws, OverlayInv, NEW seen \in file.may, NEW may \in SUBSET file.may, seen \in may,
         Ends(seen, may)
  PROVE  OverlayInv'
<1> USE Documents, Fields DEF OverlayInv
<1>1. /\ up' = "down" /\ job' = NoJob /\ last' = NoAnswer /\ UNCHANGED <<config, ran>>
      /\ file' = [seen |-> seen, may |-> may, temp |-> Absent]
      /\ live' = Effective(Empty, config) /\ kept' = Empty
  BY DEF Ends
<1>2. /\ last' = [ask |-> last'.ask, answer |-> last'.answer, wrote |-> last'.wrote]
      /\ last'.answer = "none"
  BY <1>1 DEF NoAnswer
<1>3. AdminTypeOK'
  <2>1. NoJob \in [at : {"idle", "publish", "sync"} \cup Writing, for : {"none", "set", "restore", "load"},
                   doc : Changes, moved : Changes, answer : Failures]
    BY JobType DEF Failures
  <2>2. file' \in [seen : Contents, may : SUBSET Contents, temp : Contents]
    BY <1>1
  <2>3. Empty \in Changes /\ config \in Configs
    BY DEF OverlayLaws, AdminTypeOK
  <2> QED BY <1>1, <1>2, <2>1, <2>2, <2>3 DEF AdminTypeOK
<1>4. StoreOK'
  BY <1>1 DEF StoreOK, DocOf
<1>5. DriverOK' /\ KeptIsOnFile' /\ OkOK'
  BY <1>1, <1>2 DEF DriverOK, KeptIsOnFile, OkOK
<1> QED BY <1>1, <1>3, <1>4, <1>5, Rest

\* The kernel writes the directory back.
LEMMA WritebackOK ==
  ASSUME OverlayLaws, OverlayInv, Writeback
  PROVE  OverlayInv'
<1> USE Documents, Fields DEF OverlayInv
<1>1. /\ UNCHANGED <<config, ran, up, live, kept, job, last>>
      /\ file' = [file EXCEPT !.may = {file.seen}]
  BY DEF Writeback
<1>2. file'.seen = file.seen /\ file'.may = {file.seen} /\ file'.temp = file.temp
      /\ file' \in [seen : Contents, may : SUBSET Contents, temp : Contents]
  BY <1>1
<1>3. AdminTypeOK'
  BY <1>1, <1>2 DEF AdminTypeOK
<1>4. JobOK'
  BY <1>1, <1>2 DEF JobOK, Writing, DocOf
<1>5. StoreOK'
  BY <1>1, <1>2 DEF StoreOK, DocOf
<1>6. OkOK'
  <2>1. file'.may \subseteq file.may
    BY <1>2 DEF StoreOK
  <2> QED BY <1>1, <1>2, <2>1, SameOk
<1>7. DriverOK' /\ KeptIsOnFile'
  BY <1>1, <1>2 DEF DriverOK, KeptIsOnFile, Keepable, DocOf
<1> QED BY <1>3, <1>4, <1>5, <1>6, <1>7

\* The operator edits the configuration of a stopped profile.
LEMMA EditConfigOK ==
  ASSUME OverlayLaws, OverlayInv, EditConfig
  PROVE  OverlayInv'
<1> USE Documents, Fields DEF OverlayInv
<1>1. /\ up = "down" /\ job.at = "idle" /\ file.may = {file.seen} /\ config' \in Configs /\ ran' = FALSE
      /\ live' = Effective(Empty, config') /\ UNCHANGED <<up, kept, file, job, last>>
      /\ job = NoJob
  BY DEF EditConfig, Running, AdminTypeOK, JobOK
<1>2. AdminTypeOK'
  <2>1. live' \in Lives(config')
    BY <1>1 DEF OverlayLaws
  <2> QED BY <1>1, <2>1, Zenon DEF AdminTypeOK
<1>3. StoreOK'
  BY <1>1 DEF StoreOK, DocOf
<1>4. DriverOK' /\ KeptIsOnFile' /\ OkOK'
  BY <1>1 DEF DriverOK, KeptIsOnFile, OkOK
<1> QED BY <1>1, <1>2, <1>3, <1>4, Rest

LEMMA OverlayStep == OverlayLaws /\ OverlayInv /\ [Next]_vars => OverlayInv'
<1> SUFFICES ASSUME OverlayLaws, OverlayInv, [Next]_vars PROVE OverlayInv'
  OBVIOUS
<1>1. CASE Next
  <2>1. CASE \E ask \in Asks : Ask(ask)
    BY <2>1, AskOK
  <2>2. CASE CreateTemp \/ FillTemp \/ RenameTemp \/ SyncDirectory
    BY <2>2, CreateTempOK, FillTempOK, RenameTempOK, SyncDirectoryOK
  <2>3. CASE PublishSet \/ Start \/ Writeback \/ EditConfig
    BY <2>3, PublishSetOK, StartOK, WritebackOK, EditConfigOK
  <2>4. CASE Crash
    <3>1. file.seen \in file.may /\ Ends(file.seen, file.may)
      BY <2>4 DEF Crash, OverlayInv, StoreOK
    <3> QED BY <3>1, EndsOK
  <2>5. CASE PowerLoss
    <3>1. PICK contents \in file.may : Ends(contents, {contents})
      BY <2>5 DEF PowerLoss
    <3> QED BY <3>1, EndsOK
  <2> QED BY <1>1, <2>1, <2>2, <2>3, <2>4, <2>5 DEF Next
<1>2. CASE UNCHANGED vars
  BY <1>2 DEF vars, OverlayInv, AdminTypeOK, JobOK, StoreOK, DriverOK, KeptIsOnFile, OkOK, Keepable, DocOf
<1> QED BY <1>1, <1>2

\* The inductive invariant (runtime.rs `set_trust`, `set_endpoints`; persist.rs
\* `write_atomic_with_mode`): what a job has written, put back or published agrees
\* with the file and with the overlay that is kept, at each step it may die at.
THEOREM OverlayInvariant == ASSUME OverlayLaws PROVE Spec => []OverlayInv
BY OverlayInit, OverlayStep, PTL DEF Spec

\* What a start finds is read and fits (profile-config `load_within`).
LEMMA InvLoads == OverlayLaws /\ OverlayInv => NextStartLoads
<1> SUFFICES ASSUME OverlayLaws, OverlayInv PROVE NextStartLoads
  OBVIOUS
<1> QED BY Documents, Fields DEF OverlayInv, StoreOK, NextStartLoads
=============================================================================
