------------------------- MODULE HumanClientProofs --------------------------
(***************************************************************************)
(* Theorems of HumanClient about the messages a person sends, for every    *)
(* set of messages, configurations and errors, and for crashes and failing *)
(* writes at any step.                                                     *)
(***************************************************************************)
EXTENDS HumanClient, TLAPS

-----------------------------------------------------------------------------
(* The inductive invariant. *)

RowType == [attention : BOOLEAN, next : Due, reached : BOOLEAN]
UndoType == [attempted : BOOLEAN, reached : BOOLEAN]

InFlight == turn.at \in {"sending", "answered"}

OutTypeOK ==
    /\ IsMap(pending, Outgoing, BOOLEAN)
    /\ IsMap(rows, Outgoing, RowType)
    /\ IsMap(undo, Outgoing, UndoType)

\* One attempt at a time, of a row whose attempt is on record unless the store
\* refused it; a process that is down has none.
TurnOK ==
    /\ ~InFlight => turn = [at |-> turn.at]
    /\ turn.at = "sending" => turn = [at |-> "sending", m |-> turn.m]
    /\ turn.at = "answered" => turn = [at |-> "answered", m |-> turn.m, answer |-> turn.answer]
    /\ InFlight => turn.m \in DOMAIN rows /\ (pending[turn.m] \/ turn.m \in unrecorded)
    /\ state = "Down" => turn.at = "idle" /\ undo = EmptyMap /\ unrecorded = {}

\* Where a message may be: each row has its durable copy, a record that can be
\* taken back has none, and nothing is there that was never composed.
PlacesOK ==
    /\ DOMAIN rows \subseteq DOMAIN pending
    /\ DOMAIN undo \cap DOMAIN pending = {}
    /\ DOMAIN pending \cup DOMAIN undo \cup remote \subseteq composed

\* What is known of a message that the remote side took in.
ReachOK ==
    \A m \in remote :
        /\ m \in DOMAIN pending => pending[m] \/ m \in unrecorded \cup forgotten
        /\ m \in DOMAIN undo =>
              /\ undo[m].attempted \/ m \in unrecorded \cup forgotten
              /\ undo[m].reached \/ m \in forgotten
        /\ m \in DOMAIN rows =>
              \/ rows[m].reached \/ m \in forgotten
              \/ turn.at = "answered" /\ turn.m = m /\ turn.answer \in Ambiguous \cup {"Ok"}

OkOK == turn.at = "answered" /\ turn.answer = "Ok" => turn.m \in remote

OutInv == OutTypeOK /\ TurnOK /\ PlacesOK /\ ReachOK /\ OkOK /\ NothingPendingLost

-----------------------------------------------------------------------------
(* Maps. *)

LEMMA PutType ==
  ASSUME NEW map, NEW Keys, NEW Values, IsMap(map, Keys, Values), NEW key \in Keys, NEW value \in Values
  PROVE  IsMap(MapPut(map, key, value), Keys, Values)
BY Zenon DEF IsMap, MapPut

LEMMA DropType ==
  ASSUME NEW map, NEW Keys, NEW Values, IsMap(map, Keys, Values), NEW keys
  PROVE  IsMap(MapDrop(map, keys), Keys, Values)
BY Zenon DEF IsMap, MapDrop

LEMMA NoMap ==
  ASSUME NEW Keys, NEW Values
  PROVE  IsMap(EmptyMap, Keys, Values) /\ DOMAIN EmptyMap = {}
BY Zenon DEF IsMap, EmptyMap

-----------------------------------------------------------------------------
(* The steps that leave the sends alone. *)

Waiting ==
    {[at |-> "idle"], [at |-> "session"], [at |-> "joining"], [at |-> "retry"], [at |-> "drain"]}

Quiet ==
    /\ UNCHANGED <<pending, rows, undo, remote, composed, withdrawn, unrecorded, forgotten>>
    /\ turn' = turn \/ (~InFlight /\ turn' \in Waiting)
    /\ state' = "Down" => state = "Down" /\ turn' = turn

LEMMA QuietStep == OutInv /\ Quiet => OutInv'
<1> SUFFICES ASSUME OutInv, Quiet PROVE OutInv'
  BY Zenon
<1>1. OutTypeOK' /\ PlacesOK' /\ NothingPendingLost'
  BY Zenon DEF OutInv, Quiet, OutTypeOK, PlacesOK, NothingPendingLost
<1>2. TurnOK' /\ ReachOK' /\ OkOK'
  <2>1. CASE turn' = turn
    BY <2>1, Zenon DEF OutInv, Quiet, TurnOK, ReachOK, OkOK, InFlight
  <2>2. CASE ~InFlight /\ turn' \in Waiting
    BY <2>2 DEF OutInv, Quiet, TurnOK, ReachOK, OkOK, InFlight, Waiting
  <2> QED BY <2>1, <2>2, Zenon DEF Quiet
<1> QED BY <1>1, <1>2, Zenon DEF OutInv

\* `enter_degraded` does not bring the process down, and neither does the loss
\* of a session.
LEMMA DegradedStaysUp ==
  ASSUME EnterDegraded PROVE state' = state \/ state' = "StorageDegraded"
BY Zenon DEF EnterDegraded, sessionVars

LEMMA LossStaysUp ==
  ASSUME NEW r, NEW e, NEW h, LoseSession(r, e, h)
  PROVE  UNCHANGED pending /\ state' \in {state, "StorageDegraded", "Reconnecting"}
<1>1. PICK taken : Stores(taken) /\ (EnterDegraded \/ state' = "Reconnecting")
  BY Zenon DEF LoseSession
<1>2. UNCHANGED pending
  BY <1>1, Zenon DEF Stores
<1> QED BY <1>1, <1>2, DegradedStaysUp, Zenon

LEMMA InsertFailsQuietly ==
  ASSUME InsertFails PROVE UNCHANGED pending
BY Zenon DEF InsertFails, Rejected, WriteFails, WriteRefused, storeVars, tables

LEMMA WriteFailsQuietly ==
  ASSUME WriteFails \/ WriteRefused PROVE UNCHANGED pending
BY Zenon DEF WriteFails, WriteRefused, storeVars, tables

LEMMA WriteFailsUp ==
  ASSUME WriteFailsHere
  PROVE  UNCHANGED pending /\ (state' = state \/ state' = "StorageDegraded")
BY WriteFailsQuietly, DegradedStaysUp, Zenon DEF WriteFailsHere, sessionVars

LEMMA InsertFailsUp ==
  ASSUME InsertFailsHere
  PROVE  UNCHANGED pending /\ (state' = state \/ state' = "StorageDegraded")
BY InsertFailsQuietly, DegradedStaysUp, Zenon DEF InsertFailsHere, sessionVars

\* Reading, keeping, opening, closing and looking at the store.
LEMMA CommandsAreQuiet ==
  ASSUME OutInv,
         \/ \E k \in Incoming : Inbound(k)
         \/ Reopen \/ Recheck \/ Close
  PROVE  Quiet
<1>1. ASSUME NEW k, MarkRead(k) \/ Keep(k) \/ Unkeep(k) \/ ForgetCopy(k) PROVE Quiet
  <2>1. Unmoved /\ UNCHANGED pending
    BY <1>1, WriteFailsQuietly, InsertFailsQuietly, Zenon
    DEF MarkRead, Keep, Unkeep, ForgetCopy, StoreMarkRead, StoreKeep, StoreUnkeep, storeVars, tables
  <2> QED BY <2>1, Zenon DEF Unmoved, Quiet, sessionVars, outVars, memos
<1>2. ASSUME NEW k, Arrive(k) PROVE Quiet
  BY <1>2, Zenon DEF Arrive, Quiet, storeVars, tables, sessionVars, outVars, memos
<1>3. ASSUME Reopen PROVE Quiet
  BY <1>3, Zenon DEF Reopen, Quiet, storeVars, tables, outVars, memos
<1>4. ASSUME Recheck PROVE Quiet
  BY <1>4, Zenon DEF Recheck, TickStorage, RecheckHealth, Quiet, tables, outVars, memos
<1>5. ASSUME Close PROVE Quiet
  BY <1>5, Zenon DEF Close, Quiet, storeVars, tables, outVars, memos
<1> QED BY <1>1, <1>2, <1>3, <1>4, <1>5, Zenon DEF Inbound

\* The steps of a turn that send nothing.
LEMMA TurnsAreQuiet ==
  ASSUME OutInv, TickBegins \/ TickSession \/ Joined \/ JoinFails \/ RetryEnds \/ Drain
  PROVE  Quiet
<1>1. ASSUME TickBegins PROVE Quiet
  <2>1. state # "Down" /\ ~InFlight /\ turn' \in Waiting
    BY <1>1, Zenon DEF TickBegins, Commands, Running, At, NextStep, InFlight, Waiting
  <2>2. UNCHANGED pending /\ state' # "Down"
    BY <1>1, <2>1, DegradedStaysUp, Zenon
    DEF TickBegins, TickStorage, RecheckHealth, storeVars, tables, sessionVars
  <2> QED BY <1>1, <2>1, <2>2, Zenon DEF TickBegins, Quiet, outVars, memos
<1>2. ASSUME TickSession PROVE Quiet
  <2>1. ~InFlight /\ turn' \in Waiting /\ turn.at # "idle"
    BY <1>2, Zenon DEF TickSession, OpenFails, At, NextStep, InFlight, Waiting
  <2>2. state # "Down"
    BY <2>1, Zenon DEF OutInv, TurnOK
  <2>3. state' # "Down"
    BY <1>2, <2>2, Zenon DEF TickSession, OpenFails
  <2> QED BY <1>2, <2>1, <2>3, Zenon DEF TickSession, Quiet, outVars, memos, storeVars, tables
<1>3. ASSUME RetryEnds PROVE Quiet
  <2>1. ~InFlight /\ turn' \in Waiting /\ turn.at # "idle"
    BY <1>3, Zenon DEF RetryEnds, At, NextStep, InFlight, Waiting
  <2>2. state # "Down"
    BY <2>1, Zenon DEF OutInv, TurnOK
  <2> QED BY <1>3, <2>1, <2>2, Zenon DEF RetryEnds, Quiet, outVars, memos, storeVars, tables, sessionVars
<1>4. ASSUME Drain PROVE Quiet
  <2>1. ~InFlight /\ turn' \in Waiting /\ turn.at # "idle"
    BY <1>4, Zenon DEF Drain, At, NextStep, InFlight, Waiting
  <2>2. state # "Down"
    BY <2>1, Zenon DEF OutInv, TurnOK
  <2>3. UNCHANGED <<outVars>>
    BY <1>4, Zenon DEF Drain
  <2>4. \/ UNCHANGED <<storeVars, sessionVars>>
        \/ \E r, e, h : LoseSession(r, e, h)
        \/ \E taken : Stores(taken) /\ (EnterDegraded \/ UNCHANGED sessionVars)
    BY <1>4, Zenon DEF Drain
  <2>5. UNCHANGED pending /\ state' # "Down"
    BY <2>2, <2>4, LossStaysUp, DegradedStaysUp, Zenon DEF Stores, storeVars, tables, sessionVars
  <2> QED BY <2>1, <2>3, <2>5, Zenon DEF Quiet, outVars, memos
<1>5. ASSUME Joined \/ JoinFails PROVE Quiet
  <2>1. ~InFlight /\ turn' \in Waiting /\ state' # "Down"
    BY <1>5, Zenon DEF Joined, JoinFails, OpenFails, At, NextStep, InFlight, Waiting
  <2> QED BY <1>5, <2>1, Zenon DEF Joined, JoinFails, Quiet, outVars, memos, storeVars, tables
<1> QED BY <1>1, <1>2, <1>3, <1>4, <1>5, Zenon

\* Deadlines, the medium and a session that dies.
LEMMA SurroundingsAreQuiet ==
  ASSUME OutInv,
         DeadlineReached \/ SessionDies \/ (MediumChanges /\ UNCHANGED clientVars)
  PROVE  Quiet
BY Zenon DEF DeadlineReached, SessionDies, MediumChanges, clientVars, Quiet, outVars, memos, storeVars,
       tables, sessionVars

-----------------------------------------------------------------------------
(* The steps that touch a row. *)

\* A row's deadline or its need of attention changes, and nothing else.
Rescheduled ==
    /\ UNCHANGED <<pending, undo, remote, composed, withdrawn, unrecorded, forgotten, turn, state>>
    /\ DOMAIN rows' = DOMAIN rows /\ IsMap(rows', Outgoing, RowType)
    /\ \A m \in DOMAIN rows : rows'[m].reached = rows[m].reached

LEMMA RescheduledStep == OutInv /\ Rescheduled => OutInv'
BY Zenon DEF OutInv, Rescheduled, OutTypeOK, TurnOK, PlacesOK, ReachOK, OkOK, NothingPendingLost, InFlight

LEMMA Reschedule ==
  ASSUME OutInv, NEW m \in DOMAIN rows, NEW a \in BOOLEAN, NEW n \in Due,
         rows' = [rows EXCEPT ![m].attention = a, ![m].next = n]
  PROVE  /\ DOMAIN rows' = DOMAIN rows /\ IsMap(rows', Outgoing, RowType)
         /\ \A k \in DOMAIN rows : rows'[k].reached = rows[k].reached
<1>1. rows \in [DOMAIN rows -> RowType] /\ DOMAIN rows \subseteq Outgoing
  BY Zenon DEF OutInv, OutTypeOK, IsMap
<1>2. rows' \in [DOMAIN rows -> RowType]
  BY <1>1, Zenon DEF RowType
<1> QED BY <1>1, <1>2, Zenon DEF IsMap, RowType

LEMMA Types ==
  ASSUME OutInv
  PROVE  /\ IsMap(pending, Outgoing, BOOLEAN) /\ IsMap(rows, Outgoing, RowType)
         /\ IsMap(undo, Outgoing, UndoType)
         /\ \A m \in DOMAIN rows : m \in Outgoing /\ rows[m] \in RowType
BY Zenon DEF OutInv, OutTypeOK, IsMap

\* `retry`.
LEMMA RetryOut == ASSUME OutInv, NEW m \in Outgoing, Retry(m) PROVE OutInv'
<1>1. m \in DOMAIN rows /\ rows' = [rows EXCEPT ![m].attention = FALSE, ![m].next = "due"]
  BY Zenon DEF Retry
<1>2. Rescheduled
  BY <1>1, Reschedule, Zenon DEF Retry, Rescheduled, Due, memos, storeVars, tables, sessionVars
<1> QED BY <1>2, RescheduledStep, Zenon

\* The time of a row comes.
LEMMA RowDeadlineOut == ASSUME OutInv, NEW m \in Outgoing, RowDeadlineReached(m) PROVE OutInv'
<1>1. m \in DOMAIN rows /\ rows' = [rows EXCEPT ![m].next = "due"]
  BY Zenon DEF RowDeadlineReached
<1>2. rows \in [DOMAIN rows -> RowType]
  BY Zenon DEF OutInv, OutTypeOK, IsMap
<1>3. rows' = [rows EXCEPT ![m].attention = rows[m].attention, ![m].next = "due"]
  BY <1>1, <1>2, Zenon DEF RowType
<1>4. rows[m].attention \in BOOLEAN
  BY <1>1, <1>2, Zenon DEF RowType
<1>5. Rescheduled
  BY <1>1, <1>3, <1>4, Reschedule, Zenon DEF RowDeadlineReached, Rescheduled, Due, memos, storeVars, tables, sessionVars
<1> QED BY <1>5, RescheduledStep, Zenon

\* `send`.
LEMMA SendOut == ASSUME OutInv, NEW m \in Outgoing, Send(m) PROVE OutInv'
<1>1. CASE CommitFails
  <2>1. Quiet
    BY <1>1, InsertFailsUp, Zenon DEF Send, Commands, Running, CommitFails, Quiet, outVars, memos
  <2> QED BY <2>1, QuietStep, Zenon
<1>2. CASE ~CommitFails
  <2>1. /\ pending' = MapPut(pending, m, FALSE) /\ rows' = MapPut(rows, m, FreshRow(FALSE))
        /\ composed' = composed \cup {m} /\ m \notin composed
        /\ UNCHANGED <<undo, remote, withdrawn, unrecorded, forgotten, turn, state>>
        /\ turn.at = "idle" /\ state # "Down"
    BY <1>2, Zenon DEF Send, Commands, Running, At, InsertPending, sessionVars, memos
  <2>2. FreshRow(FALSE) \in RowType /\ FALSE \in BOOLEAN
    BY Zenon DEF FreshRow, RowType, Due
  <2>3. /\ IsMap(pending', Outgoing, BOOLEAN) /\ DOMAIN pending' = DOMAIN pending \cup {m}
        /\ \A k \in DOMAIN pending : k # m => pending'[k] = pending[k]
    <3>1. IsMap(pending', Outgoing, BOOLEAN)
      BY <2>1, <2>2, Types, PutType, Zenon
    <3> QED BY <2>1, <3>1, Zenon DEF MapPut
  <2>4. /\ IsMap(rows', Outgoing, RowType) /\ DOMAIN rows' = DOMAIN rows \cup {m}
        /\ \A k \in DOMAIN rows : k # m => rows'[k] = rows[k]
    <3>1. IsMap(rows', Outgoing, RowType)
      BY <2>1, <2>2, Types, PutType, Zenon
    <3> QED BY <2>1, <3>1, Zenon DEF MapPut
  <2>5. OutTypeOK' /\ PlacesOK' /\ NothingPendingLost'
    BY <2>1, <2>3, <2>4, Zenon DEF OutInv, OutTypeOK, PlacesOK, NothingPendingLost
  <2>6. TurnOK' /\ OkOK'
    BY <2>1, Zenon DEF OutInv, TurnOK, OkOK, InFlight
  <2>7. ReachOK'
    BY <2>1, <2>3, <2>4, Zenon DEF OutInv, ReachOK, PlacesOK
  <2> QED BY <2>5, <2>6, <2>7, Zenon DEF OutInv
<1> QED BY <1>1, <1>2, Zenon

\* `cancel`.
LEMMA CancelOut == ASSUME OutInv, NEW m \in Outgoing, Cancel(m) PROVE OutInv'
<1>1. CASE (WriteFails \/ WriteRefused) /\ UNCHANGED clientVars
  <2>1. Quiet
    BY <1>1, WriteFailsQuietly, Zenon DEF Quiet, clientVars, outVars, memos, sessionVars
  <2> QED BY <2>1, QuietStep, Zenon
<1>2. CASE ~((WriteFails \/ WriteRefused) /\ UNCHANGED clientVars)
  <2> DEFINE record == [attempted |-> pending[m], reached |-> rows[m].reached]
  <2>1. /\ pending' = MapDrop(pending, {m}) /\ rows' = MapDrop(rows, {m})
        /\ withdrawn' = withdrawn \cup {m} /\ m \in DOMAIN rows
        /\ undo' = undo \/ undo' = MapPut(undo, m, record)
        /\ UNCHANGED <<remote, composed, unrecorded, forgotten, turn, state>>
        /\ turn.at = "idle" /\ state # "Down"
    BY <1>2, Zenon DEF Cancel, Commands, Running, At, TransportTerminal, sessionVars, memos
  <2>2. m \in DOMAIN pending /\ record \in UndoType
    BY <2>1, Types, Zenon DEF OutInv, PlacesOK, OutTypeOK, IsMap, UndoType, RowType
  <2>3. /\ IsMap(pending', Outgoing, BOOLEAN) /\ DOMAIN pending' = DOMAIN pending \ {m}
        /\ \A k \in DOMAIN pending : k # m => pending'[k] = pending[k]
    BY <2>1, Types, DropType, Zenon DEF MapDrop
  <2>4. /\ IsMap(rows', Outgoing, RowType) /\ DOMAIN rows' = DOMAIN rows \ {m}
        /\ \A k \in DOMAIN rows : k # m => rows'[k] = rows[k]
    BY <2>1, Types, DropType, Zenon DEF MapDrop
  <2>5. /\ IsMap(undo', Outgoing, UndoType) /\ DOMAIN undo' \subseteq DOMAIN undo \cup {m}
        /\ \A k \in DOMAIN undo' : undo'[k] = IF k = m THEN record ELSE undo[k]
    <3>1. m \notin DOMAIN undo
      BY <2>2, Zenon DEF OutInv, PlacesOK
    <3>2. CASE undo' = undo
      BY <3>1, <3>2, Zenon DEF OutInv, OutTypeOK
    <3>3. CASE undo' = MapPut(undo, m, record)
      BY <3>1, <3>3, <2>2, Types, PutType DEF MapPut
    <3> QED BY <3>2, <3>3, <2>1, Zenon
  <2>6. OutTypeOK' /\ PlacesOK' /\ NothingPendingLost'
    BY <2>1, <2>2, <2>3, <2>4, <2>5, Zenon DEF OutInv, OutTypeOK, PlacesOK, NothingPendingLost
  <2>7. TurnOK' /\ OkOK'
    BY <2>1, Zenon DEF OutInv, TurnOK, OkOK, InFlight
  <2>8. ReachOK'
    <3>1. m \in remote => /\ record.attempted \/ m \in unrecorded \cup forgotten
                          /\ record.reached \/ m \in forgotten
      BY <2>1, <2>2, Zenon DEF OutInv, ReachOK
    <3> QED BY <2>1, <2>3, <2>4, <2>5, <3>1, Zenon DEF OutInv, ReachOK
  <2> QED BY <2>6, <2>7, <2>8, Zenon DEF OutInv
<1> QED BY <1>1, <1>2, Zenon

\* A record that can be taken back is used up.
LEMMA UndoDropped ==
  ASSUME OutInv, NEW m, undo' = MapDrop(undo, {m})
  PROVE  /\ IsMap(undo', Outgoing, UndoType) /\ DOMAIN undo' = DOMAIN undo \ {m}
         /\ \A k \in DOMAIN undo' : undo'[k] = undo[k]
         /\ undo = EmptyMap => undo' = EmptyMap
<1>1. IsMap(undo', Outgoing, UndoType)
  BY Types, DropType, Zenon
<1>2. undo = EmptyMap => undo' = EmptyMap
  BY Zenon DEF MapDrop, EmptyMap
<1> QED BY <1>1, <1>2, Zenon DEF MapDrop

LEMMA ForgetStep ==
  ASSUME OutInv, NEW m, undo' = MapDrop(undo, {m}),
         UNCHANGED <<pending, rows, remote, composed, withdrawn, unrecorded, forgotten, turn>>,
         state' = "Down" => state = "Down"
  PROVE  OutInv'
<1>1. OutTypeOK' /\ PlacesOK' /\ NothingPendingLost'
  BY UndoDropped, Zenon DEF OutInv, OutTypeOK, PlacesOK, NothingPendingLost
<1>2. TurnOK' /\ OkOK'
  BY UndoDropped, Zenon DEF OutInv, TurnOK, OkOK, InFlight
<1>3. ReachOK'
  BY UndoDropped, Zenon DEF OutInv, ReachOK
<1> QED BY <1>1, <1>2, <1>3, Zenon DEF OutInv

\* `Command::ForgetCancelled`.
LEMMA ForgetOut == ASSUME OutInv, NEW m \in Outgoing, ForgetCancelled(m) PROVE OutInv'
BY ForgetStep, Zenon DEF ForgetCancelled, storeVars, tables, sessionVars, memos

\* `Command::Restore`.
LEMMA RestoreOut == ASSUME OutInv, NEW m \in Outgoing, Restore(m) PROVE OutInv'
<1>1. /\ undo' = MapDrop(undo, {m}) /\ m \in DOMAIN undo /\ turn.at = "idle" /\ state # "Down"
      /\ UNCHANGED <<remote, composed, unrecorded, forgotten, turn>>
  BY Zenon DEF Restore, Commands, Running, At, memos
<1>2. CASE InsertFailsHere /\ UNCHANGED <<rows, withdrawn>>
  BY <1>1, <1>2, InsertFailsUp, ForgetStep, Zenon
<1>3. CASE UNCHANGED <<rows, withdrawn, storeVars, sessionVars, inbox>>
  BY <1>1, <1>3, ForgetStep, Zenon DEF storeVars, tables, sessionVars
<1>4. CASE /\ InsertPending(m, undo[m].attempted) /\ UNCHANGED <<sessionVars, inbox>>
           /\ rows' = MapPut(rows, m, FreshRow(undo[m].reached)) /\ withdrawn' = withdrawn \ {m}
  <2> DEFINE row == FreshRow(undo[m].reached)
  <2>1. undo[m] \in UndoType /\ undo[m].attempted \in BOOLEAN /\ row \in RowType /\ row.reached = undo[m].reached
    BY <1>1, Types, Zenon DEF IsMap, UndoType, FreshRow, RowType, Due
  <2>2. pending' = MapPut(pending, m, undo[m].attempted) /\ state' = state
    BY <1>4, Zenon DEF InsertPending, sessionVars
  <2>3. /\ IsMap(pending', Outgoing, BOOLEAN) /\ DOMAIN pending' = DOMAIN pending \cup {m}
        /\ pending'[m] = undo[m].attempted
        /\ \A k \in DOMAIN pending : k # m => pending'[k] = pending[k]
    <3>1. IsMap(pending', Outgoing, BOOLEAN)
      BY <2>1, <2>2, Types, PutType, Zenon
    <3> QED BY <2>2, <3>1, Zenon DEF MapPut
  <2>4. /\ IsMap(rows', Outgoing, RowType) /\ DOMAIN rows' = DOMAIN rows \cup {m} /\ rows'[m] = row
        /\ \A k \in DOMAIN rows : k # m => rows'[k] = rows[k]
    <3>1. IsMap(rows', Outgoing, RowType)
      BY <1>4, <2>1, Types, PutType, Zenon
    <3> QED BY <1>4, <3>1, Zenon DEF MapPut
  <2>5. OutTypeOK' /\ PlacesOK' /\ NothingPendingLost'
    <3>1. IsMap(undo', Outgoing, UndoType) /\ DOMAIN undo' = DOMAIN undo \ {m}
      BY <1>1, UndoDropped, Zenon
    <3>2. OutTypeOK'
      BY <2>3, <2>4, <3>1, Zenon DEF OutTypeOK
    <3>3. PlacesOK'
      BY <1>1, <2>3, <2>4, <3>1, Zenon DEF OutInv, PlacesOK
    <3>4. NothingPendingLost'
      BY <1>1, <1>4, <2>3, Zenon DEF OutInv, NothingPendingLost
    <3> QED BY <3>2, <3>3, <3>4, Zenon
  <2>6. TurnOK' /\ OkOK'
    BY <1>1, <2>2, Zenon DEF OutInv, TurnOK, OkOK, InFlight
  <2>7. ReachOK'
    BY <1>1, <2>1, <2>3, <2>4, UndoDropped, Zenon DEF OutInv, ReachOK
  <2> QED BY <2>5, <2>6, <2>7, Zenon DEF OutInv
<1> QED BY <1>2, <1>3, <1>4, Zenon DEF Restore

-----------------------------------------------------------------------------
(* An attempt. *)

\* `attempt` up to the send: before anything leaves the attempt is on record, or
\* noted as refused by the store.
LEMMA AttemptOut == ASSUME OutInv, NEW m \in Outgoing, Attempt(m) PROVE OutInv'
<1>1. /\ turn.at = "retry" /\ state = "Ready" /\ m \in DOMAIN pending /\ m \in DOMAIN rows
      /\ UNCHANGED <<undo, remote, composed, withdrawn, forgotten>>
  BY Zenon DEF Attempt, At, IsDue
<1>2. CASE /\ rows' = [rows EXCEPT ![m].attention = TRUE, ![m].next = "none"]
           /\ UNCHANGED <<storeVars, sessionVars, inbox, turn, unrecorded>>
  <2>1. Rescheduled
    BY <1>1, <1>2, Reschedule, Zenon DEF Rescheduled, Due, memos, storeVars, tables, sessionVars
  <2> QED BY <2>1, RescheduledStep, Zenon
<1>3. CASE WriteFailsHere /\ UNCHANGED <<rows, turn, unrecorded>>
  <2>1. Quiet
    BY <1>1, <1>3, WriteFailsUp, Zenon DEF Quiet
  <2> QED BY <2>1, QuietStep, Zenon
<1>4. CASE /\ Leaves(m)
           /\ \/ RecordAttempt(m) /\ UNCHANGED <<sessionVars, inbox, unrecorded>>
              \/ WriteFailsHere /\ unrecorded' = unrecorded \cup {m}
  <2>1. rows \in [DOMAIN rows -> RowType] /\ rows[m].attention \in BOOLEAN
    BY <1>1, Types, Zenon DEF IsMap, RowType
  <2>2. rows' = [rows EXCEPT ![m].attention = rows[m].attention, ![m].next = "none"]
    BY <1>4, <2>1, Zenon DEF Leaves, RowType
  <2>3. /\ DOMAIN rows' = DOMAIN rows /\ IsMap(rows', Outgoing, RowType)
        /\ \A k \in DOMAIN rows : rows'[k].reached = rows[k].reached
    BY <1>1, <2>1, <2>2, Reschedule, Zenon DEF Due
  <2>4. /\ \/ pending' = [pending EXCEPT ![m] = TRUE] /\ unrecorded' = unrecorded
           \/ pending' = pending /\ unrecorded' = unrecorded \cup {m}
        /\ state' # "Down" /\ turn' = [at |-> "sending", m |-> m]
    BY <1>1, <1>4, WriteFailsUp, Zenon DEF RecordAttempt, Leaves, sessionVars
  <2>5. /\ IsMap(pending', Outgoing, BOOLEAN) /\ DOMAIN pending' = DOMAIN pending
        /\ \A k \in DOMAIN pending : pending[k] => pending'[k]
        /\ pending'[m] \/ m \in unrecorded'
        /\ unrecorded \subseteq unrecorded'
    BY <1>1, <2>4, Types, Zenon DEF IsMap
  <2>6. OutTypeOK' /\ PlacesOK' /\ NothingPendingLost'
    BY <1>1, <2>3, <2>5, Zenon DEF OutInv, OutTypeOK, PlacesOK, NothingPendingLost
  <2>7. TurnOK' /\ OkOK'
    BY <1>1, <2>3, <2>4, <2>5, Zenon DEF OutInv, TurnOK, OkOK, InFlight
  <2>8. ReachOK'
    BY <1>1, <2>3, <2>4, <2>5, Zenon DEF OutInv, ReachOK
  <2> QED BY <2>6, <2>7, <2>8, Zenon DEF OutInv
<1> QED BY <1>2, <1>3, <1>4, Zenon DEF Attempt

\* The transport answers.
LEMMA AnswerOut == ASSUME OutInv, NEW answer \in SendErrors \cup {"Ok"}, Answer(answer) PROVE OutInv'
<1>1. /\ turn.at = "sending" /\ turn' = [at |-> "answered", m |-> turn.m, answer |-> answer]
      /\ UNCHANGED <<pending, rows, undo, composed, withdrawn, unrecorded, forgotten, state>>
  BY Zenon DEF Answer, At, storeVars, tables, sessionVars, memos
<1>2. /\ remote \subseteq remote' /\ remote' \subseteq remote \cup {turn.m}
      /\ answer = "Ok" => turn.m \in remote'
      /\ answer \notin Ambiguous \cup {"Ok"} => remote' = remote
  BY Zenon DEF Answer
<1>3. /\ turn.m \in DOMAIN rows /\ turn.m \in DOMAIN pending /\ turn.m \notin DOMAIN undo
      /\ pending[turn.m] \/ turn.m \in unrecorded
      /\ turn.m \in composed
  BY <1>1, Zenon DEF OutInv, TurnOK, PlacesOK, InFlight
<1>4. OutTypeOK' /\ PlacesOK' /\ NothingPendingLost'
  BY <1>1, <1>2, <1>3, Zenon DEF OutInv, OutTypeOK, PlacesOK, NothingPendingLost
<1>5. TurnOK' /\ OkOK'
  BY <1>1, <1>2, <1>3, Zenon DEF OutInv, TurnOK, OkOK, InFlight
<1>6. ReachOK'
  BY <1>1, <1>2, <1>3, Zenon DEF OutInv, ReachOK
<1> QED BY <1>4, <1>5, <1>6, Zenon DEF OutInv

\* `attempt` after a success.
LEMMA SucceededOut == ASSUME OutInv, Succeeded PROVE OutInv'
<1> DEFINE m == turn.m
<1>1. /\ turn.at = "answered" /\ turn.answer = "Ok" /\ turn' = [at |-> "retry"]
      /\ rows' = MapDrop(rows, {m})
      /\ UNCHANGED <<undo, remote, composed, withdrawn, unrecorded, forgotten>>
  BY Zenon DEF Succeeded, At, NextStep, memos
<1>2. m \in remote /\ state # "Down"
  BY <1>1, Zenon DEF OutInv, OkOK, TurnOK
<1>3. (pending' = MapDrop(pending, {m}) \/ pending' = pending) /\ state' # "Down"
  BY <1>2, WriteFailsUp, Zenon DEF Succeeded, TransportTerminal, sessionVars
<1>4. /\ IsMap(rows', Outgoing, RowType) /\ DOMAIN rows' = DOMAIN rows \ {m}
      /\ \A k \in DOMAIN rows' : rows'[k] = rows[k]
  <2>1. IsMap(rows', Outgoing, RowType)
    BY <1>1, Types, DropType, Zenon
  <2> QED BY <1>1, <2>1, Zenon DEF MapDrop
<1>5. /\ IsMap(pending', Outgoing, BOOLEAN)
      /\ DOMAIN pending \ {m} \subseteq DOMAIN pending' /\ DOMAIN pending' \subseteq DOMAIN pending
      /\ \A k \in DOMAIN pending' : pending'[k] = pending[k]
  <2>1. IsMap(pending', Outgoing, BOOLEAN)
    BY <1>3, Types, DropType, Zenon
  <2> QED BY <1>3, <2>1, Zenon DEF MapDrop
<1>6. OutTypeOK' /\ PlacesOK' /\ NothingPendingLost'
  BY <1>1, <1>2, <1>4, <1>5, Zenon DEF OutInv, OutTypeOK, PlacesOK, NothingPendingLost
<1>7. TurnOK' /\ OkOK'
  BY <1>1, <1>3, Zenon DEF OutInv, TurnOK, OkOK, InFlight
<1>8. ReachOK'
  BY <1>1, <1>4, <1>5, Zenon DEF OutInv, ReachOK
<1> QED BY <1>6, <1>7, <1>8, Zenon DEF OutInv

\* `attempt` after an error: what may have reached the remote is said so.
LEMMA FailedOut == ASSUME OutInv, Failed PROVE OutInv'
<1> DEFINE m == turn.m
           row == FailedRow(m, turn.answer)
<1>1. /\ turn.at = "answered" /\ turn.answer # "Ok" /\ turn' = [at |-> "retry"]
      /\ rows' = [rows EXCEPT ![m] = row]
      /\ UNCHANGED <<undo, remote, composed, withdrawn, unrecorded, forgotten>>
  BY Zenon DEF Failed, At, NextStep, memos
<1>2. state # "Down" /\ m \in DOMAIN rows
  BY <1>1, Zenon DEF OutInv, TurnOK, InFlight
<1>3. pending' = pending /\ state' # "Down"
  BY <1>2, LossStaysUp, Zenon DEF Failed, storeVars, tables, sessionVars
<1>4. rows \in [DOMAIN rows -> RowType] /\ DOMAIN rows \subseteq Outgoing
  BY Types, Zenon DEF IsMap
<1>5. row \in RowType /\ row.reached = (rows[m].reached \/ turn.answer \in MayHaveReached)
  BY <1>2, <1>4, Zenon DEF FailedRow, RowType, Due
<1>6. /\ IsMap(rows', Outgoing, RowType) /\ DOMAIN rows' = DOMAIN rows
      /\ \A k \in DOMAIN rows : rows'[k] = IF k = m THEN row ELSE rows[k]
  BY <1>1, <1>2, <1>4, <1>5, Zenon DEF IsMap
<1>7. OutTypeOK' /\ PlacesOK' /\ NothingPendingLost'
  BY <1>1, <1>3, <1>6, Zenon DEF OutInv, OutTypeOK, PlacesOK, NothingPendingLost
<1>8. TurnOK' /\ OkOK'
  BY <1>1, <1>3, Zenon DEF OutInv, TurnOK, OkOK, InFlight
<1>9. ReachOK'
  BY <1>1, <1>2, <1>3, <1>5, <1>6, DispatchAssumption, Zenon DEF OutInv, ReachOK
<1> QED BY <1>7, <1>8, <1>9, Zenon DEF OutInv

-----------------------------------------------------------------------------
(* The process ends and starts. *)

LEMMA CrashOut == ASSUME OutInv, Crash PROVE OutInv'
<1>1. /\ rows' = EmptyMap /\ undo' = EmptyMap /\ turn' = [at |-> "idle"]
      /\ forgotten' = forgotten \cup unrecorded /\ unrecorded' = {}
      /\ UNCHANGED <<pending, remote, composed, withdrawn>>
  BY Zenon DEF Crash, NextStep, storeVars, tables
<1>2. /\ IsMap(rows', Outgoing, RowType) /\ DOMAIN rows' = {}
      /\ IsMap(undo', Outgoing, UndoType) /\ DOMAIN undo' = {}
  BY <1>1, NoMap, Zenon
<1>3. OutTypeOK' /\ PlacesOK' /\ NothingPendingLost'
  BY <1>1, <1>2, Zenon DEF OutInv, OutTypeOK, PlacesOK, NothingPendingLost
<1>4. TurnOK' /\ OkOK' /\ ReachOK'
  BY <1>1, <1>2, Zenon DEF OutInv, TurnOK, OkOK, ReachOK, InFlight
<1> QED BY <1>3, <1>4, Zenon DEF OutInv

\* The store is opened and every pending row is read.
LEMMA StartOut == ASSUME OutInv, Start PROVE OutInv'
<1>1. /\ rows' = [m \in DOMAIN pending |-> FreshRow(pending[m])] /\ state = "Down" /\ state' # "Down"
      /\ unrecorded = {}
      /\ UNCHANGED <<pending, undo, remote, composed, withdrawn, unrecorded, forgotten, turn>>
  BY Zenon DEF Start, LoadedRows, OpenStore, tables, memos, OutInv, TurnOK
<1>2. /\ IsMap(rows', Outgoing, RowType) /\ DOMAIN rows' = DOMAIN pending
      /\ \A m \in DOMAIN pending : rows'[m].reached = pending[m]
  BY <1>1, Types, Zenon DEF IsMap, FreshRow, RowType, Due
<1>3. turn.at = "idle"
  BY <1>1, Zenon DEF OutInv, TurnOK
<1>4. OutTypeOK' /\ PlacesOK' /\ NothingPendingLost'
  BY <1>1, <1>2, Zenon DEF OutInv, OutTypeOK, PlacesOK, NothingPendingLost
<1>5. TurnOK' /\ OkOK'
  BY <1>1, <1>3, Zenon DEF OutInv, TurnOK, OkOK, InFlight
<1>6. ReachOK'
  BY <1>1, <1>2, Zenon DEF OutInv, ReachOK
<1> QED BY <1>4, <1>5, <1>6, Zenon DEF OutInv

LEMMA OutInit == ClientInit => OutInv
<1> SUFFICES ASSUME ClientInit PROVE OutInv
  BY Zenon
<1>1. /\ IsMap(pending, Outgoing, BOOLEAN) /\ DOMAIN pending = {}
      /\ IsMap(rows, Outgoing, RowType) /\ DOMAIN rows = {}
      /\ IsMap(undo, Outgoing, UndoType) /\ DOMAIN undo = {}
  BY NoMap, Zenon DEF ClientInit, StoreInit
<1>2. undo = EmptyMap /\ turn = [at |-> "idle"] /\ remote = {} /\ composed = {} /\ unrecorded = {}
  BY Zenon DEF ClientInit
<1> QED BY <1>1, <1>2, Zenon DEF OutInv, OutTypeOK, TurnOK, PlacesOK, ReachOK, OkOK, NothingPendingLost, InFlight

LEMMA OutStep == OutInv /\ [ClientNext]_vars => OutInv'
<1> SUFFICES ASSUME OutInv, [ClientNext]_vars PROVE OutInv'
  BY Zenon
<1>1. CASE \E m \in Outgoing : Outbound(m)
  BY <1>1, SendOut, RetryOut, CancelOut, RestoreOut, ForgetOut, Zenon DEF Outbound
<1>2. CASE (\E k \in Incoming : Inbound(k)) \/ Reopen \/ Recheck \/ Close
  BY <1>2, CommandsAreQuiet, QuietStep, Zenon
<1>3. CASE TurnStep
  BY <1>3, TurnsAreQuiet, QuietStep, SucceededOut, FailedOut, AttemptOut, Zenon DEF TurnStep
<1>4. CASE Surroundings
  <2>1. CASE Arrive(LeaseLost)
    <3>1. Quiet
      BY <2>1, Zenon DEF Arrive, Quiet, storeVars, tables, sessionVars, outVars, memos
    <3> QED BY <3>1, QuietStep, Zenon
  <2> QED BY <1>4, <2>1, SurroundingsAreQuiet, QuietStep, CrashOut, StartOut, RowDeadlineOut, AnswerOut, Zenon
          DEF Surroundings
<1>5. CASE UNCHANGED vars
  <2>1. Quiet
    BY <1>5, Zenon DEF vars, clientVars, storeVars, tables, sessionVars, outVars, memos, Quiet
  <2> QED BY <2>1, QuietStep, Zenon
<1> QED BY <1>1, <1>2, <1>3, <1>4, <1>5, Zenon DEF ClientNext

-----------------------------------------------------------------------------
(* The theorems. *)

\* The inductive invariant of the sends (client.rs `send`, `attempt`, `failed`,
\* `cancel`; store.rs): where each message is, which attempt is under way, and
\* what is on record of the ones that reached their peer.
THEOREM OutboundInvariant == ClientSpec => []OutInv
BY OutInit, OutStep, PTL DEF ClientSpec

\* A message committed as pending stays in the store until the remote side took
\* it in or the person withdrew it (client.rs `attempt`, `cancel`).
THEOREM PendingIsNeverLost == ClientSpec => []NothingPendingLost
<1>1. OutInv => NothingPendingLost
  BY Zenon DEF OutInv
<1> QED BY <1>1, OutboundInvariant, PTL

\* Every message that reached its peer is said to, once no attempt of it is
\* under way, unless an earlier process sent it with no attempt on record: after
\* an error, a restart, and a cancel taken back
\* (problem.rs `may_have_reached`; client.rs `failed`, `restore`).
THEOREM ReachIsHonest == ClientSpec => []HonestAboutReach
<1>1. OutInv => HonestAboutReach
  BY Zenon DEF OutInv, ReachOK, HonestAboutReach, UnderWay
<1> QED BY <1>1, OutboundInvariant, PTL
=============================================================================
