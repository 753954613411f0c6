----------------------------- MODULE HumanStore -----------------------------
(***************************************************************************)
(* The human client's SQLite store, crates/human/store/src/store.rs: the   *)
(* pending sends, the unread and the kept messages, the pairs that         *)
(* remember what was read, and the store's own view of its health.         *)
(*                                                                         *)
(* A table is the set of its keys: `Outgoing` stands for the               *)
(* app_message_id of a send, and `Incoming` for the four columns that      *)
(* identify a received message. Of an attempt count only "was there one"   *)
(* is ever used after a restart. The medium fails and recovers as it       *)
(* likes, and a write may also be refused for a reason that is not the     *)
(* medium's (`is_medium_failure`; a time the column cannot hold). A        *)
(* transaction commits whole or leaves the tables as they were.            *)
(***************************************************************************)
EXTENDS Naturals, Sequences, FiniteSets, Functions, Maps

CONSTANTS
    Outgoing,  \* messages the person may compose
    Incoming,  \* messages remote peers may send
    PairCap    \* READ_PAIR_CAP

ASSUME StoreAssumption == PairCap \in Nat \ {0}

VARIABLES
    pending,   \* pending_outbound: message -> was an attempt recorded
    unread,    \* unread_inbound
    kept,      \* kept_inbound
    pairs,     \* read_pairs, oldest first
    medium,    \* "ok", "failing", or "refusing" what it is not to blame for
    health     \* StorageHealth, as the store last saw it

tables == <<pending, unread, kept, pairs>>
storeVars == <<tables, medium, health>>

StoreInit ==
    /\ pending = EmptyMap
    /\ unread = {} /\ kept = {} /\ pairs = <<>>
    /\ medium = "ok" /\ health = "Healthy"

-----------------------------------------------------------------------------
(* How an operation ends. *)

\* `note_failure`: a write the medium fails changes no table, and the store
\* remembers it.
WriteFails ==
    /\ medium = "failing"
    /\ health' = "Degraded"
    /\ UNCHANGED <<tables, medium>>

\* `note_store_failure` of any other error: the health stays what it was.
WriteRefused == medium = "refusing" /\ UNCHANGED storeVars

\* A write that commits.
WriteCommits == medium = "ok" /\ UNCHANGED <<medium, health>>

\* `reject_if_degraded`: new content is not taken in while degraded.
Rejected == health = "Degraded" /\ UNCHANGED storeVars

\* An insert is refused by the health, or fails.
InsertFails == Rejected \/ (health = "Healthy" /\ (WriteFails \/ WriteRefused))

-----------------------------------------------------------------------------
(* Outbound. *)

\* `insert_pending`, by `commit_pending_outbound` with no attempt recorded
\* and by `restore_pending_outbound` with the cancelled record's own.
InsertPending(m, attempted) ==
    /\ health = "Healthy" /\ m \notin DOMAIN pending
    /\ WriteCommits
    /\ pending' = MapPut(pending, m, attempted)
    /\ UNCHANGED <<unread, kept, pairs>>

\* Mutant of RecordAttempt: the durable copy goes when the message leaves.
RecordRemovesCopy(m) ==
    /\ WriteCommits
    /\ pending' = MapDrop(pending, {m})
    /\ UNCHANGED <<unread, kept, pairs>>

\* Mutant of RecordAttempt: the attempt is counted in memory only.
RecordNothing(m) == WriteCommits /\ UNCHANGED tables

\* `record_attempt`.
RecordAttempt(m) ==
    /\ WriteCommits
    /\ pending' = [pending EXCEPT ![m] = TRUE]
    /\ UNCHANGED <<unread, kept, pairs>>

\* `transport_terminal`: the durable copy goes, degraded or not.
TransportTerminal(m) ==
    /\ WriteCommits
    /\ pending' = MapDrop(pending, {m})
    /\ UNCHANGED <<unread, kept, pairs>>

-----------------------------------------------------------------------------
(* Inbound. *)

\* `commit_unread_inbound` meets a duplicate: an unread row, or a pair.
KnownInbound(k, rows) == k \in rows \/ k \in Range(pairs)

AllBut(q, k) == SelectSeq(q, LAMBDA x : x # k)

\* Mutant of RecordPair: past the cap the new pair is the one forgotten.
RecordPairWhileRoom(k) ==
    LET all == Append(AllBut(pairs, k), k)
    IN  IF Len(all) > PairCap THEN SubSeq(all, 1, PairCap) ELSE all

\* `record_pair`: the pair is the newest again, and past the cap the oldest
\* is forgotten.
RecordPair(k) ==
    LET all == Append(AllBut(pairs, k), k)
    IN  IF Len(all) > PairCap THEN Tail(all) ELSE all

\* `mark_read`: one transaction deletes the row and records the pair.
StoreMarkRead(k) ==
    /\ WriteCommits
    /\ unread' = unread \ {k}
    /\ pairs' = RecordPair(k)
    /\ UNCHANGED <<pending, kept>>

\* `keep`: an upsert. A row already kept is refreshed or refused as another
\* message under the same identity; the table holds the same key after both.
StoreKeep(k) ==
    /\ health = "Healthy"
    /\ WriteCommits
    /\ kept' = kept \cup {k}
    /\ UNCHANGED <<pending, unread, pairs>>

\* `unkeep`: one transaction deletes the row and records the pair.
StoreUnkeep(k) ==
    /\ WriteCommits
    /\ kept' = kept \ {k}
    /\ pairs' = RecordPair(k)
    /\ UNCHANGED <<pending, unread>>

-----------------------------------------------------------------------------
(* Health. *)

\* `recheck_health`: a probe row is committed and deleted. Being within the
\* quota is part of what the medium allows.
RecheckHealth ==
    /\ health' = CASE medium = "ok" -> "Healthy"
                   [] medium = "failing" -> "Degraded"
                   [] medium = "refusing" -> health
    /\ UNCHANGED <<tables, medium>>

\* `open` and `scrub_at_open`: a store that cannot be written opens degraded,
\* if the open finds anything to write.
OpenStore ==
    /\ health' \in IF medium = "ok" THEN {"Healthy"} ELSE {"Healthy", "Degraded"}
    /\ UNCHANGED <<tables, medium>>

\* The medium fills up, fails, or is writable again; writes are refused.
MediumChanges ==
    /\ medium' \in {"ok", "failing", "refusing"} \ {medium}
    /\ UNCHANGED <<tables, health>>

=============================================================================
