----------------------------- MODULE IpcClient -----------------------------
(* The client library's connection: calls waiting for their response by id,  *)
(* a writer and a reader task that each may see the connection end first, the *)
(* code it ends with, the buffer of pushed events and the session that sleeps *)
(* until something is there to read.                                          *)
EXTENDS IpcWire, FiniteSets

CONSTANTS
  Outgoing,      \* OUTGOING
  EventBuffer    \* the granted event_queue

VARIABLES
  call,          \* [Ids -> "idle", "registered", "sent", "abandoned", or its result]
  out,           \* frames waiting for the writer
  cwriter,       \* "up", "failed", "stopped"
  reader,        \* "reading", "draining" (the writer failed), "over"
  inHand,        \* the reader holds one event that the full buffer did not take
  ended,         \* the code the connection ended with, or "none"
  provisional,   \* that code is the writer's own failure
  leaving,       \* close: "no", "asking", "asked", "ok", or the error it returned
  uninvited,     \* the end was not the answer to close
  echo,          \* the newest ping not yet echoed, 0 if none
  silence,       \* the silence timer is armed
  buffer,        \* events the session may read
  wakeOwed,      \* something was stored, and wake_all has not run yet
  consumer,      \* the session's reader: "away", "enabled", "looked", "asleep",
                 \* or "closed" (closed, or never granted `events`)
  woken,         \* its notification fired
  permit         \* notify_one's stored permit

client == <<call, out, cwriter, reader, inHand, ended, provisional, leaving,
            uninvited, echo, silence, buffer, wakeOwed, consumer, woken, permit>>

ClientInit ==
  /\ call = [i \in Ids |-> "idle"]
  /\ out = << >>
  /\ cwriter = "up"
  /\ reader = "reading"
  /\ inHand = FALSE
  /\ ended = "none"
  /\ provisional = FALSE
  /\ leaving = "no"
  /\ uninvited = FALSE
  /\ echo = 0
  /\ silence = FALSE
  /\ buffer = 0
  /\ wakeOwed = FALSE
  /\ consumer = IF budget.events > 0 THEN "away" ELSE "closed"
  /\ woken = FALSE
  /\ permit = FALSE

-----------------------------------------------------------------------------
(* What callers and the two tasks share.                                       *)
Outstanding == {i \in Ids : call[i] \in {"registered", "sent"}}

EndedFor == IF provisional THEN "none" ELSE ended   \* Shared::ended

hasEnded == EndedFor # "none"
gone == IF hasEnded THEN EndedFor ELSE "BackendUnavailable"

sessionVars == <<buffer, consumer, woken, permit>>
closeVars == <<leaving, uninvited>>
tasks == <<cwriter, reader, inHand, echo, silence>>

\* Mutant of register: the recorded end is not looked at.
registerBlind(i) ==
  /\ leaving = "no"
  /\ call[i] = "idle"
  /\ i <= budget.calls
  /\ \A j \in Ids : j < i => call[j] # "idle"
  /\ call' = [call EXCEPT ![i] = "registered"]
  /\ UNCHANGED <<wire, out, ended, provisional, wakeOwed, sessionVars, closeVars, tasks>>

\* A call takes the next id; on a connection ended for good it fails at once.
register(i) ==
  /\ leaving = "no"
  /\ call[i] = "idle"
  /\ i <= budget.calls
  /\ \A j \in Ids : j < i => call[j] # "idle"
  /\ call' = [call EXCEPT ![i] = IF hasEnded THEN EndedFor ELSE "registered"]
  /\ UNCHANGED <<wire, out, ended, provisional, wakeOwed, sessionVars, closeVars, tasks>>

\* Its frame waits for room in the queue; a stopped writer refuses it, and the
\* call still waits for the reader's end.
exchange(i) ==
  /\ call[i] = "registered"
  /\ cwriter = "up" => Len(out) < Outgoing
  /\ call' = [call EXCEPT ![i] = "sent"]
  /\ out' = IF cwriter = "up" THEN Append(out, Frame("request", i, "none")) ELSE out
  /\ UNCHANGED <<wire, ended, provisional, wakeOwed, sessionVars, closeVars, tasks>>

\* The caller drops the call: forgotten here, and cancelled if the queue has room.
CancelOnDrop(i) ==
  /\ i \in Outstanding
  /\ call' = [call EXCEPT ![i] = "abandoned"]
  /\ out' = IF cwriter = "up" /\ Len(out) < Outgoing
              THEN Append(out, Frame("cancel", i, "none")) ELSE out
  /\ UNCHANGED <<wire, ended, provisional, wakeOwed, sessionVars, closeVars, tasks>>

\* The end: the first stands, a writer's is provisional and answers no call.
endByWriter ==
  /\ ended' = IF ended = "none" THEN "BackendUnavailable" ELSE ended
  /\ uninvited' = (uninvited \/ ended = "none")
  /\ provisional' = (provisional \/ ended = "none")
  /\ woken' = (woken \/ consumer \in {"enabled", "looked", "asleep"})
  /\ permit' = TRUE
  /\ UNCHANGED call

endByReader(code, clean) ==
  /\ ended' = IF ended = "none" \/ provisional THEN code ELSE ended
  /\ uninvited' = (uninvited \/ (ended = "none" /\ ~(clean /\ leaving # "no")))
  /\ provisional' = FALSE
  /\ call' = [i \in Ids |-> IF i \in Outstanding THEN ended' ELSE call[i]]
  /\ wakeOwed' = TRUE

-----------------------------------------------------------------------------
(* The writer: an end, then the newest echo, then the queue.                   *)
WriterStop ==
  /\ cwriter' = "stopped"
  /\ out' = << >>   \* the queue goes with its receiver
  /\ echo' = 0
  /\ clientWrite' = IF clientWrite = "open" THEN "shut" ELSE clientWrite

writeLoop ==
  /\ cwriter = "up"
  /\ \/ /\ reader = "over"
        /\ WriterStop
        /\ UNCHANGED <<toServer, call, ended, provisional, uninvited, woken, permit>>
     \/ /\ reader # "over"
        /\ echo = 0
        /\ out # << >>
        /\ Head(out).type = "finish"
        /\ WriterStop
        /\ UNCHANGED <<toServer, call, ended, provisional, uninvited, woken, permit>>
     \/ /\ reader # "over"
        /\ echo # 0 \/ (out # << >> /\ Head(out).type # "finish")
        /\ \/ /\ serverRead = "open"
              /\ IF echo # 0 THEN echo' = 0 /\ out' = out ELSE echo' = echo /\ out' = Tail(out)
              /\ Len(toServer) < SocketRoom
              /\ toServer' = Append(toServer, IF echo # 0 THEN Frame("pong", echo, "none")
                                                          ELSE Head(out))
              /\ UNCHANGED <<cwriter, clientWrite, call, ended, provisional,
                             uninvited, woken, permit>>
           \/ /\ serverRead = "closed"
              /\ endByWriter
              /\ cwriter' = "failed"
              /\ out' = << >>
              /\ echo' = 0
              /\ UNCHANGED <<toServer, clientWrite>>
  /\ UNCHANGED <<toClient, serverRead, tail, budget, reader, inHand, silence, leaving,
                 wakeOwed, buffer, consumer>>

-----------------------------------------------------------------------------
(* The reader.                                                                 *)
Idle == reader # "over" /\ ~inHand /\ ~wakeOwed /\ (reader = "reading" => cwriter # "failed")

\* The writer's failure is seen before the socket is read again.
StartDraining ==
  /\ reader = "reading"
  /\ ~inHand
  /\ ~wakeOwed
  /\ cwriter = "failed"
  /\ reader' = "draining"
  /\ UNCHANGED <<wire, call, out, cwriter, inHand, ended, provisional, echo, silence,
                 wakeOwed, sessionVars, closeVars>>

ReaderOver(code, clean) ==
  /\ reader' = "over"
  /\ endByReader(code, clean)

takeEvent ==
  /\ consumer # "closed"
  /\ buffer < EventBuffer
  /\ buffer' = buffer + 1
  /\ wakeOwed' = TRUE
  /\ inHand' = FALSE
  /\ UNCHANGED <<reader, call, ended, provisional, uninvited>>

\* A session already closed takes nothing, and reading goes on.
discardEvent ==
  /\ consumer = "closed"
  /\ inHand' = FALSE
  /\ UNCHANGED <<buffer, reader, call, ended, provisional, uninvited, wakeOwed>>

\* Once the writer failed, an event that does not fit ends the reading.
overflowEvent ==
  /\ consumer # "closed"
  /\ buffer >= EventBuffer
  /\ cwriter = "failed"
  /\ ReaderOver("BackendUnavailable", FALSE)
  /\ inHand' = FALSE
  /\ UNCHANGED buffer

\* Otherwise a full buffer holds the reader, with the event in hand.
holdEvent ==
  /\ consumer # "closed"
  /\ buffer >= EventBuffer
  /\ cwriter # "failed"
  /\ inHand' = TRUE
  /\ UNCHANGED <<buffer, reader, call, ended, provisional, uninvited, wakeOwed>>

ReadNext ==
  /\ Idle
  /\ toClient # << >>
  /\ LET f == Head(toClient) IN
     \/ /\ f.type = "response"   \* one whose call is gone is discarded
        /\ call' = IF f.id \in Outstanding THEN [call EXCEPT ![f.id] = f.code] ELSE call
        /\ UNCHANGED <<buffer, inHand, reader, ended, provisional, uninvited, wakeOwed,
                       echo, silence>>
     \/ /\ f.type = "event"
        /\ takeEvent \/ discardEvent \/ overflowEvent \/ holdEvent
        /\ UNCHANGED <<echo, silence>>
     \/ /\ f.type = "ping"
        /\ echo' = IF cwriter = "up" THEN f.id ELSE echo
        /\ silence' = TRUE
        /\ UNCHANGED <<buffer, inHand, reader, call, ended, provisional, uninvited, wakeOwed>>
     \/ /\ f.type = "close"
        /\ ReaderOver(f.code, FALSE)
        /\ UNCHANGED <<buffer, inHand, echo, silence>>
  /\ toClient' = Tail(toClient)
  /\ UNCHANGED <<toServer, clientWrite, serverRead, tail, budget, out, cwriter, leaving,
                 consumer, woken, permit>>

\* The event in hand goes in once the session drained, or the writer failed.
ReadHeld ==
  /\ inHand
  /\ ~wakeOwed
  /\ takeEvent \/ discardEvent \/ overflowEvent
  /\ UNCHANGED <<wire, out, cwriter, echo, silence, leaving, consumer, woken, permit>>

\* Nothing left: the stream's end, a read error, or the drain's.
ReadEnds ==
  /\ Idle
  /\ toClient = << >>
  /\ \/ /\ reader = "draining"
        /\ ReaderOver("BackendUnavailable", FALSE)
     \/ /\ reader = "reading"
        /\ tail # "none"
        /\ ReaderOver("BackendUnavailable", tail = "eof")
  /\ UNCHANGED <<wire, out, cwriter, inHand, echo, silence, leaving, sessionVars>>

\* No frame for CLIENT_SILENCE_TIMEOUT after the first ping.
Silence ==
  /\ Idle
  /\ reader = "reading"
  /\ silence
  /\ toClient = << >>
  /\ ReaderOver("Timeout", FALSE)
  /\ UNCHANGED <<wire, out, cwriter, inHand, echo, silence, leaving, sessionVars>>

-----------------------------------------------------------------------------
(* The session's `ready` and `events`, and the notification between.           *)

\* Mutant of wakeAll: notify_waiters alone, reaching only a session asleep.
wakeWaitersOnly ==
  /\ wakeOwed
  /\ wakeOwed' = FALSE
  /\ woken' = (woken \/ consumer = "asleep")
  /\ permit' = permit
  /\ UNCHANGED <<wire, call, out, ended, provisional, buffer, consumer, closeVars, tasks>>

\* notify_waiters reaches whoever has enabled; notify_one then stores a permit.
wakeAll ==
  /\ wakeOwed
  /\ wakeOwed' = FALSE
  /\ woken' = (woken \/ consumer \in {"enabled", "looked", "asleep"})
  /\ permit' = TRUE
  /\ UNCHANGED <<wire, call, out, ended, provisional, buffer, consumer, closeVars, tasks>>

readyEnable ==
  /\ consumer = "away"
  /\ consumer' = "enabled"
  /\ woken' = permit
  /\ permit' = FALSE
  /\ UNCHANGED <<wire, call, out, ended, provisional, wakeOwed, buffer, closeVars, tasks>>

\* Something to read, or the end: `ready` returns and `events` takes it.
readyCheck ==
  /\ consumer = "enabled"
  /\ IF buffer > 0 \/ hasEnded
       THEN consumer' = "away" /\ buffer' = 0
       ELSE consumer' = "looked" /\ UNCHANGED buffer
  /\ UNCHANGED <<wire, call, out, ended, provisional, wakeOwed, woken, permit,
                 closeVars, tasks>>

readyAwait ==
  /\ \/ consumer = "looked"
     \/ consumer = "asleep" /\ woken
  /\ consumer' = IF woken THEN "away" ELSE "asleep"
  /\ UNCHANGED <<wire, call, out, ended, provisional, wakeOwed, buffer, woken, permit,
                 closeVars, tasks>>

-----------------------------------------------------------------------------
(* Leaving: no call can be outstanding, the session is consumed.               *)
close ==
  /\ leaving = "no"
  /\ Outstanding = {}
  /\ consumer' = "closed"
  /\ buffer' = 0
  /\ leaving' = IF uninvited /\ hasEnded THEN EndedFor ELSE "asking"
  /\ UNCHANGED <<wire, call, out, ended, provisional, uninvited, wakeOwed, woken,
                 permit, tasks>>

closeAsks ==
  /\ leaving = "asking"
  /\ cwriter = "up" => Len(out) < Outgoing
  /\ leaving' = "asked"
  /\ out' = IF cwriter = "up" THEN Append(out, Frame("finish", 0, "none")) ELSE out
  /\ UNCHANGED <<wire, call, ended, provisional, uninvited, wakeOwed, sessionVars, tasks>>

\* The reader ended, or CLOSE_WAIT passed.
closeReturns ==
  /\ leaving = "asked"
  /\ \/ reader = "over" /\ leaving' = IF uninvited THEN gone ELSE "ok"
     \/ reader # "over" /\ leaving' = "Timeout"
  /\ UNCHANGED <<wire, call, out, ended, provisional, uninvited, wakeOwed, sessionVars, tasks>>

\* Dropped: after close returned, or by a caller that lets the session go, both
\* tasks are aborted and the socket closes.
dropped ==
  /\ clientWrite # "gone"
  /\ leaving \notin {"asking", "asked"}
  /\ Outstanding = {}
  /\ clientWrite' = "gone"
  /\ reader' = "over"
  /\ cwriter' = "stopped"
  /\ leaving' = IF leaving = "no" THEN "dropped" ELSE leaving
  /\ consumer' = "closed"
  /\ toClient' = << >>
  /\ out' = << >>
  /\ echo' = 0
  /\ buffer' = 0
  /\ inHand' = FALSE
  /\ UNCHANGED <<toServer, serverRead, tail, budget, call, ended, provisional,
                 uninvited, silence, wakeOwed, woken, permit>>

ClientNext ==
  \/ writeLoop \/ StartDraining \/ ReadNext \/ ReadHeld \/ ReadEnds \/ Silence
  \/ wakeAll \/ readyEnable \/ readyCheck \/ readyAwait
  \/ close \/ closeAsks \/ closeReturns \/ dropped
  \/ \E i \in Ids : register(i) \/ exchange(i) \/ CancelOnDrop(i)
=============================================================================
