---------------------------- MODULE HttpTransport ----------------------------
(***************************************************************************)
(* The HTTP transport of the SDK (src/transport.go): any number of         *)
(* goroutines call Send, one worker goroutine posts the queued events,     *)
(* Flush polls a counter and Close shuts the queue and waits for the       *)
(* worker.  Every step is one access to shared state: an atomic, the       *)
(* channel, the lock, the context; code between two of them is local.      *)
(*                                                                         *)
(* The clock is kept as the part of a pause that is still to run, so no    *)
(* bound on time is needed.  Timers (the retry wait, the polling tick, the *)
(* two deadlines) may fire at any moment.                                  *)
(***************************************************************************)
EXTENDS Integers, Sequences, FiniteSets

CONSTANTS
    Events,     \* the events; each is sent by a goroutine of its own
    NoEvent,    \* the worker holds no event
    Closers,    \* goroutines that call Close
    Flushers,   \* goroutines that call Flush
    CheckIns,   \* calls of CaptureCheckIn, posted beside the queue; they share
                \*   its pause, and so do the posts of transactions
    QueueSize,  \* the capacity of the channel
    Waits       \* the waits a 429 answer may ask for, in ticks

ASSUME EventsAssumption    == IsFiniteSet(Events) /\ NoEvent \notin Events
ASSUME CheckInsAssumption  == IsFiniteSet(CheckIns)
ASSUME QueueSizeAssumption == QueueSize \in Nat \ {0}
ASSUME WaitsAssumption     == Waits \subseteq Nat

VARIABLES
    sendPc,         \* where the Send of each event stands
    fate,           \* what became of each event; "none" while undecided
    queue,          \* the channel's buffer
    pending,        \* the atomic Flush polls
    pauseLeft,      \* pausedUntil - time.Now(), 0 once it has passed
    droppedFull,    \* the two counters Stats reports
    droppedPaused,
    closed,         \* closed under closeMu together with the channel
    cancelled,      \* the context's cancel was called
    workerPc,       \* where the worker goroutine stands
    current,        \* the event it has received and not decided
    attempt,        \* 0 or 1: post's loop variable
    closePc,        \* where each Close stands
    flushPc,        \* where each Flush stands
    checkInPc,      \* where each check-in stands
    heldAtPause     \* history: what the worker held when pause was called

sendVars   == <<sendPc, fate>>
chanVars   == <<queue, pending>>
pauseVars  == <<pauseLeft, heldAtPause, checkInPc>>
counters   == <<droppedFull, droppedPaused>>
closeVars  == <<closed, cancelled, closePc>>
workerVars == <<workerPc, current, attempt>>
vars == <<sendPc, fate, queue, pending, pauseLeft, heldAtPause, checkInPc,
          droppedFull, droppedPaused, closed, cancelled, closePc, workerPc,
          current, attempt, flushPc>>

Fates == {"none", "closed", "full", "paused", "stored", "rejected", "limited",
          "failed", "aborted", "drained", "unencodable"}

Init ==
    /\ sendPc = [e \in Events |-> "idle"] /\ fate = [e \in Events |-> "none"]
    /\ queue = <<>> /\ pending = 0
    /\ pauseLeft = 0 /\ heldAtPause = NoEvent
    /\ checkInPc = [k \in CheckIns |-> "idle"]
    /\ droppedFull = 0 /\ droppedPaused = 0
    /\ closed = FALSE /\ cancelled = FALSE /\ closePc = [c \in Closers |-> "idle"]
    /\ workerPc = "receiving" /\ current = NoEvent /\ attempt = 0
    /\ flushPc = [f \in Flushers |-> "idle"]

-----------------------------------------------------------------------------
(* The lock and the pause.                                                  *)

\* Send holds closeMu for reading from its check of closed to its return.
Readers == {e \in Events : sendPc[e] \in {"admitted", "queueing", "counting"}}

\* A waiting writer keeps new readers out, and other writers wait behind it.
WriterWaits == \E c \in Closers : closePc[c] = "locking"

paused == pauseLeft > 0

\* pause stores the new end, whatever was stored before.
pause(wait) == pauseLeft' = wait /\ heldAtPause' = current

-----------------------------------------------------------------------------
(* Moves of the goroutines.                                                 *)

\* A step of the goroutine sending e: none touches the pause, Close or the worker.
SendMoves(e, from, to) ==
    /\ sendPc[e] = from
    /\ sendPc' = [sendPc EXCEPT ![e] = to]
    /\ UNCHANGED <<pauseVars, closeVars, workerVars, flushPc>>

\* Send returns without queueing the event.
Drops(e, from, why) == /\ SendMoves(e, from, "done")
                       /\ fate' = [fate EXCEPT ![e] = why]

\* A step of the worker that decides nothing.
WorkerMoves(from, to) ==
    /\ workerPc = from /\ workerPc' = to
    /\ UNCHANGED <<sendVars, pauseVars, counters, closeVars, flushPc>>

\* The event in hand is decided; what is left is pending.Add(-1).
Settle(outcome) == /\ fate' = [fate EXCEPT ![current] = outcome]
                   /\ current' = NoEvent
                   /\ workerPc' = "settled"
                   /\ attempt' = 0
                   /\ UNCHANGED <<sendPc, chanVars, closeVars, flushPc>>

CloseMoves(c, from, to) ==
    /\ closePc[c] = from
    /\ closePc' = [closePc EXCEPT ![c] = to]
    /\ UNCHANGED <<sendVars, chanVars, pauseVars, counters, workerVars, flushPc>>

FlushMoves(f, from, to) ==
    /\ flushPc[f] = from
    /\ flushPc' = [flushPc EXCEPT ![f] = to]
    /\ UNCHANGED <<sendVars, chanVars, pauseVars, counters, closeVars, workerVars>>

-----------------------------------------------------------------------------
(* Slips a change of this code could make, one for each property below: each *)
(* takes the place of the action it is named after when the property is      *)
(* tried against it.                                                         *)

\* The channel grows instead of being full.
Enqueue_Unbounded(e) ==
    /\ SendMoves(e, "queueing", "counting")
    /\ queue' = Append(queue, e)
    /\ UNCHANGED <<fate, pending, counters>>

\* Close sets closed without the write lock.
CloseShut_LockFree(c) ==
    /\ ~closed
    /\ CloseMoves(c, "locking", "waiting")
    /\ closed' = TRUE
    /\ UNCHANGED cancelled

\* The worker's pause case ends in continue, past pending.Add(-1).
DropPaused_Continue ==
    /\ workerPc = "deciding" /\ paused
    /\ fate' = [fate EXCEPT ![current] = "paused"]
    /\ droppedPaused' = droppedPaused + 1
    /\ current' = NoEvent /\ workerPc' = "receiving"
    /\ UNCHANGED <<sendPc, chanVars, pauseVars, droppedFull, closeVars, attempt, flushPc>>

\* A full queue makes room by throwing its oldest event away.
QueueFull_DropOldest(e) ==
    /\ Len(queue) = QueueSize
    /\ SendMoves(e, "queueing", "counting")
    /\ queue' = Append(Tail(queue), e)
    /\ droppedFull' = droppedFull + 1
    /\ UNCHANGED <<fate, pending, droppedPaused>>

\* Only Send counts the events a pause drops.
DropPaused_Uncounted ==
    /\ workerPc = "deciding" /\ paused
    /\ Settle("paused")
    /\ UNCHANGED <<pauseVars, counters>>

\* The worker waits for the pause to end instead of dropping the event.
DropPaused_Waits == workerPc = "deciding" /\ paused /\ UNCHANGED vars

\* The worker stops as soon as it sees the transport closed.
Exit_Undrained ==
    /\ closed
    /\ WorkerMoves("receiving", "exited")
    /\ UNCHANGED <<chanVars, current, attempt>>

\* Close cancels the context before it waits.
CloseShut_CancelsFirst(c) ==
    /\ Readers = {} /\ ~closed
    /\ CloseMoves(c, "locking", "waiting")
    /\ closed' = TRUE /\ cancelled' = TRUE

\* The worker does not look at the pause.
BeginPost_Unpaused ==
    /\ WorkerMoves("deciding", "ready")
    /\ UNCHANGED <<chanVars, current, attempt>>

\* Flush watches the queue only.
FlushPoll_QueueOnly(f) ==
    FlushMoves(f, "polling", IF queue = <<>> THEN "true" ELSE "waiting")

\* The newest event goes first.
Receive_Newest ==
    /\ queue # <<>>
    /\ WorkerMoves("receiving", "received")
    /\ current' = queue[Len(queue)]
    /\ queue' = SubSeq(queue, 1, Len(queue) - 1)
    /\ UNCHANGED <<pending, attempt>>

\* post retries for as long as the server fails.
Retry_Forever ==
    /\ WorkerMoves("backoff", "ready")
    /\ UNCHANGED <<chanVars, current, attempt>>

-----------------------------------------------------------------------------
(* Send(event).                                                             *)

SendCall(e) ==
    /\ SendMoves(e, "idle", "called")
    /\ UNCHANGED <<fate, chanVars, counters>>

\* RLock, then closed: it cannot change while the lock is held.
SendOpen(e) ==
    /\ ~WriterWaits /\ ~closed
    /\ SendMoves(e, "called", "admitted")
    /\ UNCHANGED <<fate, chanVars, counters>>

SendClosed(e) ==
    /\ ~WriterWaits /\ closed
    /\ Drops(e, "called", "closed")
    /\ UNCHANGED <<chanVars, counters>>

SendPaused(e) ==
    /\ paused
    /\ Drops(e, "admitted", "paused")
    /\ droppedPaused' = droppedPaused + 1
    /\ UNCHANGED <<chanVars, droppedFull>>

SendNotPaused(e) ==
    /\ ~paused
    /\ SendMoves(e, "admitted", "queueing")
    /\ UNCHANGED <<fate, chanVars, counters>>

\* case t.queue <- event: the worker may receive it before it is counted.
Enqueue(e) ==
    /\ Len(queue) < QueueSize
    /\ SendMoves(e, "queueing", "counting")
    /\ queue' = Append(queue, e)
    /\ UNCHANGED <<fate, pending, counters>>

\* t.pending.Add(1), then the deferred RUnlock.
CountPending(e) ==
    /\ SendMoves(e, "counting", "done")
    /\ pending' = pending + 1
    /\ UNCHANGED <<fate, queue, counters>>

QueueFull(e) ==
    /\ Len(queue) = QueueSize
    /\ Drops(e, "queueing", "full")
    /\ droppedFull' = droppedFull + 1
    /\ UNCHANGED <<chanVars, droppedPaused>>

SendStep(e) == \/ SendOpen(e) \/ SendClosed(e) \/ SendPaused(e) \/ SendNotPaused(e)
               \/ Enqueue(e) \/ CountPending(e) \/ QueueFull(e)

-----------------------------------------------------------------------------
(* The worker goroutine: worker, post and do.                               *)

\* for event := range t.queue
Receive ==
    /\ queue # <<>>
    /\ WorkerMoves("receiving", "received")
    /\ current' = Head(queue)
    /\ queue' = Tail(queue)
    /\ UNCHANGED <<pending, attempt>>

\* The range ends when the channel is closed and drained; wg.Done.
Exit ==
    /\ closed /\ queue = <<>>
    /\ WorkerMoves("receiving", "exited")
    /\ UNCHANGED <<chanVars, current, attempt>>

\* case t.ctx.Err() != nil
Drain ==
    /\ workerPc = "received" /\ cancelled
    /\ Settle("drained")
    /\ UNCHANGED <<pauseVars, counters>>

NotCancelled ==
    /\ ~cancelled
    /\ WorkerMoves("received", "deciding")
    /\ UNCHANGED <<chanVars, current, attempt>>

\* case t.paused()
DropPaused ==
    /\ workerPc = "deciding" /\ paused
    /\ Settle("paused")
    /\ droppedPaused' = droppedPaused + 1
    /\ UNCHANGED <<pauseVars, droppedFull>>

BeginPost ==
    /\ ~paused
    /\ WorkerMoves("deciding", "ready")
    /\ UNCHANGED <<chanVars, current, attempt>>

\* json.Marshal fails: the caller put something into Extra JSON cannot hold.
Unencodable ==
    /\ workerPc = "ready" /\ attempt = 0
    /\ Settle("unencodable")
    /\ UNCHANGED <<pauseVars, counters>>

\* do: with a cancelled context the client opens no connection.
StartRequest ==
    /\ ~cancelled
    /\ WorkerMoves("ready", "inflight")
    /\ UNCHANGED <<chanVars, current, attempt>>

\* 2xx; 4xx, which is not retried.
Answered(outcome) ==
    /\ workerPc = "inflight"
    /\ Settle(outcome)
    /\ UNCHANGED <<pauseVars, counters>>

RateLimited(wait) ==
    /\ workerPc = "inflight"
    /\ pause(wait)
    /\ Settle("limited")
    /\ UNCHANGED <<counters, checkInPc>>

\* No answer in time, an aborted request, a 3xx or a 5xx.
CannotSend == workerPc = "inflight" \/ (workerPc = "ready" /\ cancelled)

FirstAttemptFails ==
    /\ CannotSend /\ attempt = 0
    /\ WorkerMoves(workerPc, "backoff")
    /\ UNCHANGED <<chanVars, current, attempt>>

\* case <-time.After(500ms): the pause is not looked at again.
Retry ==
    /\ WorkerMoves("backoff", "ready")
    /\ attempt' = 1
    /\ UNCHANGED <<chanVars, current>>

\* case <-t.ctx.Done()
BackoffAborted ==
    /\ workerPc = "backoff" /\ cancelled
    /\ Settle("aborted")
    /\ UNCHANGED <<pauseVars, counters>>

LastAttemptFails ==
    /\ CannotSend /\ attempt = 1
    /\ Settle("failed")
    /\ UNCHANGED <<pauseVars, counters>>

\* pending.Add(-1)
Uncount ==
    /\ WorkerMoves("settled", "receiving")
    /\ pending' = pending - 1
    /\ UNCHANGED <<queue, current, attempt>>

WorkerStep == \/ Receive \/ Exit \/ Drain \/ NotCancelled \/ DropPaused \/ BeginPost
              \/ Unencodable \/ StartRequest
              \/ \E outcome \in {"stored", "rejected"} : Answered(outcome)
              \/ \E wait \in Waits : RateLimited(wait)
              \/ FirstAttemptFails \/ Retry \/ BackoffAborted \/ LastAttemptFails
              \/ Uncount

-----------------------------------------------------------------------------
(* Close().                                                                 *)

\* closeMu.Lock announces the writer; a second one waits for the first.
CloseCall(c) ==
    /\ ~WriterWaits
    /\ CloseMoves(c, "idle", "locking")
    /\ UNCHANGED <<closed, cancelled>>

\* The critical section of the Close that finds the transport open.
CloseShut(c) ==
    /\ Readers = {} /\ ~closed
    /\ CloseMoves(c, "locking", "waiting")
    /\ closed' = TRUE
    /\ UNCHANGED cancelled

\* Any other Close returns at once.
CloseAgain(c) ==
    /\ Readers = {} /\ closed
    /\ CloseMoves(c, "locking", "returned")
    /\ UNCHANGED <<closed, cancelled>>

\* case <-done
CloseDrained(c) ==
    /\ workerPc = "exited"
    /\ CloseMoves(c, "waiting", "returned")
    /\ cancelled' = TRUE
    /\ UNCHANGED closed

\* case <-time.After(t.closeTimeout)
CloseGivesUp(c) ==
    /\ CloseMoves(c, "waiting", "aborting")
    /\ cancelled' = TRUE
    /\ UNCHANGED closed

\* <-done after the cancel
CloseAborted(c) ==
    /\ workerPc = "exited"
    /\ CloseMoves(c, "aborting", "returned")
    /\ UNCHANGED <<closed, cancelled>>

CloseStep(c) == \/ CloseShut(c) \/ CloseAgain(c) \/ CloseDrained(c)
                \/ CloseGivesUp(c) \/ CloseAborted(c)

-----------------------------------------------------------------------------
(* Flush(timeout).                                                          *)

FlushCall(f) == FlushMoves(f, "idle", "polling")

FlushPoll(f) == FlushMoves(f, "polling", IF pending = 0 THEN "true" ELSE "waiting")

\* The 10 ms tick or the deadline.
FlushWait(f) == \E next \in {"polling", "false"} : FlushMoves(f, "waiting", next)

-----------------------------------------------------------------------------
(* Check-ins, and time.                                                     *)

CheckInMoves(k, from, to) ==
    /\ checkInPc[k] = from
    /\ checkInPc' = [checkInPc EXCEPT ![k] = to]
    /\ UNCHANGED <<sendVars, chanVars, droppedFull, closeVars, workerVars, flushPc>>

\* CaptureCheckIn during a pause drops the check-in into the same counter.
CheckInPaused(k) ==
    /\ paused
    /\ CheckInMoves(k, "idle", "dropped")
    /\ droppedPaused' = droppedPaused + 1
    /\ UNCHANGED <<pauseLeft, heldAtPause>>

CheckInPosted(k) ==
    /\ ~paused
    /\ CheckInMoves(k, "idle", "asking")
    /\ UNCHANGED <<droppedPaused, pauseLeft, heldAtPause>>

\* Its own 429 answer stores a pause as well.
CheckInRateLimited(k, wait) ==
    /\ CheckInMoves(k, "asking", "answered")
    /\ pause(wait)
    /\ UNCHANGED droppedPaused

CheckInAnswered(k) ==
    /\ CheckInMoves(k, "asking", "answered")
    /\ UNCHANGED <<droppedPaused, pauseLeft, heldAtPause>>

CheckInStep(k) == \/ CheckInPaused(k) \/ CheckInPosted(k) \/ CheckInAnswered(k)
                  \/ \E wait \in Waits : CheckInRateLimited(k, wait)

Tick ==
    /\ paused
    /\ pauseLeft' = pauseLeft - 1
    /\ UNCHANGED <<sendVars, chanVars, heldAtPause, checkInPc, counters, closeVars,
                   workerVars, flushPc>>

\* Every call has returned and the worker is gone: nothing is left to do.
Terminated ==
    /\ workerPc = "exited"
    /\ \A e \in Events : sendPc[e] = "done"
    /\ \A c \in Closers : closePc[c] = "returned"
    /\ \A f \in Flushers : flushPc[f] \in {"true", "false"}
    /\ \A k \in CheckIns : checkInPc[k] \in {"answered", "dropped"}
    /\ UNCHANGED vars

Next == \/ \E e \in Events : SendCall(e) \/ SendStep(e)
        \/ WorkerStep
        \/ \E c \in Closers : CloseCall(c) \/ CloseStep(c)
        \/ \E f \in Flushers : FlushCall(f) \/ FlushPoll(f) \/ FlushWait(f)
        \/ \E k \in CheckIns : CheckInStep(k)
        \/ Tick
        \/ Terminated

Safety == Init /\ [][Next]_vars

(***************************************************************************)
(* Goroutines that can run are run, and timers that were started fire.  A  *)
(* request ends by itself: do bounds it with a timeout and the context, so *)
(* the worker needs no answer from the server.  Nothing is asked of the    *)
(* callers (SendCall, CloseCall, Flush) nor of the server, and Close may   *)
(* as well give up at once as wait for the worker.                         *)
(***************************************************************************)
Fairness == /\ \A e \in Events : WF_vars(SendStep(e))
            /\ WF_vars(WorkerStep)
            /\ \A c \in Closers : WF_vars(CloseStep(c))

Spec == Safety /\ Fairness

-----------------------------------------------------------------------------
(* What holds.                                                              *)

Queued   == {queue[i] : i \in 1..Len(queue)}
Counting == {e \in Events : sendPc[e] = "counting"}
Busy     == workerPc \notin {"receiving", "exited"}
DroppedCheckIns == {k \in CheckIns : checkInPc[k] = "dropped"}
Ended(why) == {e \in Events : fate[e] = why}

SendTypeOK ==
    /\ sendPc \in [Events -> {"idle", "called", "admitted", "queueing", "counting",
                              "done"}]
    /\ fate \in [Events -> Fates]
QueueTypeOK == queue \in Seq(Events) /\ Len(queue) <= QueueSize /\ pending \in Int
PauseTypeOK ==
    /\ pauseLeft \in Nat /\ heldAtPause \in Events \cup {NoEvent}
    /\ checkInPc \in [CheckIns -> {"idle", "asking", "answered", "dropped"}]
    /\ droppedFull \in Nat /\ droppedPaused \in Nat
CloseTypeOK ==
    /\ closed \in BOOLEAN /\ cancelled \in BOOLEAN
    /\ closePc \in [Closers -> {"idle", "locking", "waiting", "aborting", "returned"}]
    /\ flushPc \in [Flushers -> {"idle", "polling", "waiting", "true", "false"}]
WorkerTypeOK ==
    /\ workerPc \in {"receiving", "received", "deciding", "ready", "inflight",
                     "backoff", "settled", "exited"}
    /\ current \in Events \cup {NoEvent} /\ attempt \in {0, 1}

\* Types; the channel never holds more than its capacity.
TypeOK == SendTypeOK /\ QueueTypeOK /\ PauseTypeOK /\ CloseTypeOK /\ WorkerTypeOK

\* A goroutine that found the transport open finds the channel open when it
\* writes to it (the reason for closeMu: a write to a closed channel panics).
OpenWhileSending == \A e \in Readers : ~closed

\* pending is the number of events queued plus the one being sent, short of
\* the events that are in the channel and whose Send has yet to count them.
PendingAccounting ==
    pending + Cardinality(Counting) = Len(queue) + (IF Busy THEN 1 ELSE 0)

\* Every event whose Send got as far as the channel or gave up is in exactly
\* one place: queued once, in the worker's hand, or decided.  None is lost,
\* duplicated or decided twice, whatever is closed or cancelled meanwhile.
EveryEventInOnePlace ==
    /\ \A i, j \in 1..Len(queue) : queue[i] = queue[j] => i = j
    /\ current \notin Queued
    /\ \A e \in Events :
          /\ fate[e] # "none" => e \notin Queued /\ e # current
          /\ sendPc[e] \in {"counting", "done"}
               <=> (e \in Queued \/ e = current \/ fate[e] # "none")

\* The two counters Stats reads count the events dropped for their reason, by
\* the caller or by the worker, and the check-ins dropped in a pause: no drop
\* is counted twice or under the wrong reason.
CountersTellTheTruth ==
    /\ droppedFull = Cardinality(Ended("full"))
    /\ droppedPaused = Cardinality(Ended("paused")) + Cardinality(DroppedCheckIns)

\* Once the Close that shut the transport has returned, the queue is empty,
\* Flush would find nothing pending, no Send is under way inside and every
\* event of a Send that returned is decided.
CloseLeavesNothing ==
    closed /\ (\A c \in Closers : closePc[c] \notin {"waiting", "aborting"}) =>
        /\ workerPc = "exited"
        /\ queue = <<>>
        /\ pending = 0
        /\ \A e \in Events : sendPc[e] = "done" => fate[e] # "none"

\* An accepted event goes unsent because of the shutdown only while a Close has
\* given up waiting; until then the backlog is posted.
AcceptedUntilGivenUp ==
    [][\A e \in Events :
          fate[e] = "none" /\ fate'[e] \in {"drained", "aborted"}
            => \E c \in Closers : closePc[c] = "aborting"]_vars

\* A request begun during a pause is for the event the worker already held when
\* that pause was stored; every later event is dropped without a request.
NotFlooded ==
    [][workerPc # "inflight" /\ workerPc' = "inflight" /\ paused
          => heldAtPause = current]_vars

\* Flush answers true only when the queue is empty and nothing is being sent,
\* provided no Send is between the channel and the counter.
FlushSeesInFlight ==
    [][\A f \in Flushers :
          flushPc[f] = "polling" /\ flushPc'[f] = "true" /\ Counting = {}
            => queue = <<>> /\ ~Busy]_vars

\* What the client is promised (EventDelivery).
InHand == IF current = NoEvent THEN <<>> ELSE <<current>>
Verdict(why) == CASE why = "none"   -> "none"
                  [] why = "stored" -> "delivered"
                  [] OTHER          -> "dropped"
Phase == IF ~closed THEN "open" ELSE IF workerPc = "exited" THEN "finished" ELSE "closing"

Delivery == INSTANCE EventDelivery WITH
                phase   <- Phase,
                waiting <- InHand \o queue,
                verdict <- [e \in Events |-> Verdict(fate[e])]

\* Send, the channel, the worker and Close together implement EventDelivery.
ImplementsDelivery == Delivery!Safety

\* ... and what was accepted is decided, though the server may never answer.
DeliveryProgress == Delivery!Progress

\* Close comes back whatever the server does and however long it asks to wait.
CloseReturns == \A c \in Closers : closePc[c] = "locking" ~> closePc[c] = "returned"
=============================================================================
