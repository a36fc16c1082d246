------------------------- MODULE HttpTransportProofs -------------------------
(***************************************************************************)
(* Theorems about HttpTransport for any set of senders, closers, flushers  *)
(* and check-ins, any capacity and any waits.                              *)
(***************************************************************************)
EXTENDS HttpTransport, DataLemmas, SequenceTheorems

USE EventsAssumption, CheckInsAssumption, QueueSizeAssumption, WaitsAssumption

-----------------------------------------------------------------------------
(* Frames: what the steps of one kind of goroutine leave alone.             *)

\* One goroutine's Send, from the call to its return.
Sending(e)  == SendCall(e) \/ SendStep(e)
Closing(c)  == CloseCall(c) \/ CloseStep(c)
Flushing(f) == FlushCall(f) \/ FlushPoll(f) \/ FlushWait(f)
Idling      == Terminated \/ UNCHANGED vars

\* Every step of the system is a step of one of these.
LEMMA Steps ==
    ASSUME [Next]_vars
    PROVE  \/ \E e \in Events : Sending(e)
           \/ WorkerStep
           \/ \E c \in Closers : Closing(c)
           \/ \E f \in Flushers : Flushing(f)
           \/ \E k \in CheckIns : CheckInStep(k)
           \/ Tick
           \/ Idling
BY DEF Next, Sending, Closing, Flushing, Idling

\* Send touches no pause, no Close, no worker variable.
LEMMA SendFrame ==
    ASSUME NEW e \in Events, Sending(e)
    PROVE  UNCHANGED <<pauseLeft, heldAtPause, checkInPc, closed, cancelled, closePc,
                       workerPc, current, attempt, flushPc>>
BY DEF Sending, SendCall, SendStep, SendOpen, SendClosed, SendPaused, SendNotPaused,
   Enqueue, CountPending, QueueFull, Drops, SendMoves, pauseVars, closeVars, workerVars

\* The worker touches neither a goroutine's program counter nor the lock's state.
LEMMA WorkerFrame ==
    ASSUME WorkerStep
    PROVE  UNCHANGED <<sendPc, checkInPc, closed, cancelled, closePc, flushPc,
                       droppedFull>>
BY DEF WorkerStep, Receive, Exit, Drain, NotCancelled, DropPaused, BeginPost,
   Unencodable, StartRequest, Answered, RateLimited, FirstAttemptFails, Retry,
   BackoffAborted, LastAttemptFails, Uncount, WorkerMoves, Settle, sendVars, chanVars,
   pauseVars, counters, closeVars

\* Close touches no event.
LEMMA CloseFrame ==
    ASSUME NEW c \in Closers, Closing(c)
    PROVE  UNCHANGED <<sendPc, fate, queue, pending, pauseLeft, heldAtPause, checkInPc,
                       droppedFull, droppedPaused, workerPc, current, attempt, flushPc>>
BY DEF Closing, CloseCall, CloseStep, CloseShut, CloseAgain, CloseDrained, CloseGivesUp,
   CloseAborted, CloseMoves, sendVars, chanVars, pauseVars, counters, workerVars

\* Flush changes nothing but its own program counter.
LEMMA FlushFrame ==
    ASSUME NEW f \in Flushers, Flushing(f)
    PROVE  UNCHANGED <<sendPc, fate, queue, pending, pauseLeft, heldAtPause, checkInPc,
                       droppedFull, droppedPaused, closed, cancelled, closePc, workerPc,
                       current, attempt>>
BY DEF Flushing, FlushCall, FlushPoll, FlushWait, FlushMoves, sendVars, chanVars,
   pauseVars, counters, closeVars, workerVars

\* Check-ins and the clock change the pause and its counter only.
LEMMA PauseFrame ==
    ASSUME Tick \/ \E k \in CheckIns : CheckInStep(k)
    PROVE  UNCHANGED <<sendPc, fate, queue, pending, droppedFull, closed, cancelled,
                       closePc, workerPc, current, attempt, flushPc>>
BY DEF Tick, CheckInStep, CheckInPaused, CheckInPosted, CheckInRateLimited,
   CheckInAnswered, CheckInMoves, sendVars, chanVars, counters, closeVars, workerVars

\* The end, and stuttering, change nothing.
LEMMA IdleFrame ==
    ASSUME Idling
    PROVE  UNCHANGED <<sendPc, fate, queue, pending, pauseLeft, heldAtPause, checkInPc,
                       droppedFull, droppedPaused, closed, cancelled, closePc, workerPc,
                       current, attempt, flushPc>>
BY DEF Idling, Terminated, vars

-----------------------------------------------------------------------------
(* Types.                                                                   *)

\* The initial state is well typed.
LEMMA TypingInit == Init => TypeOK
<1> SUFFICES ASSUME Init PROVE TypeOK
  OBVIOUS
<1>1. SendTypeOK
  BY DEF Init, SendTypeOK, Fates
<1>2. QueueTypeOK
  BY DEF Init, QueueTypeOK
<1>3. PauseTypeOK
  BY DEF Init, PauseTypeOK
<1>4. CloseTypeOK
  BY DEF Init, CloseTypeOK
<1>5. WorkerTypeOK
  BY DEF Init, WorkerTypeOK
<1>6. QED
  BY <1>1, <1>2, <1>3, <1>4, <1>5 DEF TypeOK

\* Every step keeps the types, the capacity of the channel among them.
LEMMA TypingNext ==
    ASSUME TypeOK, [Next]_vars
    PROVE  TypeOK'
<1>1. SendTypeOK /\ QueueTypeOK /\ PauseTypeOK /\ CloseTypeOK /\ WorkerTypeOK
  BY DEF TypeOK
<1>2. ASSUME NEW e \in Events, Sending(e) PROVE TypeOK'
  <2>1. SendTypeOK'
    BY <1>1, <1>2 DEF SendTypeOK, Fates, Sending, SendCall, SendStep, SendOpen,
       SendClosed, SendPaused, SendNotPaused, Enqueue, CountPending, QueueFull,
       SendMoves, Drops
  <2>2. QueueTypeOK'
    BY <1>1, <1>2 DEF QueueTypeOK, Sending, SendCall, SendStep, SendOpen, SendClosed,
       SendPaused, SendNotPaused, Enqueue, CountPending, QueueFull, chanVars
  <2>3. PauseTypeOK'
    BY <1>1, <1>2, SendFrame DEF PauseTypeOK, Sending, SendCall, SendStep, SendOpen,
       SendClosed, SendPaused, SendNotPaused, Enqueue, CountPending, QueueFull, counters
  <2>4. CloseTypeOK' /\ WorkerTypeOK'
    BY <1>1, <1>2, SendFrame DEF CloseTypeOK, WorkerTypeOK
  <2>5. QED
    BY <2>1, <2>2, <2>3, <2>4 DEF TypeOK
<1>3. ASSUME WorkerStep PROVE TypeOK'
  <2>1. SendTypeOK'
    BY <1>1, <1>3, WorkerFrame DEF SendTypeOK, Fates, WorkerStep, Receive, Exit, Drain,
       NotCancelled, DropPaused, BeginPost, Unencodable, StartRequest, Answered,
       RateLimited, FirstAttemptFails, Retry, BackoffAborted, LastAttemptFails, Uncount,
       WorkerMoves, Settle, sendVars
  <2>2. QueueTypeOK'
    BY <1>1, <1>3 DEF QueueTypeOK, WorkerStep, Receive, Exit, Drain, NotCancelled,
       DropPaused, BeginPost, Unencodable, StartRequest, Answered, RateLimited,
       FirstAttemptFails, Retry, BackoffAborted, LastAttemptFails, Uncount, WorkerMoves,
       Settle, chanVars
  <2>3. PauseTypeOK'
    BY <1>1, <1>3, WorkerFrame DEF PauseTypeOK, WorkerTypeOK, WorkerStep, Receive, Exit,
       Drain, NotCancelled, DropPaused, BeginPost, Unencodable, StartRequest, Answered,
       RateLimited, FirstAttemptFails, Retry, BackoffAborted, LastAttemptFails, Uncount,
       WorkerMoves, pause, pauseVars, counters
  <2>4. CloseTypeOK'
    BY <1>1, <1>3, WorkerFrame DEF CloseTypeOK
  <2>5. WorkerTypeOK'
    BY <1>1, <1>3 DEF WorkerTypeOK, QueueTypeOK, WorkerStep, Receive, Exit, Drain,
       NotCancelled, DropPaused, BeginPost, Unencodable, StartRequest, Answered,
       RateLimited, FirstAttemptFails, Retry, BackoffAborted, LastAttemptFails, Uncount,
       WorkerMoves, Settle
  <2>6. QED
    BY <2>1, <2>2, <2>3, <2>4, <2>5 DEF TypeOK
<1>4. ASSUME NEW c \in Closers, Closing(c) PROVE TypeOK'
  <2>1. SendTypeOK' /\ QueueTypeOK' /\ PauseTypeOK' /\ WorkerTypeOK'
    BY <1>1, <1>4, CloseFrame DEF SendTypeOK, QueueTypeOK, PauseTypeOK, WorkerTypeOK
  <2>2. CloseTypeOK'
    BY <1>1, <1>4, CloseFrame DEF CloseTypeOK, Closing, CloseCall, CloseStep, CloseShut,
       CloseAgain, CloseDrained, CloseGivesUp, CloseAborted, CloseMoves
  <2>3. QED
    BY <2>1, <2>2 DEF TypeOK
<1>5. ASSUME NEW f \in Flushers, Flushing(f) PROVE TypeOK'
  <2>1. SendTypeOK' /\ QueueTypeOK' /\ PauseTypeOK' /\ WorkerTypeOK'
    BY <1>1, <1>5, FlushFrame DEF SendTypeOK, QueueTypeOK, PauseTypeOK, WorkerTypeOK
  <2>2. CloseTypeOK'
    BY <1>1, <1>5, FlushFrame DEF CloseTypeOK, Flushing, FlushCall, FlushPoll,
       FlushWait, FlushMoves
  <2>3. QED
    BY <2>1, <2>2 DEF TypeOK
<1>6. ASSUME Tick \/ \E k \in CheckIns : CheckInStep(k) PROVE TypeOK'
  <2>1. SendTypeOK' /\ QueueTypeOK' /\ CloseTypeOK' /\ WorkerTypeOK'
    BY <1>1, <1>6, PauseFrame DEF SendTypeOK, QueueTypeOK, CloseTypeOK, WorkerTypeOK
  <2>2. PauseTypeOK'
    BY <1>1, <1>6, PauseFrame DEF PauseTypeOK, WorkerTypeOK, Tick, paused, CheckInStep,
       CheckInPaused, CheckInPosted, CheckInRateLimited, CheckInAnswered, CheckInMoves,
       pause, counters
  <2>3. QED
    BY <2>1, <2>2 DEF TypeOK
<1>7. ASSUME Idling PROVE TypeOK'
  BY <1>1, <1>7, IdleFrame DEF TypeOK, SendTypeOK, QueueTypeOK, PauseTypeOK,
     CloseTypeOK, WorkerTypeOK
<1>8. QED
  BY <1>2, <1>3, <1>4, <1>5, <1>6, <1>7, Steps

\* Types hold, and the channel never holds more than its capacity.
THEOREM Typing == Safety => []TypeOK
<1>1. QED
  BY TypingInit, TypingNext, PTL DEF Safety

-----------------------------------------------------------------------------
(* The inductive invariant.  The safety invariants the runs check are not    *)
(* inductive one by one: that an event is in one place needs to know when    *)
(* the worker holds one, what Close leaves needs what an exited worker       *)
(* implies, and the pause needs what the worker held when it began.          *)

Holding == {"received", "deciding", "ready", "inflight", "backoff"}

WorkerInv ==
    /\ current # NoEvent <=> workerPc \in Holding
    /\ workerPc = "exited" => closed /\ queue = <<>>

CloseInv ==
    /\ closed => workerPc = "exited"
                 \/ \E c \in Closers : closePc[c] \in {"waiting", "aborting"}
    /\ cancelled => workerPc = "exited" \/ \E c \in Closers : closePc[c] = "aborting"

PauseInv == paused /\ workerPc \in {"ready", "inflight", "backoff"}
                => heldAtPause = current

Inv == /\ TypeOK
       /\ OpenWhileSending
       /\ WorkerInv
       /\ CloseInv
       /\ PauseInv
       /\ EveryEventInOnePlace
       /\ PendingAccounting
       /\ CountersTellTheTruth

\* The read lock: while a Send is inside, nobody shuts the transport.
LEMMA OpenNext ==
    ASSUME TypeOK, OpenWhileSending, [Next]_vars
    PROVE  OpenWhileSending'
<1> USE DEF OpenWhileSending, Readers
<1>1. ASSUME NEW e \in Events, Sending(e) PROVE OpenWhileSending'
  BY <1>1, SendFrame DEF TypeOK, SendTypeOK, Sending, SendCall, SendStep, SendOpen,
     SendClosed, SendPaused, SendNotPaused, Enqueue, CountPending, QueueFull, SendMoves,
     Drops
<1>2. ASSUME NEW c \in Closers, Closing(c) PROVE OpenWhileSending'
  BY <1>2, CloseFrame DEF Closing, CloseCall, CloseStep, CloseShut, CloseAgain,
     CloseDrained, CloseGivesUp, CloseAborted
<1>3. QED
  BY <1>1, <1>2, WorkerFrame, FlushFrame, PauseFrame, IdleFrame, Steps

\* The worker holds an event exactly between receiving and settling it, and
\* leaves only a closed and empty channel behind.
LEMMA WorkerInvNext ==
    ASSUME TypeOK, OpenWhileSending, WorkerInv, [Next]_vars
    PROVE  WorkerInv'
<1> USE DEF WorkerInv, Holding
<1>1. ASSUME NEW e \in Events, Sending(e) PROVE WorkerInv'
  <2>1. workerPc = "exited" => queue' = queue
    BY <1>1 DEF OpenWhileSending, Readers, Sending, SendCall, SendStep, SendOpen,
       SendClosed, SendPaused, SendNotPaused, Enqueue, CountPending, QueueFull,
       SendMoves, chanVars
  <2>2. QED
    BY <1>1, <2>1, SendFrame
<1>2. ASSUME WorkerStep PROVE WorkerInv'
  <2>1. CASE Receive
    <3>1. Head(queue) \in Events
      BY <2>1 DEF Receive, TypeOK, QueueTypeOK
    <3>2. QED
      BY <2>1, <3>1, EventsAssumption DEF Receive, WorkerMoves
  <2>2. CASE Exit
    BY <2>2 DEF Exit, WorkerMoves, chanVars, closeVars
  <2>3. CASE ~Receive /\ ~Exit
    BY <1>2, <2>3 DEF WorkerStep, Drain, NotCancelled, DropPaused, BeginPost,
       Unencodable, StartRequest, Answered, RateLimited, FirstAttemptFails, CannotSend,
       Retry, BackoffAborted, LastAttemptFails, Uncount, WorkerMoves, Settle
  <2>4. QED
    BY <2>1, <2>2, <2>3
<1>3. ASSUME NEW c \in Closers, Closing(c) PROVE WorkerInv'
  BY <1>3, CloseFrame DEF Closing, CloseCall, CloseStep, CloseShut, CloseAgain,
     CloseDrained, CloseGivesUp, CloseAborted
<1>4. QED
  BY <1>1, <1>2, <1>3, FlushFrame, PauseFrame, IdleFrame, Steps

\* A shut transport has a Close that waits for the worker until it is gone, and
\* a cancelled one a Close that has given up.
LEMMA CloseInvNext ==
    ASSUME TypeOK, CloseInv, [Next]_vars
    PROVE  CloseInv'
<1> USE DEF CloseInv
<1>1. ASSUME WorkerStep PROVE CloseInv'
  <2>1. workerPc # "exited"
    BY <1>1 DEF WorkerStep, Receive, Exit, Drain, NotCancelled, DropPaused, BeginPost,
       Unencodable, StartRequest, Answered, RateLimited, FirstAttemptFails, CannotSend,
       Retry, BackoffAborted, LastAttemptFails, Uncount, WorkerMoves
  <2>2. QED
    BY <1>1, <2>1, WorkerFrame
<1>2. ASSUME NEW c \in Closers, Closing(c) PROVE CloseInv'
  <2> USE CloseFrame, <1>2 DEF TypeOK, CloseTypeOK, CloseMoves
  <2>1. CASE CloseCall(c) \/ CloseAgain(c)
    BY <2>1 DEF CloseCall, CloseAgain
  <2>2. CASE CloseShut(c)
    BY <2>2 DEF CloseShut
  <2>3. CASE CloseDrained(c) \/ CloseAborted(c)
    BY <2>3 DEF CloseDrained, CloseAborted
  <2>4. CASE CloseGivesUp(c)
    BY <2>4 DEF CloseGivesUp
  <2>5. QED
    BY <2>1, <2>2, <2>3, <2>4 DEF Closing, CloseStep
<1>3. QED
  BY <1>1, <1>2, SendFrame, FlushFrame, PauseFrame, IdleFrame, Steps

\* During a pause the worker sends nothing but what it held when it began.
LEMMA PauseInvNext ==
    ASSUME TypeOK, PauseInv, [Next]_vars
    PROVE  PauseInv'
<1> USE DEF PauseInv, paused
<1>1. ASSUME WorkerStep PROVE PauseInv'
  BY <1>1 DEF WorkerStep, Receive, Exit, Drain, NotCancelled, DropPaused, BeginPost,
     Unencodable, StartRequest, Answered, RateLimited, FirstAttemptFails, CannotSend,
     Retry, BackoffAborted, LastAttemptFails, Uncount, WorkerMoves, Settle, pauseVars
<1>2. ASSUME Tick \/ \E k \in CheckIns : CheckInStep(k) PROVE PauseInv'
  BY <1>2, PauseFrame DEF TypeOK, PauseTypeOK, Tick, CheckInStep, CheckInPaused,
     CheckInPosted, CheckInRateLimited, CheckInAnswered, pause
<1>3. QED
  BY <1>1, <1>2, SendFrame, CloseFrame, FlushFrame, IdleFrame, Steps

-----------------------------------------------------------------------------
(* Effects: what a step of a Send or of the worker does to the events.       *)

Refused == {"closed", "full", "paused"}

\* What a step of Send does to its event: nothing yet, taken in, or refused.
LEMMA SendEffect ==
    ASSUME TypeOK, NEW e \in Events, Sending(e)
    PROVE  \/ /\ sendPc[e] \in {"idle", "called", "admitted"}
              /\ sendPc' \in {[sendPc EXCEPT ![e] = pc] :
                                 pc \in {"called", "admitted", "queueing"}}
              /\ UNCHANGED <<fate, queue, pending, droppedFull, droppedPaused>>
           \/ /\ sendPc[e] \in {"called", "admitted", "queueing"}
              /\ sendPc' = [sendPc EXCEPT ![e] = "done"]
              /\ \E why \in Refused :
                    /\ fate' = [fate EXCEPT ![e] = why]
                    /\ why = "closed" => closed
                    /\ droppedFull' = droppedFull + (IF why = "full" THEN 1 ELSE 0)
                    /\ droppedPaused' = droppedPaused + (IF why = "paused" THEN 1 ELSE 0)
              /\ UNCHANGED <<queue, pending>>
           \/ /\ sendPc[e] = "queueing"
              /\ sendPc' = [sendPc EXCEPT ![e] = "counting"]
              /\ queue' = Append(queue, e)
              /\ UNCHANGED <<fate, pending, droppedFull, droppedPaused>>
           \/ /\ sendPc[e] = "counting"
              /\ sendPc' = [sendPc EXCEPT ![e] = "done"]
              /\ pending' = pending + 1
              /\ UNCHANGED <<fate, queue, droppedFull, droppedPaused>>
<1> USE DEF SendMoves, Drops, Refused, chanVars, counters
<1>1. droppedFull \in Nat /\ droppedPaused \in Nat
  BY DEF TypeOK, PauseTypeOK
<1>2. CASE SendCall(e) \/ SendOpen(e) \/ SendNotPaused(e)
  BY <1>2 DEF SendCall, SendOpen, SendNotPaused
<1>3. CASE SendClosed(e)
  BY <1>1, <1>3 DEF SendClosed
<1>4. CASE SendPaused(e)
  BY <1>1, <1>4 DEF SendPaused
<1>5. CASE QueueFull(e)
  BY <1>1, <1>5 DEF QueueFull
<1>6. CASE Enqueue(e)
  BY <1>6 DEF Enqueue
<1>7. CASE CountPending(e)
  BY <1>7 DEF CountPending
<1>8. QED
  BY <1>2, <1>3, <1>4, <1>5, <1>6, <1>7 DEF Sending, SendStep

\* The worker receives the oldest event, decides the one it holds, uncounts the
\* one it has decided, leaves, or does something no event can tell.
Takes == /\ workerPc = "receiving" /\ workerPc' = "received"
         /\ current = NoEvent /\ queue # <<>>
         /\ current' = Head(queue) /\ queue' = Tail(queue)
         /\ UNCHANGED <<fate, pending, droppedPaused>>

Decides(outcome) ==
         /\ workerPc \in Holding /\ workerPc' = "settled"
         /\ current \in Events /\ current' = NoEvent
         /\ fate' = [fate EXCEPT ![current] = outcome]
         /\ outcome \in {"drained", "aborted"} => cancelled
         /\ droppedPaused' = droppedPaused + (IF outcome = "paused" THEN 1 ELSE 0)
         /\ UNCHANGED <<queue, pending>>

Uncounts == /\ workerPc = "settled" /\ workerPc' = "receiving"
            /\ pending' = pending - 1
            /\ UNCHANGED <<queue, current, fate, droppedPaused>>

Works == /\ workerPc \in Holding /\ workerPc' \in Holding
         /\ UNCHANGED <<queue, pending, current, fate, droppedPaused>>

Leaves == /\ workerPc = "receiving" /\ workerPc' = "exited"
          /\ closed /\ queue = <<>>
          /\ UNCHANGED <<queue, pending, current, fate, droppedPaused>>

Outcomes == Fates \ {"none", "closed", "full"}

\* What a step of the worker does: nothing, takes the head, or decides what it holds.
LEMMA WorkerEffect ==
    ASSUME TypeOK, WorkerInv, WorkerStep
    PROVE  Takes \/ (\E outcome \in Outcomes : Decides(outcome)) \/ Uncounts \/ Works
           \/ Leaves
<1> USE DEF WorkerMoves, Settle, Holding, sendVars, chanVars, pauseVars, counters
<1>1. droppedPaused \in Nat /\ current \in Events \cup {NoEvent}
  BY DEF TypeOK, PauseTypeOK, WorkerTypeOK
<1>2. workerPc \in Holding => current \in Events
  BY <1>1 DEF WorkerInv
<1>3. CASE Receive
  BY <1>3 DEF Receive, WorkerInv, Takes
<1>4. CASE Exit
  BY <1>4 DEF Exit, Leaves
<1>5. CASE NotCancelled \/ BeginPost \/ StartRequest \/ FirstAttemptFails \/ Retry
  BY <1>5 DEF NotCancelled, BeginPost, StartRequest, FirstAttemptFails, CannotSend, Retry,
     Works
<1>6. /\ Drain => Decides("drained")
      /\ BackoffAborted => Decides("aborted")
  BY <1>1, <1>2 DEF Drain, BackoffAborted, Decides
<1>7. DropPaused => Decides("paused")
  BY <1>1, <1>2 DEF DropPaused, Decides
<1>8. /\ Unencodable => Decides("unencodable")
      /\ LastAttemptFails => Decides("failed")
  BY <1>1, <1>2 DEF Unencodable, LastAttemptFails, CannotSend, Decides
<1>9. /\ Answered("stored") => Decides("stored")
      /\ Answered("rejected") => Decides("rejected")
      /\ \A wait \in Waits : RateLimited(wait) => Decides("limited")
  BY <1>1, <1>2 DEF Answered, RateLimited, Decides
<1>10. CASE Uncount
  BY <1>10 DEF Uncount, Uncounts
<1>11. {"drained", "aborted", "paused", "unencodable", "failed", "stored", "rejected",
        "limited"} \subseteq Outcomes
  BY DEF Outcomes, Fates
<1>12. QED
  BY <1>3, <1>4, <1>5, <1>6, <1>7, <1>8, <1>9, <1>10, <1>11 DEF WorkerStep

-----------------------------------------------------------------------------
(* Every event in one place.                                                *)

\* Every step keeps each accepted event in exactly one place.
LEMMA OnePlaceNext ==
    ASSUME TypeOK, WorkerInv, EveryEventInOnePlace, [Next]_vars
    PROVE  EveryEventInOnePlace'
<1>1. /\ queue \in Seq(Events) /\ DOMAIN sendPc = Events
      /\ DOMAIN fate = Events /\ current \in Events \cup {NoEvent}
  BY DEF TypeOK, SendTypeOK, QueueTypeOK, WorkerTypeOK
<1>2. /\ Injective(queue)
      /\ Queued = Elements(queue) /\ Queued' = Elements(queue')
      /\ current \notin Queued
      /\ \A e \in Events : /\ fate[e] # "none" => e \notin Queued /\ e # current
                           /\ sendPc[e] \in {"counting", "done"}
                                <=> e \in Queued \/ e = current \/ fate[e] # "none"
  BY DEF EveryEventInOnePlace, Queued, Elements, Injective
<1> DEFINE Goal ==
      /\ Injective(queue')
      /\ current' \notin Queued'
      /\ \A e \in Events : /\ fate'[e] # "none" => e \notin Queued' /\ e # current'
                           /\ sendPc'[e] \in {"counting", "done"}
                                <=> e \in Queued' \/ e = current' \/ fate'[e] # "none"
<1>3. SUFFICES Goal
  BY DEF EveryEventInOnePlace, Injective
<1>4. CASE UNCHANGED <<sendPc, fate, queue, current>>
  BY <1>2, <1>4
<1>5. ASSUME NEW e \in Events, Sending(e) PROVE Goal
  <2>1. current' = current
    BY <1>5, SendFrame
  <2>2. CASE queue' = queue
    <3>1. Queued' = Queued
      BY <1>2, <2>2
    <3>2. sendPc[e] \in {"counting", "done"} => UNCHANGED fate
      BY <1>5, SendEffect, <2>2
    <3>3. QED
      BY <1>1, <1>2, <1>5, <2>1, <2>2, <3>1, <3>2, SendEffect DEF Refused
  <2>3. CASE queue' # queue
    <3>1. /\ sendPc[e] = "queueing" /\ sendPc' = [sendPc EXCEPT ![e] = "counting"]
          /\ queue' = Append(queue, e) /\ fate' = fate
      BY <1>5, <2>3, SendEffect
    <3>2. e \notin Queued /\ e # current /\ fate[e] = "none"
      BY <1>2, <3>1
    <3>3. Injective(queue') /\ Queued' = Queued \cup {e}
      BY <1>1, <1>2, <3>1, <3>2, AppendNew
    <3>4. QED
      BY <1>1, <1>2, <2>1, <3>1, <3>2, <3>3
  <2>4. QED
    BY <2>2, <2>3
<1>6. CASE WorkerStep
  <2>1. sendPc' = sendPc
    BY <1>6, WorkerFrame
  <2>2. CASE Takes
    <3>1. /\ queue # <<>> /\ current = NoEvent /\ current' = Head(queue)
          /\ queue' = Tail(queue) /\ fate' = fate
      BY <2>2 DEF Takes
    <3>2. /\ Injective(queue') /\ Queued' = Queued \ {current'} /\ current' \in Queued
      BY <1>1, <1>2, <3>1, TakeHead
    <3>3. QED
      BY <1>2, <2>1, <3>1, <3>2, EventsAssumption
  <2>3. ASSUME NEW outcome \in Outcomes, Decides(outcome) PROVE Goal
    <3>1. /\ current \in Events /\ current' = NoEvent /\ outcome # "none"
          /\ queue' = queue /\ fate' = [fate EXCEPT ![current] = outcome]
      BY <2>3 DEF Decides, Outcomes
    <3>2. Queued' = Queued /\ current \notin Queued
      BY <1>2, <3>1
    <3>3. Queued \subseteq Events
      BY <1>1, <1>2 DEF Elements
    <3>4. current' \notin Queued' /\ \A e \in Events : e # current'
      BY <3>1, <3>2, <3>3, EventsAssumption
    <3>5. ASSUME NEW e \in Events
          PROVE  /\ fate'[e] # "none" => e \notin Queued' /\ e # current'
                 /\ sendPc'[e] \in {"counting", "done"}
                      <=> e \in Queued' \/ e = current' \/ fate'[e] # "none"
      BY <1>1, <1>2, <2>1, <3>1, <3>2, <3>4
    <3>6. QED
      BY <1>2, <3>1, <3>4, <3>5
  <2>4. CASE Uncounts \/ Works \/ Leaves
    BY <1>4, <2>1, <2>4 DEF Uncounts, Works, Leaves
  <2>5. QED
    BY <1>6, <2>2, <2>3, <2>4, WorkerEffect
<1>7. QED
  BY <1>4, <1>5, <1>6, CloseFrame, FlushFrame, PauseFrame, IdleFrame, Steps

-----------------------------------------------------------------------------
(* The counters.                                                            *)

\* Sets of events are finite, so they can be counted.
LEMMA FiniteEvents ==
    ASSUME NEW S \in SUBSET Events
    PROVE  IsFiniteSet(S) /\ Cardinality(S) \in Nat
BY FS_Subset, FS_CardinalityType, EventsAssumption

\* The counter, the events not yet counted, the queue and the worker keep step.
LEMMA PendingNext ==
    ASSUME TypeOK, WorkerInv, PendingAccounting, [Next]_vars
    PROVE  PendingAccounting'
<1> DEFINE hand == IF Busy THEN 1 ELSE 0
<1>1. /\ queue \in Seq(Events) /\ Len(queue) \in Nat /\ pending \in Int
      /\ DOMAIN sendPc = Events
      /\ Counting \subseteq Events /\ Counting' \subseteq Events
  BY DEF TypeOK, SendTypeOK, QueueTypeOK, Counting
<1>2. Cardinality(Counting) \in Nat /\ IsFiniteSet(Counting)
  BY <1>1, FiniteEvents
<1>3. pending + Cardinality(Counting) = Len(queue) + hand
  BY DEF PendingAccounting
<1>4. CASE UNCHANGED <<sendPc, queue, pending, workerPc>>
  BY <1>4 DEF PendingAccounting, Counting, Busy
<1>5. ASSUME NEW e \in Events, Sending(e) PROVE PendingAccounting'
  <2>1. hand' = hand
    BY <1>5, SendFrame DEF Busy
  <2>2. CASE sendPc'[e] = "counting" /\ sendPc[e] # "counting"
    <3>1. /\ sendPc' = [sendPc EXCEPT ![e] = "counting"]
          /\ queue' = Append(queue, e) /\ pending' = pending
      BY <1>1, <1>5, <2>2, SendEffect
    <3>2. Counting' = Counting \cup {e} /\ e \notin Counting
      BY <1>1, <2>2, <3>1 DEF Counting
    <3>3. Cardinality(Counting') = Cardinality(Counting) + 1
      BY <1>2, <3>2, FS_AddElement
    <3>4. Len(queue') = Len(queue) + 1
      BY <1>1, <3>1
    <3>5. QED
      BY <1>1, <1>2, <1>3, <2>1, <3>1, <3>3, <3>4 DEF PendingAccounting
  <2>3. CASE sendPc[e] = "counting"
    <3>1. /\ sendPc' = [sendPc EXCEPT ![e] = "done"]
          /\ queue' = queue /\ pending' = pending + 1
      BY <1>1, <1>5, <2>3, SendEffect
    <3>2. Counting' = Counting \ {e} /\ e \in Counting
      BY <1>1, <2>3, <3>1 DEF Counting
    <3>3. Cardinality(Counting') = Cardinality(Counting) - 1
      BY <1>2, <3>2, FS_RemoveElement
    <3>4. QED
      BY <1>1, <1>2, <1>3, <2>1, <3>1, <3>3 DEF PendingAccounting
  <2>4. CASE sendPc[e] # "counting" /\ sendPc'[e] # "counting"
    <3>1. /\ \E pc : sendPc' = [sendPc EXCEPT ![e] = pc]
          /\ queue' = queue /\ pending' = pending
      BY <1>1, <1>5, <2>4, SendEffect
    <3>2. Counting' = Counting
      BY <1>1, <2>4, <3>1 DEF Counting
    <3>3. QED
      BY <1>3, <2>1, <3>1, <3>2 DEF PendingAccounting
  <2>5. QED
    BY <2>2, <2>3, <2>4
<1>6. CASE WorkerStep
  <2>1. Counting' = Counting
    BY <1>6, WorkerFrame DEF Counting
  <2>2. CASE Takes
    <3>1. Len(queue') = Len(queue) - 1
      BY <1>1, <2>2 DEF Takes
    <3>2. hand = 0 /\ hand' = 1 /\ pending' = pending
      BY <2>2 DEF Takes, Busy
    <3>3. QED
      BY <1>1, <1>2, <1>3, <2>1, <3>1, <3>2 DEF PendingAccounting
  <2>3. CASE Works \/ \E outcome \in Outcomes : Decides(outcome)
    <3>1. hand = 1 /\ hand' = 1 /\ pending' = pending /\ queue' = queue
      BY <2>3 DEF Works, Decides, Busy, Holding
    <3>2. QED
      BY <1>3, <2>1, <3>1 DEF PendingAccounting
  <2>4. CASE Uncounts
    <3>1. hand = 1 /\ hand' = 0 /\ pending' = pending - 1 /\ queue' = queue
      BY <2>4 DEF Uncounts, Busy
    <3>2. QED
      BY <1>1, <1>2, <1>3, <2>1, <3>1 DEF PendingAccounting
  <2>5. CASE Leaves
    <3>1. hand = 0 /\ hand' = 0 /\ pending' = pending /\ queue' = queue
      BY <2>5 DEF Leaves, Busy
    <3>2. QED
      BY <1>3, <2>1, <3>1 DEF PendingAccounting
  <2>6. QED
    BY <1>6, <2>2, <2>3, <2>4, <2>5, WorkerEffect
<1>7. QED
  BY <1>4, <1>5, <1>6, CloseFrame, FlushFrame, PauseFrame, IdleFrame, Steps

\* Deciding an event adds it to those that ended so, and to no others.
LEMMA EndOne ==
    ASSUME DOMAIN fate = Events, NEW e \in Events, fate[e] = "none", NEW why,
           fate' = [fate EXCEPT ![e] = why], NEW w, w # "none"
    PROVE  Cardinality(Ended(w)') = Cardinality(Ended(w)) + (IF w = why THEN 1 ELSE 0)
<1>1. Ended(w) \subseteq Events /\ e \notin Ended(w)
  BY DEF Ended
<1>2. IsFiniteSet(Ended(w)) /\ Cardinality(Ended(w)) \in Nat
  BY <1>1, FiniteEvents
<1>3. CASE w = why
  <2>1. Ended(w)' = Ended(w) \cup {e}
    BY <1>3 DEF Ended
  <2>2. QED
    BY <1>1, <1>2, <1>3, <2>1, FS_AddElement
<1>4. CASE w # why
  <2>1. Ended(w)' = Ended(w)
    BY <1>4 DEF Ended
  <2>2. QED
    BY <1>2, <1>4, <2>1
<1>5. QED
  BY <1>3, <1>4

\* Every step counts an event in a drop counter exactly when it drops it for that reason.
LEMMA CountersNext ==
    ASSUME TypeOK, WorkerInv, EveryEventInOnePlace, CountersTellTheTruth, [Next]_vars
    PROVE  CountersTellTheTruth'
<1>1. DOMAIN fate = Events /\ DOMAIN checkInPc = CheckIns
  BY DEF TypeOK, SendTypeOK, PauseTypeOK
<1>2. /\ droppedFull = Cardinality(Ended("full"))
      /\ droppedPaused = Cardinality(Ended("paused")) + Cardinality(DroppedCheckIns)
  BY DEF CountersTellTheTruth
<1>3. /\ Cardinality(Ended("paused")) \in Nat /\ Cardinality(Ended("full")) \in Nat
      /\ Ended("paused") \subseteq Events /\ Ended("full") \subseteq Events
  BY FiniteEvents DEF Ended
<1>4. /\ DroppedCheckIns \subseteq CheckIns /\ IsFiniteSet(DroppedCheckIns)
      /\ Cardinality(DroppedCheckIns) \in Nat
  BY FS_Subset, FS_CardinalityType, CheckInsAssumption DEF DroppedCheckIns
<1>5. CASE UNCHANGED <<fate, droppedFull, droppedPaused, checkInPc>>
  BY <1>5 DEF CountersTellTheTruth, Ended, DroppedCheckIns
<1>6. ASSUME NEW e \in Events, Sending(e) PROVE CountersTellTheTruth'
  <2>1. DroppedCheckIns' = DroppedCheckIns
    BY <1>6, SendFrame DEF DroppedCheckIns
  <2>2. CASE UNCHANGED <<fate, droppedFull, droppedPaused>>
    BY <1>5, <1>6, <2>2, SendFrame
  <2>3. CASE ~UNCHANGED <<fate, droppedFull, droppedPaused>>
    <3>1. /\ sendPc[e] \notin {"counting", "done"}
          /\ \E why \in Refused :
               /\ fate' = [fate EXCEPT ![e] = why]
               /\ droppedFull' = droppedFull + (IF why = "full" THEN 1 ELSE 0)
               /\ droppedPaused' = droppedPaused + (IF why = "paused" THEN 1 ELSE 0)
      BY <1>6, <2>3, SendEffect
    <3>2. PICK why \in Refused :
               /\ fate' = [fate EXCEPT ![e] = why]
               /\ droppedFull' = droppedFull + (IF why = "full" THEN 1 ELSE 0)
               /\ droppedPaused' = droppedPaused + (IF why = "paused" THEN 1 ELSE 0)
      BY <3>1
    <3>3. fate[e] = "none"
      BY <3>1 DEF EveryEventInOnePlace
    <3>4. /\ Cardinality(Ended("full")')
               = Cardinality(Ended("full")) + (IF "full" = why THEN 1 ELSE 0)
          /\ Cardinality(Ended("paused")')
               = Cardinality(Ended("paused")) + (IF "paused" = why THEN 1 ELSE 0)
      BY <1>1, <3>2, <3>3, EndOne
    <3>5. QED
      BY <1>2, <1>3, <1>4, <2>1, <3>2, <3>4 DEF CountersTellTheTruth
  <2>4. QED
    BY <2>2, <2>3
<1>7. CASE WorkerStep
  <2>1. DroppedCheckIns' = DroppedCheckIns /\ UNCHANGED <<checkInPc, droppedFull>>
    BY <1>7, WorkerFrame DEF DroppedCheckIns
  <2>2. CASE Takes \/ Uncounts \/ Works \/ Leaves
    BY <1>5, <2>1, <2>2 DEF Takes, Uncounts, Works, Leaves
  <2>3. ASSUME NEW outcome \in Outcomes, Decides(outcome) PROVE CountersTellTheTruth'
    <3>1. /\ current \in Events /\ fate' = [fate EXCEPT ![current] = outcome]
          /\ droppedPaused' = droppedPaused + (IF outcome = "paused" THEN 1 ELSE 0)
          /\ outcome # "full"
      BY <2>3 DEF Decides, Outcomes
    <3>2. fate[current] = "none"
      BY <3>1 DEF EveryEventInOnePlace
    <3>3. Cardinality(Ended("full")')
               = Cardinality(Ended("full")) + (IF "full" = outcome THEN 1 ELSE 0)
      BY <1>1, <3>1, <3>2, EndOne
    <3>4. Cardinality(Ended("paused")')
               = Cardinality(Ended("paused")) + (IF "paused" = outcome THEN 1 ELSE 0)
      BY <1>1, <3>1, <3>2, EndOne
    <3>5. droppedFull' = Cardinality(Ended("full")')
      BY <1>2, <1>3, <2>1, <3>1, <3>3
    <3>6. droppedPaused' = Cardinality(Ended("paused")') + Cardinality(DroppedCheckIns')
      BY <1>2, <1>3, <1>4, <2>1, <3>1, <3>4
    <3>7. QED
      BY <3>5, <3>6 DEF CountersTellTheTruth
  <2>4. QED
    BY <1>7, <2>2, <2>3, WorkerEffect
<1>8. ASSUME NEW k \in CheckIns, CheckInStep(k) PROVE CountersTellTheTruth'
  <2>1. UNCHANGED <<fate, droppedFull>>
        /\ Ended("full")' = Ended("full") /\ Ended("paused")' = Ended("paused")
    BY <1>8, PauseFrame DEF Ended
  <2>2. CASE CheckInPaused(k)
    <3>1. DroppedCheckIns' = DroppedCheckIns \cup {k} /\ k \notin DroppedCheckIns
      BY <1>1, <2>2 DEF CheckInPaused, CheckInMoves, DroppedCheckIns
    <3>2. Cardinality(DroppedCheckIns') = Cardinality(DroppedCheckIns) + 1
      BY <1>4, <3>1, FS_AddElement
    <3>3. droppedPaused' = droppedPaused + 1
      BY <2>2 DEF CheckInPaused
    <3>4. QED
      BY <1>2, <1>3, <1>4, <2>1, <3>2, <3>3 DEF CountersTellTheTruth
  <2>3. CASE ~CheckInPaused(k)
    <3>1. DroppedCheckIns' = DroppedCheckIns /\ droppedPaused' = droppedPaused
      BY <1>1, <1>8, <2>3 DEF CheckInStep, CheckInPosted, CheckInRateLimited,
         CheckInAnswered, CheckInMoves, DroppedCheckIns
    <3>2. QED
      BY <1>2, <2>1, <3>1 DEF CountersTellTheTruth
  <2>4. QED
    BY <2>2, <2>3
<1>9. CASE Tick
  BY <1>5, <1>9, PauseFrame DEF Tick, counters
<1>10. QED
  BY <1>5, <1>6, <1>7, <1>8, <1>9, CloseFrame, FlushFrame, IdleFrame, Steps

-----------------------------------------------------------------------------
(* The theorems.                                                            *)

\* The inductive invariant holds initially.
LEMMA InvInit == Init => Inv
<1> SUFFICES ASSUME Init PROVE Inv
  OBVIOUS
<1>1. TypeOK
  BY TypingInit
<1>2. OpenWhileSending /\ CloseInv
  BY DEF Init, OpenWhileSending, Readers, CloseInv
<1>3. WorkerInv /\ PauseInv
  BY DEF Init, WorkerInv, Holding, PauseInv, paused
<1>4. EveryEventInOnePlace
  BY EventsAssumption DEF Init, EveryEventInOnePlace, Queued
<1>5. Counting = {} /\ DroppedCheckIns = {} /\ Ended("full") = {} /\ Ended("paused") = {}
  BY DEF Init, Counting, DroppedCheckIns, Ended
<1>6. PendingAccounting
  BY <1>5, FS_EmptySet DEF Init, PendingAccounting, Busy
<1>7. CountersTellTheTruth
  <2>1. Cardinality({}) = 0
    BY FS_EmptySet
  <2>2. droppedFull = 0 /\ droppedPaused = 0
    BY DEF Init
  <2>3. QED
    BY <1>5, <2>1, <2>2 DEF CountersTellTheTruth
<1>8. QED
  BY <1>1, <1>2, <1>3, <1>4, <1>6, <1>7 DEF Inv

\* The inductive invariant: everything below follows from it.
THEOREM Invariance == Safety => []Inv
<1>1. Inv /\ [Next]_vars => Inv'
  BY TypingNext, OpenNext, WorkerInvNext, CloseInvNext, PauseInvNext, OnePlaceNext,
     PendingNext, CountersNext DEF Inv
<1>2. QED
  BY InvInit, <1>1, PTL DEF Safety

\* No Send ever writes to the closed channel, with any number of Closes.
THEOREM NoWriteToClosedChannel == Safety => []OpenWhileSending
<1>1. Inv => OpenWhileSending
  BY DEF Inv
<1>2. QED
  BY <1>1, Invariance, PTL

\* No event is lost, duplicated or decided twice.
THEOREM NoEventLost == Safety => []EveryEventInOnePlace
<1>1. Inv => EveryEventInOnePlace
  BY DEF Inv
<1>2. QED
  BY <1>1, Invariance, PTL

\* pending is exact up to the Sends between the channel and the counter.
THEOREM PendingExact == Safety => []PendingAccounting
<1>1. Inv => PendingAccounting
  BY DEF Inv
<1>2. QED
  BY <1>1, Invariance, PTL

\* Stats tells the truth about the two reasons the transport counts.
THEOREM CountersExact == Safety => []CountersTellTheTruth
<1>1. Inv => CountersTellTheTruth
  BY DEF Inv
<1>2. QED
  BY <1>1, Invariance, PTL

\* The Close that shut the transport leaves nothing behind when it returns.
THEOREM ClosedIsEmpty == Safety => []CloseLeavesNothing
<1>1. ASSUME Inv PROVE CloseLeavesNothing
  <2> SUFFICES ASSUME closed, \A c \in Closers : closePc[c] \notin {"waiting", "aborting"}
               PROVE  /\ workerPc = "exited" /\ queue = <<>> /\ pending = 0
                      /\ \A e \in Events : sendPc[e] = "done" => fate[e] # "none"
    BY DEF CloseLeavesNothing
  <2>1. workerPc = "exited"
    BY <1>1 DEF Inv, CloseInv
  <2>2. queue = <<>> /\ current = NoEvent
    BY <1>1, <2>1 DEF Inv, WorkerInv, Holding
  <2>3. Counting = {}
    BY <1>1 DEF Inv, OpenWhileSending, Readers, Counting
  <2>4. pending = 0
    BY <1>1, <2>1, <2>2, <2>3, FS_EmptySet DEF Inv, TypeOK, QueueTypeOK,
       PendingAccounting, Busy
  <2>5. \A e \in Events : sendPc[e] = "done" => fate[e] # "none"
    BY <1>1, <2>2, EventsAssumption DEF Inv, EveryEventInOnePlace, Queued
  <2>6. QED
    BY <2>1, <2>2, <2>4, <2>5
<1>2. QED
  BY <1>1, Invariance, PTL

\* A pause is respected by every event the worker had not taken up before it.
THEOREM PauseRespected == Safety => NotFlooded
<1>1. Inv /\ [Next]_vars
        => (workerPc # "inflight" /\ workerPc' = "inflight" /\ paused
              => heldAtPause = current)
  <2> SUFFICES ASSUME Inv, [Next]_vars, workerPc # "inflight", workerPc' = "inflight",
                      paused
               PROVE  heldAtPause = current
    OBVIOUS
  <2>1. WorkerStep
    BY SendFrame, CloseFrame, FlushFrame, PauseFrame, IdleFrame, Steps
  <2>2. workerPc = "ready"
    BY <2>1 DEF WorkerStep, Receive, Exit, Drain, NotCancelled, DropPaused, BeginPost,
       Unencodable, StartRequest, Answered, RateLimited, FirstAttemptFails, Retry,
       BackoffAborted, LastAttemptFails, Uncount, WorkerMoves, Settle
  <2>3. QED
    BY <2>2 DEF Inv, PauseInv
<1>2. QED
  BY <1>1, Invariance, PTL DEF Safety, NotFlooded

\* Nothing accepted is thrown away before a Close has given up on it.
THEOREM BacklogIsSent == Safety => AcceptedUntilGivenUp
<1>1. ASSUME Inv, [Next]_vars, NEW e \in Events, fate[e] = "none",
             fate'[e] \in {"drained", "aborted"}
      PROVE  \E c \in Closers : closePc[c] = "aborting"
  <2>1. DOMAIN fate = Events
    BY <1>1 DEF Inv, TypeOK, SendTypeOK
  <2>2. CASE WorkerStep
    <3>1. PICK outcome \in Outcomes : Decides(outcome)
      BY <1>1, <2>2, WorkerEffect DEF Inv, Takes, Uncounts, Works, Leaves
    <3>2. outcome \in {"drained", "aborted"} /\ workerPc # "exited"
      BY <1>1, <2>1, <3>1 DEF Decides, Holding
    <3>3. cancelled
      BY <3>1, <3>2 DEF Decides
    <3>4. QED
      BY <1>1, <3>2, <3>3 DEF Inv, CloseInv
  <2>3. ASSUME NEW d \in Events, Sending(d) PROVE FALSE
    BY <1>1, <2>1, <2>3, SendEffect DEF Inv, Refused
  <2>4. QED
    BY <1>1, <2>2, <2>3, CloseFrame, FlushFrame, PauseFrame, IdleFrame, Steps
<1>2. Inv /\ [Next]_vars
        => \A e \in Events :
              fate[e] = "none" /\ fate'[e] \in {"drained", "aborted"}
                => \E c \in Closers : closePc[c] = "aborting"
  BY <1>1
<1>3. QED
  BY <1>2, Invariance, PTL DEF Safety, AcceptedUntilGivenUp

\* Flush sees the event in flight as well as the queue.
THEOREM FlushSees == Safety => FlushSeesInFlight
<1>1. ASSUME Inv, [Next]_vars, NEW f \in Flushers, flushPc[f] = "polling",
             flushPc'[f] = "true", Counting = {}
      PROVE  queue = <<>> /\ ~Busy
  <2>1. PICK g \in Flushers : Flushing(g)
    BY <1>1, SendFrame, WorkerFrame, CloseFrame, PauseFrame, IdleFrame, Steps
  <2>2. FlushPoll(f) /\ pending = 0
    BY <1>1, <2>1 DEF Inv, TypeOK, CloseTypeOK, Flushing, FlushCall, FlushPoll,
       FlushWait, FlushMoves
  <2>3. Len(queue) + (IF Busy THEN 1 ELSE 0) = 0
    BY <1>1, <2>2, FS_EmptySet DEF Inv, PendingAccounting
  <2>4. QED
    BY <1>1, <2>3 DEF Inv, TypeOK, QueueTypeOK
<1>2. Inv /\ [Next]_vars
        => \A f \in Flushers :
              flushPc[f] = "polling" /\ flushPc'[f] = "true" /\ Counting = {}
                => queue = <<>> /\ ~Busy
  BY <1>1
<1>3. QED
  BY <1>2, Invariance, PTL DEF Safety, FlushSeesInFlight

-----------------------------------------------------------------------------
(* The transport implements EventDelivery.                                  *)

Waiting  == InHand \o queue
Verdicts == [e \in Events |-> Verdict(fate[e])]

\* What waits is the event in hand, then the queue; each of them is undecided.
LEMMA WaitingShape ==
    ASSUME TypeOK
    PROVE  /\ queue \in Seq(Events)
           /\ current = NoEvent => Waiting = queue
           /\ current # NoEvent => /\ Waiting # <<>>
                                   /\ Head(Waiting) = current
                                   /\ Tail(Waiting) = queue
           /\ Elements(Waiting) = Elements(queue) \cup ({current} \ {NoEvent})
<1>1. queue \in Seq(Events) /\ current \in Events \cup {NoEvent}
  BY DEF TypeOK, QueueTypeOK, WorkerTypeOK
<1>2. CASE current = NoEvent
  <2>1. Waiting = queue
    BY <1>1, <1>2 DEF Waiting, InHand
  <2>2. QED
    BY <1>1, <1>2, <2>1
<1>3. CASE current # NoEvent
  <2>1. Waiting = <<current>> \o queue
    BY <1>3 DEF Waiting, InHand
  <2>2. QED
    BY <1>1, <1>3, <2>1, HeldFirst
<1>4. QED
  BY <1>2, <1>3

\* The mapped variables under their abstract names.
LEMMA Mapping ==
    /\ Delivery!Init <=> /\ Phase = "open" /\ Waiting = <<>>
                         /\ Verdicts = [e \in Events |-> "none"]
    /\ Delivery!Next <=>
         \/ \E e \in Events :
               /\ Verdicts[e] = "none" /\ \A i \in 1..Len(Waiting) : Waiting[i] # e
               /\ \/ /\ Phase = "open" /\ Waiting' = Append(Waiting, e)
                     /\ UNCHANGED <<Phase, Verdicts>>
                  \/ /\ Verdicts' = [Verdicts EXCEPT ![e] = "dropped"]
                     /\ UNCHANGED <<Phase, Waiting>>
         \/ \E v \in {"delivered", "dropped"} :
               /\ Waiting # <<>>
               /\ Verdicts' = [Verdicts EXCEPT ![Head(Waiting)] = v]
               /\ Waiting' = Tail(Waiting) /\ UNCHANGED Phase
         \/ /\ Phase = "open" /\ Phase' = "closing" /\ UNCHANGED <<Waiting, Verdicts>>
         \/ /\ Phase = "closing" /\ Waiting = <<>> /\ Phase' = "finished"
            /\ UNCHANGED <<Waiting, Verdicts>>
BY DEF Delivery!Init, Delivery!Next, Delivery!Accept, Delivery!Refuse, Delivery!Decide,
   Delivery!Shut, Delivery!Finish, Delivery!Undecided, Waiting, Verdicts

\* Deciding one event changes its verdict and no other.
LEMMA VerdictOne ==
    ASSUME DOMAIN fate = Events, NEW e \in Events, NEW why,
           fate' = [fate EXCEPT ![e] = why]
    PROVE  Verdicts' = [Verdicts EXCEPT ![e] = Verdict(why)]
BY DEF Verdicts

\* An event that is neither held, queued nor decided is undecided and not waiting.
LEMMA NotWaiting ==
    ASSUME Inv, NEW e \in Events, sendPc[e] \notin {"counting", "done"}
    PROVE  Verdicts[e] = "none" /\ \A i \in 1..Len(Waiting) : Waiting[i] # e
<1>1. fate[e] = "none" /\ e # current /\ e \notin Elements(queue)
  BY DEF Inv, EveryEventInOnePlace, Queued, Elements
<1>2. e \notin Elements(Waiting)
  BY <1>1, WaitingShape DEF Inv
<1>3. QED
  BY <1>1, <1>2 DEF Verdicts, Verdict, Elements

\* A step of Send maps to Accept, Refuse or a stutter.
LEMMA MapSend ==
    ASSUME Inv, NEW e \in Events, Sending(e)
    PROVE  Delivery!Next \/ UNCHANGED <<Phase, Waiting, Verdicts>>
<1>1. /\ UNCHANGED <<Phase, InHand>> /\ DOMAIN fate = Events
      /\ queue \in Seq(Events) /\ InHand \in Seq(Events)
  BY SendFrame DEF Phase, InHand, Inv, TypeOK, SendTypeOK, QueueTypeOK, WorkerTypeOK
<1>2. CASE UNCHANGED <<queue, fate>>
  BY <1>1, <1>2 DEF Waiting, Verdicts
<1>3. CASE queue' # queue
  <2>1. sendPc[e] = "queueing" /\ queue' = Append(queue, e) /\ fate' = fate
    BY <1>3, SendEffect DEF Inv
  <2>2. Phase = "open"
    BY <2>1 DEF Inv, OpenWhileSending, Readers, Phase
  <2>3. Waiting' = Append(Waiting, e) /\ Verdicts' = Verdicts
    BY <1>1, <2>1 DEF Waiting, Verdicts
  <2>4. QED
    BY <1>1, <2>1, <2>2, <2>3, NotWaiting, Mapping
<1>4. CASE queue' = queue /\ fate' # fate
  <2>1. /\ sendPc[e] \notin {"counting", "done"}
        /\ \E why \in Refused : fate' = [fate EXCEPT ![e] = why]
    BY <1>4, SendEffect DEF Inv
  <2>2. PICK why \in Refused : fate' = [fate EXCEPT ![e] = why]
    BY <2>1
  <2>3. Verdict(why) = "dropped"
    BY DEF Verdict, Refused
  <2>4. Verdicts' = [Verdicts EXCEPT ![e] = "dropped"] /\ Waiting' = Waiting
    BY <1>1, <1>4, <2>2, <2>3, VerdictOne DEF Waiting
  <2>5. QED
    BY <1>1, <2>1, <2>4, NotWaiting, Mapping
<1>5. QED
  BY <1>2, <1>3, <1>4

\* A step of the worker maps to Decide, Finish or a stutter.
LEMMA MapWorker ==
    ASSUME Inv, WorkerStep, TypeOK'
    PROVE  Delivery!Next \/ UNCHANGED <<Phase, Waiting, Verdicts>>
<1>1. /\ UNCHANGED closed /\ DOMAIN fate = Events
      /\ queue \in Seq(Events) /\ TypeOK /\ WorkerInv
  BY WorkerFrame DEF Inv, TypeOK, SendTypeOK, QueueTypeOK
<1>2. CASE Takes
  <2>1. /\ current = NoEvent /\ current' = Head(queue) /\ queue' = Tail(queue)
        /\ queue # <<>> /\ fate' = fate /\ workerPc # "exited" /\ workerPc' # "exited"
    BY <1>2 DEF Takes
  <2>2. current' # NoEvent
    BY <1>1, <2>1, EventsAssumption
  <2>3. Waiting = queue /\ Waiting' = <<Head(queue)>> \o Tail(queue)
    BY <1>1, <2>1, <2>2, WaitingShape DEF Waiting, InHand
  <2>4. Waiting' = Waiting
    BY <1>1, <2>1, <2>3
  <2>5. QED
    BY <1>1, <2>1, <2>4 DEF Phase, Verdicts
<1>3. ASSUME NEW outcome \in Outcomes, Decides(outcome)
      PROVE  Delivery!Next
  <2>1. /\ current \in Events /\ current' = NoEvent /\ queue' = queue
        /\ fate' = [fate EXCEPT ![current] = outcome]
        /\ workerPc # "exited" /\ workerPc' # "exited"
    BY <1>3 DEF Decides, Holding
  <2>2. /\ Waiting # <<>> /\ Head(Waiting) = current /\ Tail(Waiting) = queue
        /\ Waiting' = queue
    BY <1>1, <2>1, WaitingShape, EventsAssumption DEF Waiting, InHand
  <2>3. Verdict(outcome) \in {"delivered", "dropped"}
    BY DEF Verdict, Outcomes
  <2>4. Verdicts' = [Verdicts EXCEPT ![Head(Waiting)] = Verdict(outcome)]
    BY <1>1, <2>1, <2>2, VerdictOne
  <2>5. Phase' = Phase
    BY <1>1, <2>1 DEF Phase
  <2>6. QED
    BY <2>2, <2>3, <2>4, <2>5, Mapping
<1>4. CASE Uncounts \/ Works
  BY <1>1, <1>4 DEF Uncounts, Works, Holding, Phase, Waiting, InHand, Verdicts
<1>5. CASE Leaves
  <2>1. /\ Phase = "closing" /\ Phase' = "finished"
        /\ UNCHANGED <<queue, current, fate>> /\ queue = <<>> /\ current = NoEvent
    BY <1>1, <1>5 DEF Leaves, Phase, WorkerInv, Holding
  <2>2. Waiting = <<>> /\ UNCHANGED <<Waiting, Verdicts>>
    BY <1>1, <2>1, WaitingShape DEF Waiting, InHand, Verdicts
  <2>3. QED
    BY <2>1, <2>2, Mapping
<1>6. QED
  BY <1>1, <1>2, <1>3, <1>4, <1>5, WorkerEffect

\* A step of Close maps to Shut or a stutter.
LEMMA MapClose ==
    ASSUME Inv, NEW c \in Closers, Closing(c)
    PROVE  Delivery!Next \/ UNCHANGED <<Phase, Waiting, Verdicts>>
<1>1. UNCHANGED <<Waiting, Verdicts, workerPc>>
  BY CloseFrame DEF Waiting, InHand, Verdicts
<1>2. CASE closed' = closed
  BY <1>1, <1>2 DEF Phase
<1>3. CASE closed' # closed
  <2>1. ~closed /\ closed'
    BY <1>3 DEF Closing, CloseCall, CloseStep, CloseShut, CloseAgain, CloseDrained,
       CloseGivesUp, CloseAborted
  <2>2. workerPc # "exited"
    BY <2>1 DEF Inv, WorkerInv
  <2>3. Phase = "open" /\ Phase' = "closing"
    BY <1>1, <2>1, <2>2 DEF Phase
  <2>4. QED
    BY <1>1, <2>3, Mapping
<1>4. QED
  BY <1>2, <1>3

\* Send, the channel, the worker and Close implement what EventDelivery promises.
THEOREM Implementation == Safety => ImplementsDelivery
<1>1. Init => Delivery!Init
  <2> SUFFICES ASSUME Init PROVE Delivery!Init
    OBVIOUS
  <2>1. Phase = "open" /\ Waiting = <<>>
    BY DEF Init, Phase, Waiting, InHand
  <2>2. Verdicts = [e \in Events |-> "none"]
    BY DEF Init, Verdicts, Verdict
  <2>3. QED
    BY <2>1, <2>2, Mapping
<1>2. Inv /\ Inv' /\ [Next]_vars => [Delivery!Next]_(Delivery!vars)
  <2> SUFFICES ASSUME Inv, Inv', [Next]_vars
               PROVE  Delivery!Next \/ UNCHANGED <<Phase, Waiting, Verdicts>>
    BY DEF Delivery!vars, Waiting, Verdicts
  <2>1. ASSUME NEW e \in Events, Sending(e)
        PROVE  Delivery!Next \/ UNCHANGED <<Phase, Waiting, Verdicts>>
    BY <2>1, MapSend
  <2>2. CASE WorkerStep
    BY <2>2, MapWorker DEF Inv
  <2>3. ASSUME NEW c \in Closers, Closing(c)
        PROVE  Delivery!Next \/ UNCHANGED <<Phase, Waiting, Verdicts>>
    BY <2>3, MapClose
  <2>4. CASE UNCHANGED <<fate, queue, closed, workerPc, current>>
    BY <2>4 DEF Phase, Waiting, InHand, Verdicts
  <2>5. QED
    BY <2>1, <2>2, <2>3, <2>4, FlushFrame, PauseFrame, IdleFrame, Steps
<1>3. QED
  BY <1>1, <1>2, Invariance, PTL DEF Safety, ImplementsDelivery, Delivery!Safety
=============================================================================
