----------------------------- MODULE TraceQueue ------------------------------
(***************************************************************************)
(* The delivery of transactions (src/tracing.go): a goroutine that         *)
(* finishes a transaction hands it to a bounded channel, which the first   *)
(* one makes together with the goroutine that posts them; Client.Close     *)
(* shuts the channel and waits a moment.  The pause is the transport's     *)
(* (see HttpTransport): here any 429 may start it, and time ends it.       *)
(***************************************************************************)
EXTENDS Integers, Sequences, FiniteSets

CONSTANTS
    Transactions,   \* each is handed over by a goroutine of its own
    NoTransaction,  \* the sender holds none
    Closers,        \* goroutines that call Client.Close
    QueueSize       \* transactionQueueSize

ASSUME TransactionsAssumption ==
    IsFiniteSet(Transactions) /\ NoTransaction \notin Transactions
ASSUME QueueSizeAssumption == QueueSize \in Nat \ {0}

VARIABLES
    sendPc,     \* where each sendTransaction stands
    fate,       \* what became of each transaction; "none" while undecided
    queue,      \* the channel's buffer
    started,    \* tracesOnce has run: the channel and its sender exist
    shut,       \* tracesClosed
    chanClosed, \* the channel is closed
    workerPc,   \* deliverTransactions
    current,    \* the transaction it has received
    closePc,    \* where each closeTraces stands
    paused,     \* transport.paused()
    full        \* clientStats.transactions

sendVars   == <<sendPc, fate>>
closeVars  == <<shut, chanClosed, closePc>>
workerVars == <<workerPc, current>>
vars == <<sendPc, fate, queue, started, shut, chanClosed, workerPc, current, closePc,
          paused, full>>

Fates == {"none", "closed", "full", "paused", "stored", "limited", "failed"}

Init ==
    /\ sendPc = [t \in Transactions |-> "idle"]
    /\ fate = [t \in Transactions |-> "none"]
    /\ queue = <<>> /\ started = FALSE /\ shut = FALSE /\ chanClosed = FALSE
    /\ workerPc = "none" /\ current = NoTransaction
    /\ closePc = [c \in Closers |-> "idle"]
    /\ paused = FALSE /\ full = 0

\* sendTransaction holds tracesMu for reading from its check to its return, and
\* a closeTraces that waits for the lock keeps new readers out.
Readers     == {t \in Transactions : sendPc[t] \in {"checked", "offering"}}
WriterWaits == \E c \in Closers : closePc[c] = "locking"

SendMoves(t, from, to) ==
    /\ sendPc[t] = from
    /\ sendPc' = [sendPc EXCEPT ![t] = to]
    /\ UNCHANGED <<closeVars, paused>>

CloseMoves(c, from, to) ==
    /\ closePc[c] = from
    /\ closePc' = [closePc EXCEPT ![c] = to]
    /\ UNCHANGED <<sendVars, queue, started, workerVars, paused, full>>

\* The sender's loop; what it decides about the transaction in hand.
Decides(from, why) ==
    /\ workerPc = from /\ workerPc' = "receiving"
    /\ fate' = [fate EXCEPT ![current] = why]
    /\ current' = NoTransaction
    /\ UNCHANGED <<sendPc, queue, started, closeVars, full>>

-----------------------------------------------------------------------------
(* Slips, each of which takes the place of the action it is named after.    *)

\* The channel grows instead of being full.
Offer_Unbounded(t) ==
    /\ SendMoves(t, "offering", "returned")
    /\ queue' = Append(queue, t)
    /\ UNCHANGED <<fate, started, workerVars, full>>

\* The channel is made without the once: goroutines that meet make one each, and
\* the sender reads the last.
AlreadyStarted_Again(t) ==
    /\ started
    /\ SendMoves(t, "checked", "offering")
    /\ queue' = <<>>
    /\ UNCHANGED <<fate, started, workerVars, full>>

\* tracesClosed is set without the write lock.
CloseShut_LockFree(c) ==
    /\ ~shut /\ started
    /\ CloseMoves(c, "locking", "closing")
    /\ shut' = TRUE
    /\ UNCHANGED chanClosed

\* A pause makes the sender wait.
DropPaused_Waits == workerPc = "received" /\ paused /\ UNCHANGED vars

-----------------------------------------------------------------------------
(* sendTransaction(payload).                                                *)

SendCall(t) ==
    /\ SendMoves(t, "idle", "called")
    /\ UNCHANGED <<fate, queue, started, workerVars, full>>

SendClosed(t) ==
    /\ ~WriterWaits /\ shut
    /\ SendMoves(t, "called", "returned")
    /\ fate' = [fate EXCEPT ![t] = "closed"]
    /\ UNCHANGED <<queue, started, workerVars, full>>

SendOpen(t) ==
    /\ ~WriterWaits /\ ~shut
    /\ SendMoves(t, "called", "checked")
    /\ UNCHANGED <<fate, queue, started, workerVars, full>>

\* tracesOnce.Do: one caller makes the channel and its sender, the others wait.
Start(t) ==
    /\ ~started
    /\ SendMoves(t, "checked", "offering")
    /\ started' = TRUE /\ workerPc' = "receiving"
    /\ UNCHANGED <<fate, queue, current, full>>

AlreadyStarted(t) ==
    /\ started
    /\ SendMoves(t, "checked", "offering")
    /\ UNCHANGED <<fate, queue, started, workerVars, full>>

Offer(t) ==
    /\ Len(queue) < QueueSize
    /\ SendMoves(t, "offering", "returned")
    /\ queue' = Append(queue, t)
    /\ UNCHANGED <<fate, started, workerVars, full>>

OfferFull(t) ==
    /\ Len(queue) = QueueSize
    /\ SendMoves(t, "offering", "returned")
    /\ fate' = [fate EXCEPT ![t] = "full"]
    /\ full' = full + 1
    /\ UNCHANGED <<queue, started, workerVars>>

SendStep(t) == SendOpen(t) \/ SendClosed(t) \/ Start(t) \/ AlreadyStarted(t)
               \/ Offer(t) \/ OfferFull(t)

-----------------------------------------------------------------------------
(* deliverTransactions and postTransaction.                                 *)

Receive ==
    /\ queue # <<>> /\ workerPc = "receiving"
    /\ workerPc' = "received"
    /\ current' = Head(queue) /\ queue' = Tail(queue)
    /\ UNCHANGED <<sendVars, started, closeVars, paused, full>>

DropPaused == paused /\ Decides("received", "paused") /\ UNCHANGED paused

BeginPost ==
    /\ ~paused
    /\ workerPc = "received" /\ workerPc' = "posting"
    /\ UNCHANGED <<sendVars, queue, started, current, closeVars, paused, full>>

\* Answered, refused, failed or timed out: there is no second attempt.
Posted      == Decides("posting", "stored") /\ UNCHANGED paused
PostFails   == Decides("posting", "failed") /\ UNCHANGED paused
PostLimited == Decides("posting", "limited") /\ paused' \in BOOLEAN

\* The channel is closed and drained: the deferred close(c.tracesDone).
Exit ==
    /\ chanClosed /\ queue = <<>>
    /\ workerPc = "receiving" /\ workerPc' = "exited"
    /\ UNCHANGED <<sendVars, queue, started, current, closeVars, paused, full>>

WorkerStep == Receive \/ DropPaused \/ BeginPost \/ Posted \/ PostFails \/ PostLimited
              \/ Exit

-----------------------------------------------------------------------------
(* closeTraces.                                                             *)

CloseCall(c) == CloseMoves(c, "idle", "locking") /\ UNCHANGED <<shut, chanClosed>>

CloseAgain(c) ==
    /\ Readers = {} /\ shut
    /\ CloseMoves(c, "locking", "returned") /\ UNCHANGED <<shut, chanClosed>>

\* No transaction was ever finished: there is no channel, and will be none.
CloseUnused(c) ==
    /\ Readers = {} /\ ~shut /\ ~started
    /\ CloseMoves(c, "locking", "returned")
    /\ shut' = TRUE /\ UNCHANGED chanClosed

\* Shut under the lock ...
CloseShut(c) ==
    /\ Readers = {} /\ ~shut /\ started
    /\ CloseMoves(c, "locking", "closing")
    /\ shut' = TRUE /\ UNCHANGED chanClosed

\* ... and close the channel after it: no sender is left in between.
CloseChannel(c) ==
    /\ CloseMoves(c, "closing", "waiting")
    /\ chanClosed' = TRUE /\ UNCHANGED shut

CloseDrained(c) ==
    /\ workerPc = "exited"
    /\ CloseMoves(c, "waiting", "drained") /\ UNCHANGED <<shut, chanClosed>>

\* ShutdownTimeout is over; nobody tells the sender.
CloseGivesUp(c) == CloseMoves(c, "waiting", "gaveUp") /\ UNCHANGED <<shut, chanClosed>>

CloseStep(c) == CloseAgain(c) \/ CloseUnused(c) \/ CloseShut(c) \/ CloseChannel(c)
                \/ CloseDrained(c) \/ CloseGivesUp(c)

-----------------------------------------------------------------------------
\* Another request is answered 429, or a pause ends.
Pause == /\ paused' = ~paused
         /\ UNCHANGED <<sendVars, queue, started, closeVars, workerVars, full>>

Next == \/ \E t \in Transactions : SendCall(t) \/ SendStep(t)
        \/ WorkerStep
        \/ \E c \in Closers : CloseCall(c) \/ CloseStep(c)
        \/ Pause

Safety == Init /\ [][Next]_vars

\* The goroutines run, and a request has a time limit.
Fairness == /\ \A t \in Transactions : WF_vars(SendStep(t))
            /\ \A c \in Closers : WF_vars(CloseStep(c))
            /\ WF_vars(WorkerStep)

Spec == Safety /\ Fairness

-----------------------------------------------------------------------------
(* What holds.                                                              *)

\* Types; the channel never holds more than its capacity.
TypeOK ==
    /\ sendPc \in [Transactions -> {"idle", "called", "checked", "offering", "returned"}]
    /\ fate \in [Transactions -> Fates]
    /\ queue \in Seq(Transactions) /\ Len(queue) <= QueueSize
    /\ started \in BOOLEAN /\ shut \in BOOLEAN /\ chanClosed \in BOOLEAN
    /\ workerPc \in {"none", "receiving", "received", "posting", "exited"}
    /\ current \in Transactions \cup {NoTransaction}
    /\ closePc \in [Closers -> {"idle", "locking", "closing", "waiting", "drained",
                                "gaveUp", "returned"}]
    /\ paused \in BOOLEAN /\ full = Cardinality({t \in Transactions : fate[t] = "full"})

\* closeTraces closes the channel after it has given the lock back, and still
\* nobody is writing to it or about to: a write to a closed channel panics in the
\* goroutine that finishes a transaction.
OpenWhileOffering == TypeOK /\ (chanClosed => Readers = {})

\* What the application is promised is what it is for events (EventDelivery).
Hand == IF current = NoTransaction THEN <<>> ELSE <<current>>
Verdict(why) == CASE why = "none"   -> "none"
                  [] why = "stored" -> "delivered"
                  [] OTHER          -> "dropped"
Phase == IF ~shut THEN "open" ELSE IF workerPc = "exited" THEN "finished" ELSE "closing"

Delivery == INSTANCE EventDelivery WITH
                Events  <- Transactions,
                phase   <- Phase,
                waiting <- Hand \o queue,
                verdict <- [t \in Transactions |-> Verdict(fate[t])]

\* The lazily made channel, its sender and closeTraces implement EventDelivery: the
\* once does not lose a transaction, each is in one place, decided once and in order,
\* and a Close that was in time leaves nothing behind and has nothing come after it.
\* And what was taken is decided in the end, also after a Close that gave up.
ImplementsDelivery == Delivery!Spec
=============================================================================
