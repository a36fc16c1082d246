--------------------------- MODULE TracingProofs -----------------------------
(***************************************************************************)
(* Tracing keeps its promises: the delivery of transactions for any number *)
(* of transactions and Closes and any capacity, and the building of each   *)
(* for any number of children, of goroutines that finish them and any      *)
(* bound.                                                                  *)
(***************************************************************************)
EXTENDS TraceQueue, Spans, DataLemmas

-----------------------------------------------------------------------------
(* The inductive invariant.                                                 *)

Holding == workerPc \in {"received", "posting"}

\* The sender runs from the first transaction until the channel is closed and drained.
Worker ==
    /\ workerPc = "none" <=> ~started
    /\ Holding <=> current # NoTransaction
    /\ workerPc = "exited" => chanClosed /\ queue = <<>>
    /\ ~started => queue = <<>>
    /\ \A t \in Transactions : sendPc[t] = "offering" => started

\* Once shut, no transaction is on its way to the channel.
ShutFirst ==
    /\ chanClosed => shut
    /\ shut => Readers = {}
    /\ \A c \in Closers : closePc[c] \in {"closing", "waiting"} => shut /\ started

\* A transaction is queued, in hand or decided, never two of these.
OnePlace ==
    /\ Injective(queue)
    /\ current \notin Elements(queue)
    /\ \A t \in Transactions :
          /\ fate[t] # "none" => t \notin Elements(queue) /\ t # current
          /\ sendPc[t] # "returned" => /\ fate[t] = "none" /\ t # current
                                       /\ t \notin Elements(queue)

IInv == TypeOK /\ Worker /\ ShutFirst /\ OnePlace

LEMMA InitIInv == Init => IInv
<1> SUFFICES ASSUME Init PROVE IInv
    OBVIOUS
<1> USE TransactionsAssumption, QueueSizeAssumption DEF Init
<1>1. TypeOK
    <2>1. {t \in Transactions : fate[t] = "full"} = {}
        OBVIOUS
    <2>2. full = Cardinality({t \in Transactions : fate[t] = "full"})
        BY <2>1, FS_EmptySet
    <2>3. queue \in Seq(Transactions) /\ Len(queue) <= QueueSize
        OBVIOUS
    <2> QED
        BY <2>2, <2>3 DEF TypeOK, Fates
<1>2. Worker /\ ShutFirst
    BY DEF Worker, Holding, ShutFirst
<1>3. Elements(queue) = {} /\ OnePlace
    BY DEF Elements, Injective, OnePlace
<1> QED
    BY <1>1, <1>2, <1>3 DEF IInv

\* Counting the transactions refused for want of room.
Fulls == {u \in Transactions : fate[u] = "full"}

LEMMA FullsCounted == IInv => IsFiniteSet(Fulls) /\ Cardinality(Fulls) = full /\ full \in Nat
<1>1. IsFiniteSet(Fulls)
    BY FS_Subset, TransactionsAssumption DEF Fulls
<1> QED
    BY <1>1, FS_CardinalityType DEF IInv, TypeOK, Fulls

-----------------------------------------------------------------------------
(* What each goroutine may do.                                              *)

Sending(t) == SendCall(t) \/ SendStep(t)
Closing(c) == CloseCall(c) \/ CloseStep(c)

\* A transaction on its way moves on, is queued, or is refused.
SendPlain(t) ==
    /\ sendPc[t] \in {"idle", "called", "checked"}
    /\ \E to \in {"called", "checked", "offering"} :
          /\ sendPc' = [sendPc EXCEPT ![t] = to]
          /\ (to # "called" => ~shut) /\ (to = "offering" => started')
    /\ \/ UNCHANGED <<started, workerPc>>
       \/ ~started /\ started' /\ workerPc' = "receiving"
    /\ UNCHANGED <<fate, queue, current, full>>

SendQueues(t) ==
    /\ sendPc[t] = "offering" /\ sendPc' = [sendPc EXCEPT ![t] = "returned"]
    /\ Len(queue) < QueueSize /\ queue' = Append(queue, t)
    /\ UNCHANGED <<fate, started, workerVars, full>>

SendRefused(t, why) ==
    /\ sendPc[t] # "returned" /\ sendPc' = [sendPc EXCEPT ![t] = "returned"]
    /\ fate' = [fate EXCEPT ![t] = why]
    /\ full' = full + (IF why = "full" THEN 1 ELSE 0)
    /\ UNCHANGED <<queue, started, workerVars>>

Goes(t) == \/ SendPlain(t) \/ SendQueues(t) \/ \E why \in {"closed", "full"} : SendRefused(t, why)

LEMMA SendEffect ==
    ASSUME IInv, NEW t \in Transactions, Sending(t)
    PROVE  Goes(t) /\ UNCHANGED <<closeVars, paused>>
<1>1. UNCHANGED <<closeVars, paused>>
    BY DEF Sending, SendCall, SendStep, SendOpen, SendClosed, Start, AlreadyStarted, Offer,
           OfferFull, SendMoves
<1>2. CASE SendCall(t) \/ SendOpen(t)
    BY <1>2 DEF SendCall, SendOpen, SendMoves, Goes, SendPlain, workerVars
<1>3. CASE Start(t) \/ AlreadyStarted(t)
    <2>1. sendPc[t] = "checked" /\ ~shut
        BY <1>3 DEF Start, AlreadyStarted, SendMoves, IInv, ShutFirst, Readers
    <2> QED
        BY <1>3, <2>1 DEF Start, AlreadyStarted, SendMoves, Goes, SendPlain, workerVars
<1>4. CASE SendClosed(t)
    <2>1. full' = full + 0
        BY <1>4, FullsCounted DEF SendClosed
    <2>2. SendRefused(t, "closed")
        BY <1>4, <2>1 DEF SendClosed, SendMoves, SendRefused, workerVars, IInv, TypeOK
    <2> QED
        BY <1>1, <2>2 DEF Goes
<1>5. CASE Offer(t)
    BY <1>1, <1>5 DEF Offer, SendMoves, Goes, SendQueues
<1>6. CASE OfferFull(t)
    <2>1. SendRefused(t, "full")
        BY <1>6 DEF OfferFull, SendMoves, SendRefused
    <2> QED
        BY <1>1, <2>1 DEF Goes
<1> QED
    BY <1>2, <1>3, <1>4, <1>5, <1>6 DEF Sending, SendStep

\* The sender takes the oldest, decides what it holds, or leaves.
Posting == {"paused", "stored", "failed", "limited"}

Leaves == /\ chanClosed /\ queue = <<>> /\ workerPc = "receiving" /\ workerPc' = "exited"
          /\ UNCHANGED <<sendVars, queue, started, current, closeVars, full>>

LEMMA WorkerEffect ==
    ASSUME WorkerStep
    PROVE  Receive \/ BeginPost \/ Leaves
           \/ \E why \in Posting : \E from \in {"received", "posting"} : Decides(from, why)
BY DEF WorkerStep, DropPaused, Posted, PostFails, PostLimited, Exit, Leaves, Posting

\* closeTraces shuts, closes the channel, and touches nothing else.
Closes(c) ==
    /\ \E to \in {"locking", "closing", "waiting", "drained", "gaveUp", "returned"} :
          /\ closePc' = [closePc EXCEPT ![c] = to]
          /\ to = "closing" => shut' /\ started
          /\ to = "waiting" => closePc[c] = "closing"
    /\ \/ UNCHANGED <<shut, chanClosed>>
       \/ shut' = TRUE /\ ~shut /\ Readers = {} /\ UNCHANGED chanClosed
       \/ closePc[c] = "closing" /\ chanClosed' = TRUE /\ UNCHANGED shut
    /\ UNCHANGED <<sendVars, queue, started, workerVars, paused, full>>

LEMMA CloseEffect == ASSUME NEW c \in Closers, Closing(c) PROVE Closes(c)
BY DEF Closing, CloseCall, CloseStep, CloseAgain, CloseUnused, CloseShut, CloseChannel,
       CloseDrained, CloseGivesUp, CloseMoves, Closes

-----------------------------------------------------------------------------
(* Every step preserves the invariant.                                      *)

LEMMA PlainStep ==
    ASSUME IInv, NEW t \in Transactions, SendPlain(t), UNCHANGED <<closeVars, paused>>
    PROVE  IInv'
<1>1. PICK to \in {"called", "checked", "offering"} :
         /\ sendPc' = [sendPc EXCEPT ![t] = to]
         /\ (to # "called" => ~shut) /\ (to = "offering" => started')
    BY DEF SendPlain
<1>2. /\ sendPc[t] # "returned" /\ sendPc'[t] = to
      /\ \A u \in Transactions \ {t} : sendPc'[u] = sendPc[u]
    BY <1>1 DEF IInv, TypeOK, SendPlain
<1>3. UNCHANGED <<fate, queue, current, full, shut, chanClosed, closePc>>
    BY DEF SendPlain, closeVars
<1>4. TypeOK'
    BY <1>1, <1>3 DEF IInv, TypeOK, SendPlain
<1>5. Worker'
    <2>1. sendPc'[t] = "offering" => started'
        BY <1>1, <1>2
    <2> QED
        BY <1>2, <1>3, <2>1 DEF IInv, TypeOK, Worker, Holding, SendPlain
<1>6. ShutFirst'
    BY <1>2, <1>3 DEF IInv, ShutFirst, Readers, SendPlain
<1>7. OnePlace'
    BY <1>2, <1>3 DEF IInv, OnePlace
<1> QED
    BY <1>4, <1>5, <1>6, <1>7 DEF IInv

LEMMA QueuesStep ==
    ASSUME IInv, NEW t \in Transactions, SendQueues(t), UNCHANGED <<closeVars, paused>>
    PROVE  IInv'
<1>1. /\ sendPc[t] = "offering" /\ sendPc'[t] = "returned"
      /\ \A u \in Transactions \ {t} : sendPc'[u] = sendPc[u]
      /\ sendPc' \in [Transactions -> {"idle", "called", "checked", "offering", "returned"}]
    BY DEF IInv, TypeOK, SendQueues
<1>2. UNCHANGED <<fate, started, workerPc, current, full, shut, chanClosed, closePc>>
    BY DEF SendQueues, workerVars, closeVars
<1>3. queue \in Seq(Transactions) /\ t \notin Elements(queue) /\ Injective(queue)
    BY <1>1 DEF IInv, TypeOK, OnePlace
<1>4. /\ queue' \in Seq(Transactions) /\ Len(queue') <= QueueSize
      /\ Injective(queue') /\ Elements(queue') = Elements(queue) \cup {t}
    <2>1. queue' = Append(queue, t) /\ Len(queue) < QueueSize
        BY DEF SendQueues
    <2>2. queue' \in Seq(Transactions) /\ Len(queue') = Len(queue) + 1 /\ Len(queue) \in Nat
        BY <1>3, <2>1
    <2>3. Len(queue') <= QueueSize
        BY <2>1, <2>2, QueueSizeAssumption
    <2> QED
        BY <1>3, <2>1, <2>2, <2>3, AppendNew
<1>5. TypeOK'
    BY <1>1, <1>2, <1>4 DEF IInv, TypeOK
<1>6. Worker'
    <2>1. started /\ ~chanClosed
        BY <1>1 DEF IInv, Worker, ShutFirst, Readers
    <2> QED
        BY <1>1, <1>2, <2>1 DEF IInv, Worker, Holding
<1>7. ShutFirst'
    BY <1>1, <1>2 DEF IInv, ShutFirst, Readers
<1>8. OnePlace'
    BY <1>1, <1>2, <1>4 DEF IInv, OnePlace
<1> QED
    BY <1>5, <1>6, <1>7, <1>8 DEF IInv

LEMMA FullsStep ==
    ASSUME IInv, NEW t \in Transactions, fate[t] = "none",
           NEW why \in Fates \ {"none"}, fate' = [fate EXCEPT ![t] = why]
    PROVE  Cardinality(Fulls') = full + (IF why = "full" THEN 1 ELSE 0)
<1>1. IsFiniteSet(Fulls) /\ t \notin Fulls
    BY FullsCounted DEF Fulls
<1>2. Cardinality(Fulls) = full /\ full \in Nat
    BY FullsCounted
<1>3. Fulls' = IF why = "full" THEN Fulls \cup {t} ELSE Fulls
    BY DEF IInv, TypeOK, Fulls
<1>4. Cardinality(Fulls \cup {t}) = full + 1
    BY <1>1, <1>2, FS_AddElement
<1> QED
    BY <1>2, <1>3, <1>4

LEMMA RefusedStep ==
    ASSUME IInv, NEW t \in Transactions, NEW why \in {"closed", "full"}, SendRefused(t, why),
           UNCHANGED <<closeVars, paused>>
    PROVE  IInv'
<1>1. /\ sendPc[t] # "returned" /\ sendPc'[t] = "returned"
      /\ \A u \in Transactions \ {t} : sendPc'[u] = sendPc[u]
      /\ sendPc' \in [Transactions -> {"idle", "called", "checked", "offering", "returned"}]
    BY DEF IInv, TypeOK, SendRefused
<1>2. UNCHANGED <<queue, started, workerPc, current, shut, chanClosed, closePc>>
    BY DEF SendRefused, workerVars, closeVars
<1>3. fate[t] = "none" /\ t # current /\ t \notin Elements(queue)
    BY <1>1 DEF IInv, OnePlace
<1>4. /\ fate' \in [Transactions -> Fates] /\ fate'[t] = why
      /\ \A u \in Transactions \ {t} : fate'[u] = fate[u]
    BY DEF IInv, TypeOK, Fates, SendRefused
<1>5. full' = Cardinality(Fulls')
    <2>1. why \in Fates \ {"none"}
        BY DEF Fates
    <2> QED
        BY <1>3, <2>1, FullsStep DEF SendRefused
<1>6. TypeOK'
    BY <1>1, <1>2, <1>4, <1>5 DEF IInv, TypeOK, Fulls
<1>7. Worker' /\ ShutFirst'
    BY <1>1, <1>2 DEF IInv, Worker, Holding, ShutFirst, Readers
<1>8. OnePlace'
    BY <1>1, <1>2, <1>3, <1>4 DEF IInv, OnePlace
<1> QED
    BY <1>6, <1>7, <1>8 DEF IInv

LEMMA ReceiveStep == ASSUME IInv, Receive PROVE IInv'
<1> USE DEF Receive, sendVars, closeVars
<1>1. current = NoTransaction /\ queue \in Seq(Transactions) /\ Injective(queue)
    BY DEF IInv, TypeOK, Worker, Holding, OnePlace
<1>2. /\ queue' \in Seq(Transactions) /\ Len(queue') <= QueueSize /\ Injective(queue')
      /\ current' \in Elements(queue) /\ Elements(queue') = Elements(queue) \ {current'}
      /\ current' \in Transactions
    <2>1. /\ Len(queue) \in Nat /\ Len(queue) <= QueueSize
          /\ queue' \in Seq(Transactions) /\ Len(queue') = Len(queue) - 1
          /\ current' \in Transactions
        BY <1>1 DEF IInv, TypeOK
    <2>2. Len(queue') <= QueueSize
        BY <2>1, QueueSizeAssumption
    <2> QED
        BY <1>1, <2>1, <2>2, TakeHead
<1>3. TypeOK'
    BY <1>2 DEF IInv, TypeOK
<1>4. Worker' /\ ShutFirst'
    BY <1>2, TransactionsAssumption DEF IInv, Worker, Holding, ShutFirst, Readers
<1>5. OnePlace'
    BY <1>2 DEF IInv, OnePlace
<1> QED
    BY <1>3, <1>4, <1>5 DEF IInv

LEMMA DecideStep ==
    ASSUME IInv, NEW why \in Posting, NEW from \in {"received", "posting"}, Decides(from, why),
           paused' \in BOOLEAN
    PROVE  IInv'
<1> USE DEF Decides, closeVars
<1>1. current \in Transactions /\ fate[current] = "none" /\ current' = NoTransaction
    BY DEF IInv, TypeOK, Worker, Holding, OnePlace
<1>2. why \in Fates \ {"none"} /\ why # "full"
    BY DEF Posting, Fates
<1>3. /\ fate' \in [Transactions -> Fates] /\ fate'[current] = why
      /\ \A u \in Transactions \ {current} : fate'[u] = fate[u]
    BY <1>1, <1>2 DEF IInv, TypeOK
<1>4. full' = Cardinality(Fulls')
    <2>1. full \in Nat
        BY FullsCounted
    <2>2. Cardinality(Fulls') = full + 0
        BY <1>1, <1>2, FullsStep
    <2> QED
        BY <2>1, <2>2
<1>5. TypeOK'
    BY <1>1, <1>3, <1>4 DEF IInv, TypeOK, Fulls
<1>6. Worker' /\ ShutFirst'
    BY <1>1, TransactionsAssumption DEF IInv, Worker, Holding, ShutFirst, Readers
<1>7. OnePlace'
    <2>1. /\ UNCHANGED <<queue, sendPc>> /\ NoTransaction \notin Elements(queue)
          /\ NoTransaction \notin Transactions
        BY TransactionsAssumption DEF IInv, TypeOK, Elements
    <2> QED
        BY <1>1, <1>3, <2>1 DEF IInv, OnePlace
<1> QED
    BY <1>5, <1>6, <1>7 DEF IInv

LEMMA WorkerNext == ASSUME IInv, WorkerStep PROVE IInv'
<1>1. CASE BeginPost
    BY <1>1 DEF BeginPost, sendVars, closeVars, IInv, TypeOK, Worker, Holding, ShutFirst, Readers,
                OnePlace
<1>2. CASE Leaves
    <2>1. UNCHANGED paused \/ paused' \in BOOLEAN
        BY DEF WorkerStep, Receive, DropPaused, BeginPost, Posted, PostFails, PostLimited, Exit
    <2> QED
        BY <1>2, <2>1 DEF Leaves, sendVars, closeVars, IInv, TypeOK, Worker, Holding, ShutFirst,
                          Readers, OnePlace
<1>3. ASSUME NEW why \in Posting, NEW from \in {"received", "posting"}, Decides(from, why)
      PROVE  IInv'
    <2>1. paused' \in BOOLEAN
        BY DEF IInv, TypeOK, WorkerStep, Receive, DropPaused, BeginPost, Posted, PostFails,
               PostLimited, Exit
    <2> QED
        BY <1>3, <2>1, DecideStep
<1> QED
    BY <1>1, <1>2, <1>3, ReceiveStep, WorkerEffect

LEMMA CloseNext == ASSUME IInv, NEW c \in Closers, Closes(c) PROVE IInv'
<1>1. PICK to \in {"locking", "closing", "waiting", "drained", "gaveUp", "returned"} :
         /\ closePc' = [closePc EXCEPT ![c] = to]
         /\ to = "closing" => shut' /\ started
         /\ to = "waiting" => closePc[c] = "closing"
    BY DEF Closes
<1>2. closePc'[c] = to /\ \A d \in Closers \ {c} : closePc'[d] = closePc[d]
    BY <1>1 DEF IInv, TypeOK
<1>3. UNCHANGED <<sendPc, fate, queue, started, workerPc, current, paused, full>>
    BY DEF Closes, sendVars, workerVars
<1>4. /\ shut' \in BOOLEAN /\ chanClosed' \in BOOLEAN
      /\ (shut => shut') /\ (chanClosed => chanClosed') /\ (chanClosed' => shut')
      /\ shut' => Readers = {}
    <2>1. /\ shut \in BOOLEAN /\ chanClosed \in BOOLEAN /\ (chanClosed => shut)
          /\ shut => Readers = {}
          /\ closePc[c] = "closing" => shut
        BY DEF IInv, TypeOK, ShutFirst
    <2>2. CASE UNCHANGED <<shut, chanClosed>>
        BY <2>1, <2>2
    <2>3. CASE shut' = TRUE /\ Readers = {} /\ UNCHANGED chanClosed
        BY <2>1, <2>3
    <2>4. CASE closePc[c] = "closing" /\ chanClosed' = TRUE /\ UNCHANGED shut
        BY <2>1, <2>4
    <2> QED
        BY <2>2, <2>3, <2>4 DEF Closes
<1>5. TypeOK'
    BY <1>1, <1>3, <1>4 DEF IInv, TypeOK
<1>6. Worker'
    BY <1>3, <1>4 DEF IInv, Worker, Holding
<1>7. OnePlace'
    BY <1>3 DEF IInv, OnePlace
<1>8. ShutFirst'
    <2>1. Readers' = Readers
        BY <1>3 DEF Readers
    <2>2. ASSUME NEW d \in Closers, closePc'[d] \in {"closing", "waiting"} PROVE shut' /\ started
        <3>1. CASE d = c
            BY <1>1, <1>2, <1>4, <2>2, <3>1 DEF IInv, ShutFirst
        <3>2. CASE d # c
            BY <1>2, <1>4, <2>2, <3>2 DEF IInv, ShutFirst
        <3> QED
            BY <3>1, <3>2
    <2>3. \A d \in Closers : closePc'[d] \in {"closing", "waiting"} => shut' /\ started'
        BY <1>3, <2>2
    <2>4. (chanClosed' => shut') /\ (shut' => Readers' = {})
        BY <1>4, <2>1
    <2> QED
        BY <2>3, <2>4 DEF ShutFirst
<1> QED
    BY <1>5, <1>6, <1>7, <1>8 DEF IInv

\* A step is one of a goroutine's, or touches no more than the pause.
LEMMA Steps ==
    ASSUME [Next]_vars
    PROVE  \/ \E t \in Transactions : Sending(t)
           \/ WorkerStep
           \/ \E c \in Closers : Closing(c)
           \/ /\ UNCHANGED <<sendVars, queue, started, closeVars, workerVars, full>>
              /\ paused' \in {paused, ~paused}
BY DEF Next, vars, Pause, Sending, Closing, sendVars, closeVars, workerVars

LEMMA StepIInv == IInv /\ [Next]_vars => IInv'
<1> SUFFICES ASSUME IInv, [Next]_vars PROVE IInv'
    OBVIOUS
<1>1. ASSUME NEW t \in Transactions, Sending(t) PROVE IInv'
    BY <1>1, SendEffect, PlainStep, QueuesStep, RefusedStep DEF Goes
<1>2. ASSUME NEW c \in Closers, Closing(c) PROVE IInv'
    BY <1>2, CloseEffect, CloseNext
<1>3. CASE UNCHANGED <<sendVars, queue, started, closeVars, workerVars, full>>
           /\ paused' \in {paused, ~paused}
    BY <1>3 DEF sendVars, closeVars, workerVars, IInv, TypeOK, Worker, Holding, ShutFirst,
                Readers, OnePlace
<1> QED
    BY <1>1, <1>2, <1>3, WorkerNext, Steps

LEMMA Inductive == Safety => []IInv
BY InitIInv, StepIInv, PTL DEF Safety

\* The channel is closed after the lock is given back, and nobody writes to it any
\* more: however many goroutines finish transactions and close the client.
THEOREM NoWriteAfterClose == Spec => []OpenWhileOffering
<1>1. IInv => OpenWhileOffering
    BY DEF IInv, ShutFirst, OpenWhileOffering
<1> QED
    BY <1>1, Inductive, PTL DEF Spec

-----------------------------------------------------------------------------
(* The delivery implements EventDelivery.                                   *)

Waiting  == Hand \o queue
Verdicts == [t \in Transactions |-> Verdict(fate[t])]

\* The abstract specification in these names.
LEMMA Mapping ==
    /\ Delivery!Init <=> /\ Phase = "open" /\ Waiting = <<>>
                         /\ Verdicts = [t \in Transactions |-> "none"]
    /\ Delivery!Next <=>
         \/ \E t \in Transactions :
               /\ Verdicts[t] = "none" /\ \A i \in 1..Len(Waiting) : Waiting[i] # t
               /\ \/ /\ Phase = "open" /\ Waiting' = Append(Waiting, t)
                     /\ UNCHANGED <<Phase, Verdicts>>
                  \/ /\ Verdicts' = [Verdicts EXCEPT ![t] = "dropped"]
                     /\ UNCHANGED <<Phase, Waiting>>
         \/ \E v \in {"delivered", "dropped"} :
               /\ Waiting # <<>>
               /\ Verdicts' = [Verdicts EXCEPT ![Head(Waiting)] = v]
               /\ Waiting' = Tail(Waiting) /\ UNCHANGED Phase
         \/ /\ Phase = "open" /\ Phase' = "closing" /\ UNCHANGED <<Waiting, Verdicts>>
         \/ /\ Phase = "closing" /\ Waiting = <<>> /\ Phase' = "finished"
            /\ UNCHANGED <<Waiting, Verdicts>>
BY DEF Delivery!Init, Delivery!Next, Delivery!Accept, Delivery!Refuse, Delivery!Decide,
       Delivery!Shut, Delivery!Finish, Delivery!Undecided, Waiting, Verdicts

\* What waits is the transaction in hand, if there is one, and then the queue.
LEMMA WaitingShape ==
    ASSUME IInv
    PROVE  /\ current = NoTransaction => Waiting = queue
           /\ current # NoTransaction => /\ Waiting # <<>> /\ Head(Waiting) = current
                                         /\ Tail(Waiting) = queue
                                         /\ Elements(Waiting) = Elements(queue) \cup {current}
<1>1. queue \in Seq(Transactions) /\ current \in Transactions \cup {NoTransaction}
    BY DEF IInv, TypeOK
<1>2. CASE current = NoTransaction
    <2>1. Waiting = <<>> \o queue
        BY <1>2 DEF Waiting, Hand
    <2> QED
        BY <1>1, <1>2, <2>1
<1>3. CASE current # NoTransaction
    <2>1. Waiting = <<current>> \o queue
        BY <1>3 DEF Waiting, Hand
    <2> QED
        BY <1>1, <1>3, <2>1, HeldFirst
<1> QED
    BY <1>2, <1>3

\* Deciding one transaction changes its verdict and no other.
LEMMA VerdictOne ==
    ASSUME DOMAIN fate = Transactions, NEW t \in Transactions, NEW why,
           fate' = [fate EXCEPT ![t] = why]
    PROVE  Verdicts' = [Verdicts EXCEPT ![t] = Verdict(why)]
BY DEF Verdicts

\* A transaction whose goroutine has not come back is undecided and waits nowhere.
LEMMA NotWaiting ==
    ASSUME IInv, NEW t \in Transactions, sendPc[t] # "returned"
    PROVE  Verdicts[t] = "none" /\ \A i \in 1..Len(Waiting) : Waiting[i] # t
<1>1. fate[t] = "none" /\ t # current /\ t \notin Elements(queue)
    BY DEF IInv, OnePlace
<1>2. t \notin Elements(Waiting)
    BY <1>1, WaitingShape
<1> QED
    BY <1>1, <1>2 DEF Verdicts, Verdict, Elements

\* A step of sendTransaction maps to Accept, Refuse or a stutter.
LEMMA MapSend ==
    ASSUME IInv, NEW t \in Transactions, Sending(t)
    PROVE  Delivery!Next \/ UNCHANGED <<Phase, Waiting, Verdicts>>
<1>1. /\ Goes(t) /\ UNCHANGED shut /\ DOMAIN fate = Transactions
      /\ queue \in Seq(Transactions) /\ Hand \in Seq(Transactions)
    BY SendEffect DEF closeVars, IInv, TypeOK, Hand
<1>2. CASE SendPlain(t)
    <2>1. /\ UNCHANGED <<fate, queue, current>>
          /\ UNCHANGED workerPc \/ (workerPc # "exited" /\ workerPc' # "exited")
        BY <1>2 DEF SendPlain, IInv, Worker
    <2> QED
        BY <1>1, <2>1 DEF Phase, Waiting, Hand, Verdicts
<1>3. CASE SendQueues(t)
    <2>1. sendPc[t] = "offering" /\ queue' = Append(queue, t)
          /\ UNCHANGED <<fate, workerPc, current>>
        BY <1>3 DEF SendQueues, workerVars
    <2>2. Phase = "open"
        BY <2>1 DEF IInv, ShutFirst, Readers, Phase
    <2>3. Waiting' = Append(Waiting, t) /\ Verdicts' = Verdicts /\ Phase' = Phase
        BY <1>1, <2>1 DEF Waiting, Hand, Verdicts, Phase
    <2> QED
        BY <2>1, <2>2, <2>3, NotWaiting, Mapping
<1>4. ASSUME NEW why \in {"closed", "full"}, SendRefused(t, why) PROVE Delivery!Next
    <2>1. sendPc[t] # "returned" /\ fate' = [fate EXCEPT ![t] = why]
          /\ UNCHANGED <<queue, workerPc, current>>
        BY <1>4 DEF SendRefused, workerVars
    <2>2. Verdict(why) = "dropped"
        BY DEF Verdict
    <2>3. Verdicts' = [Verdicts EXCEPT ![t] = "dropped"]
        BY <1>1, <2>1, <2>2, VerdictOne
    <2>4. UNCHANGED <<Waiting, Phase>>
        BY <1>1, <2>1 DEF Waiting, Hand, Phase
    <2> QED
        BY <2>1, <2>3, <2>4, NotWaiting, Mapping
<1> QED
    BY <1>1, <1>2, <1>3, <1>4 DEF Goes

\* A step of the sender maps to Decide, Finish or a stutter.
LEMMA MapWorker ==
    ASSUME IInv, IInv', WorkerStep
    PROVE  Delivery!Next \/ UNCHANGED <<Phase, Waiting, Verdicts>>
<1>1. DOMAIN fate = Transactions /\ queue \in Seq(Transactions)
    BY DEF IInv, TypeOK
<1>2. CASE Receive
    <2>1. /\ current = NoTransaction /\ current' = Head(queue) /\ queue' = Tail(queue)
          /\ queue # <<>> /\ UNCHANGED <<fate, shut>>
          /\ workerPc # "exited" /\ workerPc' # "exited"
        BY <1>2 DEF Receive, sendVars, closeVars, IInv, Worker, Holding
    <2>2. Head(queue) \in Transactions
        BY <1>1, <2>1
    <2>3. Waiting = queue /\ Waiting' = <<Head(queue)>> \o Tail(queue)
        BY <2>1, <2>2, WaitingShape, TransactionsAssumption DEF Waiting, Hand
    <2>4. Waiting' = Waiting
        BY <1>1, <2>1, <2>3
    <2> QED
        BY <2>1, <2>4 DEF Phase, Verdicts
<1>3. ASSUME NEW why \in Posting, NEW from \in {"received", "posting"}, Decides(from, why)
      PROVE  Delivery!Next
    <2>1. /\ current \in Transactions /\ current # NoTransaction
          /\ current' = NoTransaction /\ UNCHANGED <<queue, shut>>
          /\ fate' = [fate EXCEPT ![current] = why]
          /\ workerPc # "exited" /\ workerPc' # "exited"
        BY <1>3 DEF Decides, closeVars, IInv, TypeOK, Worker, Holding
    <2>2. /\ Waiting # <<>> /\ Head(Waiting) = current /\ Tail(Waiting) = queue
        BY <2>1, WaitingShape
    <2>3. Waiting' = queue
        <3>1. Waiting' = <<>> \o queue
            BY <2>1 DEF Waiting, Hand
        <3> QED
            BY <1>1, <3>1
    <2>4. Verdict(why) \in {"delivered", "dropped"}
        BY DEF Verdict, Posting
    <2>5. Verdicts' = [Verdicts EXCEPT ![Head(Waiting)] = Verdict(why)]
        BY <1>1, <2>1, <2>2, VerdictOne
    <2>6. Phase' = Phase
        BY <2>1 DEF Phase
    <2> QED
        BY <2>2, <2>3, <2>4, <2>5, <2>6, Mapping
<1>4. CASE BeginPost
    BY <1>4 DEF BeginPost, sendVars, closeVars, Phase, Waiting, Hand, Verdicts
<1>5. CASE Leaves
    <2>1. /\ shut /\ UNCHANGED <<shut, queue, current, fate>> /\ queue = <<>>
          /\ current = NoTransaction /\ workerPc # "exited" /\ workerPc' = "exited"
        BY <1>5 DEF Leaves, sendVars, closeVars, IInv, ShutFirst, Worker, Holding
    <2>2. Phase = "closing" /\ Phase' = "finished"
        BY <2>1 DEF Phase
    <2>3. Waiting = <<>> /\ UNCHANGED <<Waiting, Verdicts>>
        BY <2>1, WaitingShape DEF Waiting, Hand, Verdicts
    <2> QED
        BY <2>2, <2>3, Mapping
<1> QED
    BY <1>2, <1>3, <1>4, <1>5, WorkerEffect

\* A step of closeTraces maps to Shut or a stutter.
LEMMA MapClose ==
    ASSUME IInv, NEW c \in Closers, Closing(c)
    PROVE  Delivery!Next \/ UNCHANGED <<Phase, Waiting, Verdicts>>
<1>1. UNCHANGED <<Waiting, Verdicts, workerPc>>
    BY CloseEffect DEF Closes, sendVars, workerVars, Waiting, Hand, Verdicts
<1>2. CASE UNCHANGED shut
    BY <1>1, <1>2 DEF Phase
<1>3. CASE ~shut /\ shut' = TRUE
    <2>1. workerPc # "exited"
        BY <1>3 DEF IInv, Worker, ShutFirst
    <2>2. Phase = "open" /\ Phase' = "closing"
        BY <1>1, <1>3, <2>1 DEF Phase
    <2> QED
        BY <1>1, <2>2, Mapping
<1> QED
    BY <1>2, <1>3, CloseEffect DEF Closes

\* The channel, the goroutine that is made with it and closeTraces lose, repeat and
\* reorder nothing they took: they implement EventDelivery, but for its promise that
\* all is decided in the end.
THEOREM Implementation == Spec => Delivery!Safety
<1>1. Init => Delivery!Init
    <2> SUFFICES ASSUME Init PROVE Delivery!Init
        OBVIOUS
    <2>1. Phase = "open" /\ Waiting = <<>>
        BY DEF Init, Phase, Waiting, Hand
    <2>2. Verdicts = [t \in Transactions |-> "none"]
        BY DEF Init, Verdicts, Verdict
    <2> QED
        BY <2>1, <2>2, Mapping
<1>2. IInv /\ IInv' /\ [Next]_vars => [Delivery!Next]_(Delivery!vars)
    <2> SUFFICES ASSUME IInv, IInv', [Next]_vars
                 PROVE  Delivery!Next \/ UNCHANGED <<Phase, Waiting, Verdicts>>
        BY DEF Delivery!vars, Waiting, Verdicts
    <2>1. CASE UNCHANGED <<sendVars, queue, started, closeVars, workerVars, full>>
        BY <2>1 DEF sendVars, closeVars, workerVars, Phase, Waiting, Hand, Verdicts
    <2> QED
        BY <2>1, MapSend, MapWorker, MapClose, Steps
<1> QED
    BY <1>1, <1>2, Inductive, PTL DEF Spec, Safety, Delivery!Safety

-----------------------------------------------------------------------------
(* A transaction is reported once and whole.                                *)

CallStates == {"idle", "called", "adding", "building", "reading", "encoding", "returned"}
Reporting  == {"building", "reading", "encoding"}

\* One call at most reports the transaction, which is finished then; what is sent is
\* sent by it.
OneReporter ==
    /\ \A c \in Calls : callPc[c] \in Reporting =>
          /\ target[c] = Transaction /\ Transaction \in finished /\ sampled /\ sent = <<>>
    /\ \A c, d \in Calls : callPc[c] \in Reporting /\ callPc[d] \in Reporting => c = d
    /\ sent # <<>> => sampled /\ Transaction \in finished /\ Len(sent) = 1

\* A child has a call that adds it, or is in the list, never both or twice.
Listed(s) == \E i \in DOMAIN children : children[i] = s

AddedOnce ==
    /\ \A i, j \in DOMAIN children : children[i] = children[j] => i = j
    /\ \A i \in DOMAIN children : children[i] \in finished
    /\ \A c \in Calls : callPc[c] = "adding" =>
          target[c] \in Children \cap finished /\ ~Listed(target[c])
    /\ \A c, d \in Calls : callPc[c] = "adding" /\ callPc[d] = "adding"
          /\ target[c] = target[d] => c = d

\* A call that has returned has seen its span finished; a finished child is in the
\* list, unless it is being added or there was no room.
Accounted ==
    /\ \A c \in Calls : callPc[c] = "returned" => target[c] \in finished
    /\ \A c \in Calls : callPc[c] # "idle" => target[c] \in live
    /\ Transaction \notin finished =>
          \A s \in finished \cap Children :
             \/ Listed(s) \/ Len(children) = MaxChildren
             \/ \E c \in Calls : target[c] = s /\ callPc[c] = "adding"
    /\ Transaction \in finished =>
          \/ \A s \in finishedBefore \ onTheWay : Listed(s)
          \/ Len(children) = MaxChildren

\* What was read and what is yet to be read are the list.
ReadInOrder ==
    /\ (\E c \in Calls : callPc[c] \in {"reading", "encoding"}) =>
          /\ Len(payload) + Len(unread) = Len(children)
          /\ \A i \in 1..Len(payload) : payload[i] = children[i]
          /\ \A i \in 1..Len(unread) : unread[i] = children[Len(payload) + i]
    /\ (\E c \in Calls : callPc[c] = "encoding") => unread = <<>>
    /\ \A i \in DOMAIN sent : sent[i] = children

\* The assumptions of Spans on its constants.
Limits == Transaction \notin Children /\ MaxChildren \in Nat

LEMMA SpansLimits == Limits
BY SpansAssumption, MaxChildrenAssumption DEF Limits

SpansInv == /\ Limits /\ SpanTypeOK /\ sent \in Seq(Seq(Children))
            /\ OneReporter /\ AddedOnce /\ Accounted /\ ReadInOrder

USE DEF historyVars

LEMMA InitSpans == Limits /\ SpanInit => SpansInv
<1> SUFFICES ASSUME Limits, SpanInit PROVE SpansInv
    OBVIOUS
<1> USE DEF Limits, SpanInit
<1>1. SpanTypeOK
    <2>1. <<>> \in Seq(Children) /\ Len(<<>>) = 0
        OBVIOUS
    <2>2. callPc \in [Calls -> {"idle", "called", "adding", "building", "reading",
                               "encoding", "returned"}]
        OBVIOUS
    <2>3. {children, unread, payload} = {<<>>} /\ Len(children) <= MaxChildren
        BY <2>1
    <2>4. /\ live = {Transaction} /\ finished = {} /\ hasMap = {} /\ shared = {}
          /\ finishedBefore = {} /\ onTheWay = {} /\ target \in [Calls -> AllSpans]
          /\ sampled \in BOOLEAN /\ clash \in BOOLEAN
        OBVIOUS
    <2> HIDE DEF SpanInit
    <2> QED
        BY <2>1, <2>2, <2>3, <2>4 DEF SpanTypeOK, AllSpans
<1>4. sent \in Seq(Seq(Children))
    OBVIOUS
<1>2. OneReporter /\ ReadInOrder
    BY DEF OneReporter, ReadInOrder, Reporting
<1>3. AddedOnce /\ Accounted
    BY DEF AddedOnce, Accounted, Listed
<1> QED
    BY <1>1, <1>2, <1>3, <1>4 DEF SpansInv

-----------------------------------------------------------------------------
(* What a step of a call leaves alone.                                      *)

LEMMA Moved ==
    ASSUME SpansInv, NEW c \in Calls, NEW from \in CallStates, NEW to \in CallStates,
           CallMoves(c, from, to)
    PROVE  /\ callPc[c] = from /\ callPc'[c] = to
           /\ \A d \in Calls \ {c} : callPc'[d] = callPc[d]
           /\ callPc' \in [Calls -> CallStates]
           /\ UNCHANGED <<sampled, live, hasMap, clash, target>>
BY DEF SpansInv, SpanTypeOK, CallMoves, CallStates, spanVars

-----------------------------------------------------------------------------
(* Starting spans and attaching data.                                       *)

LEMMA SpanSteps ==
    ASSUME SpansInv, NEW s \in AllSpans,
           (s \in Children /\ StartSpan(s)) \/ SetData(s)
    PROVE  SpansInv'
<1>1. /\ UNCHANGED <<sampled, finished, children, target, callPc, payloadVars, historyVars>>
      /\ live \subseteq live' /\ live' \subseteq live \cup {s}
      /\ hasMap \subseteq hasMap' /\ hasMap' \subseteq hasMap \cup {s} /\ hasMap' \subseteq live'
      /\ clash' \in BOOLEAN
    BY DEF SpansInv, SpanTypeOK, StartSpan, SetData
<1>2. SpanTypeOK' /\ sent' \in Seq(Seq(Children))
    BY <1>1 DEF SpansInv, SpanTypeOK, payloadVars
<1>3. OneReporter' /\ AddedOnce' /\ Accounted' /\ ReadInOrder'
    BY <1>1 DEF SpansInv, OneReporter, AddedOnce, Accounted, ReadInOrder, Listed, payloadVars
<1> QED
    BY <1>2, <1>3 DEF SpansInv

-----------------------------------------------------------------------------
(* Finishing a child.                                                       *)

\* Nobody reports before the transaction is finished.
LEMMA NoneReports == SpansInv /\ Transaction \notin finished =>
                        sent = <<>> /\ \A c \in Calls : callPc[c] \notin Reporting
BY DEF SpansInv, OneReporter

LEMMA CallStep == ASSUME SpansInv, NEW c \in Calls, FinishCall(c) PROVE SpansInv'
<1> USE DEF FinishCall
<1>1. /\ callPc[c] = "idle" /\ callPc'[c] = "called" /\ target[c] \in live
      /\ \A d \in Calls \ {c} : callPc'[d] = callPc[d]
      /\ callPc' \in [Calls -> CallStates]
      /\ UNCHANGED <<sampled, live, hasMap, clash, target>>
    BY Moved DEF CallStates
<1>2. SpanTypeOK' /\ sent' \in Seq(Seq(Children))
    BY <1>1 DEF SpansInv, SpanTypeOK, CallStates, payloadVars
<1>3. OneReporter' /\ ReadInOrder'
    BY <1>1 DEF SpansInv, OneReporter, ReadInOrder, Reporting, payloadVars
<1>4. AddedOnce'
    BY <1>1 DEF SpansInv, AddedOnce, Listed
<1>5. Accounted'
    BY <1>1 DEF SpansInv, Accounted, Listed
<1> QED
    BY <1>2, <1>3, <1>4, <1>5 DEF SpansInv

LEMMA AgainStep == ASSUME SpansInv, NEW c \in Calls, FinishAgain(c) PROVE SpansInv'
<1> USE DEF FinishAgain
<1>1. /\ callPc[c] = "called" /\ callPc'[c] = "returned" /\ target[c] \in finished
      /\ \A d \in Calls \ {c} : callPc'[d] = callPc[d]
      /\ callPc' \in [Calls -> CallStates]
      /\ UNCHANGED <<sampled, live, hasMap, clash, target>>
    BY Moved DEF CallStates
<1>2. SpanTypeOK' /\ sent' \in Seq(Seq(Children))
    BY <1>1 DEF SpansInv, SpanTypeOK, CallStates, payloadVars
<1>3. OneReporter' /\ ReadInOrder'
    BY <1>1 DEF SpansInv, OneReporter, ReadInOrder, Reporting, payloadVars
<1>4. AddedOnce'
    BY <1>1 DEF SpansInv, AddedOnce, Listed
<1>5. Accounted'
    BY <1>1 DEF SpansInv, Accounted, Listed
<1> QED
    BY <1>2, <1>3, <1>4, <1>5 DEF SpansInv

LEMMA ChildStep == ASSUME SpansInv, NEW c \in Calls, FinishChild(c) PROVE SpansInv'
<1> USE DEF FinishChild
<1>1. /\ callPc[c] = "called" /\ callPc'[c] = "adding"
      /\ target[c] \in Children \ finished /\ finished' = finished \cup {target[c]}
      /\ \A d \in Calls \ {c} : callPc'[d] = callPc[d]
      /\ callPc' \in [Calls -> CallStates]
      /\ UNCHANGED <<sampled, live, hasMap, clash, target>>
    BY Moved DEF CallStates
<1>2. SpanTypeOK' /\ sent' \in Seq(Seq(Children))
    BY <1>1 DEF SpansInv, SpanTypeOK, Accounted, CallStates, payloadVars
<1>3. OneReporter' /\ ReadInOrder'
    BY <1>1 DEF SpansInv, OneReporter, ReadInOrder, Reporting, payloadVars
<1>4. AddedOnce'
    BY <1>1 DEF SpansInv, AddedOnce, Listed
<1>5. Accounted'
    <2>1. target[c] # Transaction
        BY <1>1 DEF SpansInv, Limits
    <2> QED
        BY <1>1, <2>1 DEF SpansInv, Accounted, Listed
<1> QED
    BY <1>2, <1>3, <1>4, <1>5 DEF SpansInv

LEMMA AddStep == ASSUME SpansInv, NEW c \in Calls, AddChild(c) PROVE SpansInv'
<1> USE DEF AddChild
<1>1. /\ callPc[c] = "adding" /\ callPc'[c] = "returned"
      /\ target[c] \in Children \cap finished /\ ~Listed(target[c])
      /\ Len(children) < MaxChildren
      /\ \A d \in Calls \ {c} : callPc'[d] = callPc[d]
      /\ callPc' \in [Calls -> CallStates]
      /\ UNCHANGED <<sampled, live, hasMap, clash, target>>
    BY Moved DEF CallStates, SpansInv, AddedOnce
<1>2. children \in Seq(Children) /\ Len(children) \in Nat /\ DOMAIN children = 1..Len(children)
    BY DEF SpansInv, SpanTypeOK
<1>3. /\ children' \in Seq(Children) /\ Len(children') = Len(children) + 1
      /\ \A i \in 1..Len(children) : children'[i] = children[i]
      /\ children'[Len(children) + 1] = target[c]
      /\ DOMAIN children' = 1..(Len(children) + 1)
    BY <1>1, <1>2
<1>4. \A s : Listed(s)' <=> Listed(s) \/ s = target[c]
    BY <1>2, <1>3 DEF Listed
<1>5. SpanTypeOK' /\ sent' \in Seq(Seq(Children))
    <2>1. Len(children') <= MaxChildren
        BY <1>2, <1>3 DEF SpansInv, Limits
    <2> QED
        BY <1>1, <1>3, <2>1 DEF SpansInv, SpanTypeOK, CallStates, payloadVars
<1>6. OneReporter' /\ ReadInOrder'
    <2>1. sent' = <<>> /\ \A d \in Calls : callPc'[d] \notin Reporting
        BY <1>1, NoneReports DEF Reporting, payloadVars
    <2> QED
        BY <2>1 DEF OneReporter, ReadInOrder, Reporting
<1>7. AddedOnce'
    <2>1. \A i, j \in DOMAIN children' : children'[i] = children'[j] => i = j
        BY <1>1, <1>2, <1>3 DEF SpansInv, AddedOnce, Listed
    <2>2. \A i \in DOMAIN children' : children'[i] \in finished
        BY <1>1, <1>2, <1>3 DEF SpansInv, AddedOnce
    <2>3. \A d \in Calls : callPc'[d] = "adding" =>
              target[d] \in Children \cap finished /\ target[d] # target[c] /\ ~Listed(target[d])
        BY <1>1 DEF SpansInv, AddedOnce
    <2>4. \A d, e \in Calls : callPc'[d] = "adding" /\ callPc'[e] = "adding"
              /\ target[d] = target[e] => d = e
        BY <1>1 DEF SpansInv, AddedOnce
    <2>5. UNCHANGED <<target, finished>>
        BY <1>1
    <2> HIDE DEF AddChild
    <2> QED
        BY <1>4, <2>1, <2>2, <2>3, <2>4, <2>5 DEF AddedOnce
<1>8. Accounted'
    <2>1. \A s \in finished \cap Children :
             \/ Listed(s)' \/ Len(children') = MaxChildren
             \/ \E d \in Calls : target[d] = s /\ callPc'[d] = "adding"
        <3> SUFFICES ASSUME NEW s \in finished \cap Children, ~Listed(s)', s # target[c]
                     PROVE  \E d \in Calls : target[d] = s /\ callPc'[d] = "adding"
            BY <1>4
        <3>1. ~Listed(s)
            BY <1>4
        <3>2. Len(children) # MaxChildren
            <4>1. Len(children) \in Nat /\ MaxChildren \in Nat /\ Len(children) < MaxChildren
                BY <1>1, <1>2 DEF SpansInv, Limits
            <4> HIDE DEF AddChild
            <4> QED
                BY <4>1
        <3> QED
            BY <1>1, <3>1, <3>2 DEF SpansInv, Accounted
    <2>2. UNCHANGED <<finished, target, historyVars, live>> /\ Transaction \notin finished
        BY <1>1
    <2> HIDE DEF AddChild
    <2> QED
        BY <1>1, <2>1, <2>2 DEF SpansInv, Accounted
<1> QED
    BY <1>5, <1>6, <1>7, <1>8 DEF SpansInv

LEMMA DroppedStep == ASSUME SpansInv, NEW c \in Calls, ChildDropped(c) PROVE SpansInv'
<1> USE DEF ChildDropped
<1>1. /\ callPc[c] = "adding" /\ callPc'[c] = "returned" /\ target[c] \in finished
      /\ \A d \in Calls \ {c} : callPc'[d] = callPc[d]
      /\ callPc' \in [Calls -> CallStates]
      /\ UNCHANGED <<sampled, live, hasMap, clash, target>>
    BY Moved DEF CallStates, SpansInv, AddedOnce
<1>2. SpanTypeOK' /\ sent' \in Seq(Seq(Children))
    BY <1>1 DEF SpansInv, SpanTypeOK, CallStates, payloadVars
<1>3. OneReporter' /\ ReadInOrder'
    BY <1>1 DEF SpansInv, OneReporter, ReadInOrder, Reporting, payloadVars
<1>4. AddedOnce'
    BY <1>1 DEF SpansInv, AddedOnce, Listed
<1>5. Accounted'
    <2>1. Transaction \in finished \/ Len(children) = MaxChildren
        BY DEF SpansInv, Limits, SpanTypeOK
    <2> QED
        BY <1>1, <2>1 DEF SpansInv, Accounted, Listed
<1> QED
    BY <1>2, <1>3, <1>4, <1>5 DEF SpansInv

-----------------------------------------------------------------------------
(* Finishing the transaction.                                               *)

LEMMA TransactionStep == ASSUME SpansInv, NEW c \in Calls, FinishTransaction(c) PROVE SpansInv'
<1> USE DEF FinishTransaction
<1>1. /\ callPc[c] = "called" /\ callPc'[c] = (IF sampled THEN "building" ELSE "returned")
      /\ target[c] = Transaction /\ finished' = finished \cup {Transaction}
      /\ \A d \in Calls \ {c} : callPc'[d] = callPc[d]
      /\ callPc' \in [Calls -> CallStates]
      /\ UNCHANGED <<sampled, live, hasMap, clash, target>>
    BY Moved DEF CallStates
<1>2. /\ sent = <<>> /\ \A d \in Calls : callPc[d] \notin Reporting
      /\ UNCHANGED <<children, payloadVars>>
    BY NoneReports
<1>3. /\ finishedBefore' = finished /\ finished \subseteq Children
      /\ onTheWay' \subseteq Children
      /\ \A d \in Calls : callPc[d] = "adding" => target[d] \in onTheWay'
    <2>1. finished \subseteq Children
        BY DEF SpansInv, SpanTypeOK, Accounted, AllSpans
    <2>2. \A d \in Calls : callPc[d] = "adding" => target[d] \in Children
        BY DEF SpansInv, AddedOnce
    <2> QED
        BY <2>1, <2>2
<1>4. SpanTypeOK' /\ sent' \in Seq(Seq(Children))
    <2>1. target[c] \in live
        BY <1>1 DEF SpansInv, Accounted
    <2> QED
        BY <1>1, <1>2, <1>3, <2>1 DEF SpansInv, SpanTypeOK, CallStates, payloadVars
<1>5. OneReporter' /\ ReadInOrder'
    <2>1. /\ \A d \in Calls : callPc'[d] \in Reporting => d = c /\ sampled
          /\ \A d \in Calls : callPc'[d] \notin {"reading", "encoding"}
          /\ sent' = <<>>
        BY <1>1, <1>2 DEF Reporting, payloadVars
    <2> QED
        BY <1>1, <2>1 DEF OneReporter, ReadInOrder, Reporting
<1>6. AddedOnce'
    BY <1>1, <1>2 DEF SpansInv, AddedOnce, Listed
<1>7. Accounted'
    <2>1. \/ \A s \in finishedBefore' \ onTheWay' : Listed(s)
          \/ Len(children) = MaxChildren
        BY <1>1, <1>3 DEF SpansInv, Accounted
    <2> QED
        BY <1>1, <1>2, <1>3, <2>1 DEF SpansInv, Accounted, Listed
<1> QED
    BY <1>4, <1>5, <1>6, <1>7 DEF SpansInv

\* Of the steps of a reporter only the payload and what is sent is new.
LEMMA ReporterStep ==
    ASSUME SpansInv, NEW c \in Calls, callPc[c] \in Reporting,
           callPc'[c] \in Reporting \cup {"returned"},
           \A d \in Calls \ {c} : callPc'[d] = callPc[d],
           callPc' \in [Calls -> CallStates],
           UNCHANGED <<sampled, live, hasMap, clash, target, finished, children, historyVars>>,
           unread' \in Seq(Children), payload' \in Seq(Children), shared' \subseteq hasMap,
           \/ sent' = sent
           \/ sent' = Append(sent, payload) /\ callPc'[c] = "returned",
           ReadInOrder'
    PROVE  SpansInv'
<1>1. /\ target[c] = Transaction /\ Transaction \in finished /\ sampled /\ sent = <<>>
      /\ \A d \in Calls \ {c} : callPc[d] \notin Reporting
    BY DEF SpansInv, OneReporter
<1>2. payload \in Seq(Children)
    BY DEF SpansInv, SpanTypeOK
<1>3. sent' \in Seq(Seq(Children)) /\ (sent' # <<>> => Len(sent') = 1 /\ callPc'[c] = "returned")
    <2>1. Append(<<>>, payload) \in Seq(Seq(Children)) /\ Len(Append(<<>>, payload)) = 1
        BY <1>2
    <2>2. <<>> \in Seq(Seq(Children))
        OBVIOUS
    <2> QED
        BY <1>1, <2>1, <2>2
<1>4. SpanTypeOK'
    BY DEF SpansInv, SpanTypeOK, CallStates
<1>5. OneReporter'
    BY <1>1, <1>3 DEF OneReporter, Reporting
<1>6. AddedOnce'
    BY DEF SpansInv, AddedOnce, Listed, Reporting
<1>7. Accounted'
    BY <1>1 DEF SpansInv, Accounted, Listed, Reporting
<1> QED
    BY <1>3, <1>4, <1>5, <1>6, <1>7 DEF SpansInv

LEMMA BuildStep == ASSUME SpansInv, NEW c \in Calls, BuildPayload(c) PROVE SpansInv'
<1>1. /\ callPc[c] = "building" /\ callPc'[c] = "reading"
      /\ \A d \in Calls \ {c} : callPc'[d] = callPc[d]
      /\ callPc' \in [Calls -> CallStates]
      /\ UNCHANGED <<sampled, live, hasMap, clash, target>>
      /\ UNCHANGED <<finished, children, historyVars, sent>>
      /\ unread' = children /\ payload' = <<>> /\ shared' = MapOf(Transaction)
    BY Moved DEF CallStates, BuildPayload
<1>2. unread' \in Seq(Children) /\ payload' \in Seq(Children) /\ shared' \subseteq hasMap
    BY <1>1 DEF SpansInv, SpanTypeOK, MapOf
<1>3. ReadInOrder'
    <2>1. sent = <<>> /\ \A d \in Calls : callPc'[d] # "encoding"
        BY <1>1 DEF SpansInv, OneReporter, Reporting
    <2>2. children \in Seq(Children)
        BY DEF SpansInv, SpanTypeOK
    <2> QED
        BY <1>1, <2>1, <2>2 DEF ReadInOrder
<1> QED
    BY <1>1, <1>2, <1>3, ReporterStep DEF Reporting

LEMMA ReadStep == ASSUME SpansInv, NEW c \in Calls, ReadChild(c) PROVE SpansInv'
<1>1. /\ callPc[c] = "reading" /\ callPc'[c] = "reading"
      /\ \A d \in Calls \ {c} : callPc'[d] = callPc[d]
      /\ callPc' \in [Calls -> CallStates]
      /\ UNCHANGED <<sampled, live, hasMap, clash, target>>
      /\ UNCHANGED <<finished, children, historyVars, sent>>
      /\ unread # <<>> /\ unread' = Tail(unread) /\ payload' = Append(payload, Head(unread))
      /\ shared' = shared \cup MapOf(Head(unread))
    BY Moved DEF CallStates, ReadChild
<1>2. unread \in Seq(Children) /\ payload \in Seq(Children) /\ children \in Seq(Children)
    BY DEF SpansInv, SpanTypeOK
<1>3. unread' \in Seq(Children) /\ payload' \in Seq(Children) /\ shared' \subseteq hasMap
    BY <1>1, <1>2 DEF SpansInv, SpanTypeOK, MapOf
<1>4. ReadInOrder'
    <2>1. sent = <<>> /\ \A d \in Calls : callPc'[d] # "encoding"
        BY <1>1 DEF SpansInv, OneReporter, Reporting
    <2>2. /\ Len(payload) + Len(unread) = Len(children)
          /\ \A i \in 1..Len(payload) : payload[i] = children[i]
          /\ \A i \in 1..Len(unread) : unread[i] = children[Len(payload) + i]
        BY <1>1 DEF SpansInv, ReadInOrder
    <2>3. /\ Len(unread) \in Nat \ {0} /\ Len(payload) \in Nat
          /\ Len(unread') = Len(unread) - 1 /\ Len(payload') = Len(payload) + 1
          /\ \A i \in 1..Len(unread') : unread'[i] = unread[i + 1]
          /\ \A i \in 1..Len(payload) : payload'[i] = payload[i]
          /\ payload'[Len(payload) + 1] = unread[1]
        BY <1>1, <1>2
    <2>4. Len(payload') + Len(unread') = Len(children)
        <3>1. /\ Len(unread) \in Nat /\ Len(payload) \in Nat
              /\ Len(unread') = Len(unread) - 1 /\ Len(payload') = Len(payload) + 1
              /\ Len(payload) + Len(unread) = Len(children)
            BY <2>2, <2>3
        <3>2. \A a, b \in Nat : (a + 1) + (b - 1) = a + b
            OBVIOUS
        <3> QED
            BY <3>1, <3>2
    <2>5. \A i \in 1..Len(payload') : payload'[i] = children[i]
        <3>1. unread[1] = children[Len(payload) + 1]
            BY <2>2, <2>3
        <3>2. 1..Len(payload') = 1..Len(payload) \cup {Len(payload) + 1}
            BY <2>3
        <3> QED
            BY <2>2, <2>3, <3>1, <3>2
    <2>6. \A i \in 1..Len(unread') : unread'[i] = children[Len(payload') + i]
        BY <1>2, <2>2, <2>3
    <2>7. \A i \in DOMAIN sent' : sent'[i] = children'
        BY <1>1, <2>1
    <2>8. children' = children /\ \A d \in Calls : callPc'[d] # "encoding"
        BY <1>1, <2>1
    <2> QED
        BY <2>4, <2>5, <2>6, <2>7, <2>8 DEF ReadInOrder
<1> QED
    BY <1>1, <1>3, <1>4, ReporterStep DEF Reporting

LEMMA EncodeStep == ASSUME SpansInv, NEW c \in Calls, Encode(c) PROVE SpansInv'
<1>1. /\ callPc[c] = "reading" /\ callPc'[c] = "encoding" /\ unread = <<>>
      /\ \A d \in Calls \ {c} : callPc'[d] = callPc[d]
      /\ callPc' \in [Calls -> CallStates]
      /\ UNCHANGED <<sampled, live, hasMap, clash, target, finished, children, historyVars,
                     unread, payload, shared, sent>>
    BY Moved DEF CallStates, Encode, payloadVars
<1>2. ReadInOrder'
    BY <1>1 DEF SpansInv, ReadInOrder
<1> QED
    BY <1>1, <1>2, ReporterStep DEF Reporting, SpansInv, SpanTypeOK

LEMMA EncodedStep == ASSUME SpansInv, NEW c \in Calls, Encoded(c) PROVE SpansInv'
<1>1. /\ callPc[c] = "encoding" /\ callPc'[c] = "returned"
      /\ \A d \in Calls \ {c} : callPc'[d] = callPc[d]
      /\ callPc' \in [Calls -> CallStates]
      /\ UNCHANGED <<sampled, live, hasMap, clash, target, finished, children, historyVars,
                     unread, payload, shared>>
      /\ sent' = Append(sent, payload)
    BY Moved DEF CallStates, Encoded
<1>2. payload \in Seq(Children) /\ children \in Seq(Children)
    BY DEF SpansInv, SpanTypeOK
<1>3. payload = children
    <2>1. Len(payload) = Len(children) /\ \A i \in 1..Len(payload) : payload[i] = children[i]
        BY <1>1, <1>2 DEF SpansInv, ReadInOrder
    <2> QED
        BY <1>2, <2>1
<1>4. ReadInOrder'
    <2>1. sent = <<>> /\ \A d \in Calls : callPc'[d] \notin Reporting
        BY <1>1 DEF SpansInv, OneReporter, Reporting
    <2>2. \A i \in DOMAIN sent' : sent'[i] = children
        BY <1>1, <1>3, <2>1
    <2> QED
        BY <1>1, <2>1, <2>2 DEF ReadInOrder, Reporting
<1> QED
    BY <1>1, <1>4, ReporterStep DEF Reporting, SpansInv, SpanTypeOK

LEMMA UnencodableStep == ASSUME SpansInv, NEW c \in Calls, Unencodable(c) PROVE SpansInv'
<1>1. /\ callPc[c] = "encoding" /\ callPc'[c] = "returned"
      /\ \A d \in Calls \ {c} : callPc'[d] = callPc[d]
      /\ callPc' \in [Calls -> CallStates]
      /\ UNCHANGED <<sampled, live, hasMap, clash, target, finished, children, historyVars,
                     unread, payload, shared, sent>>
    BY Moved DEF CallStates, Unencodable, payloadVars
<1>2. ReadInOrder'
    BY <1>1 DEF SpansInv, ReadInOrder
<1> QED
    BY <1>1, <1>2, ReporterStep DEF Reporting, SpansInv, SpanTypeOK

-----------------------------------------------------------------------------
LEMMA StepSpans == SpansInv /\ [SpanNext]_(transactionVars) => SpansInv'
<1> SUFFICES ASSUME SpansInv, [SpanNext]_(transactionVars) PROVE SpansInv'
    OBVIOUS
<1>1. ASSUME NEW s \in AllSpans,
             (s \in Children /\ StartSpan(s)) \/ SetData(s)
      PROVE  SpansInv'
    BY <1>1, SpanSteps
<1>2. ASSUME NEW c \in Calls, Finish(c) PROVE SpansInv'
    BY <1>2, CallStep, AgainStep, ChildStep, AddStep, DroppedStep, TransactionStep, BuildStep,
       ReadStep, EncodeStep, EncodedStep, UnencodableStep DEF Finish
<1>3. CASE UNCHANGED transactionVars
    BY <1>3 DEF transactionVars, SpansInv, SpanTypeOK, OneReporter, AddedOnce, Accounted,
        ReadInOrder, Listed
<1> QED
    BY <1>1, <1>2, <1>3 DEF SpanNext, AllSpans

LEMMA SpansInductive == SpanSpec => []SpansInv
BY SpansLimits, InitSpans, StepSpans, PTL DEF SpanSpec

\* However many goroutines finish a transaction, it is reported once, or not at all
\* when it is sampled out.
THEOREM SpanReportedOnce == SpanSpec => []ReportedOnce
<1>1. SpansInv => ReportedOnce
    <2>1. Len(<<>>) = 0
        OBVIOUS
    <2> QED
        <3> SUFFICES ASSUME SpansInv PROVE Len(sent) <= (IF sampled THEN 1 ELSE 0)
            BY DEF ReportedOnce
        <3>1. CASE sent = <<>>
            BY <2>1, <3>1
        <3>2. CASE sent # <<>>
            <4>1. sampled /\ Len(sent) = 1
                BY <3>2 DEF SpansInv, OneReporter
            <4> QED
                BY <4>1
        <3> QED
            BY <3>1, <3>2
<1> QED
    BY <1>1, SpansInductive, PTL

\* The report holds the children in the order they were added, each once and each
\* finished; none that was finished when the transaction was is missing, but for those
\* whose Finish had yet to call addChild then, unless the bound was reached.
THEOREM SpanPayloadComplete == SpanSpec => []PayloadIsComplete
<1>1. ASSUME SpansInv PROVE PayloadIsComplete
    <2> SUFFICES ASSUME NEW i \in DOMAIN sent
                 PROVE  /\ sent[i] = children /\ IsInjective(sent[i])
                        /\ Range(sent[i]) \subseteq finished
                        /\ finishedBefore \ onTheWay \subseteq Range(sent[i])
                           \/ Len(sent[i]) = MaxChildren
        BY <1>1 DEF SpansInv, PayloadIsComplete
    <2>1. sent[i] = children /\ Transaction \in finished
        BY <1>1 DEF SpansInv, ReadInOrder, OneReporter
    <2>2. IsInjective(children) /\ Range(children) \subseteq finished
        BY <1>1 DEF SpansInv, AddedOnce, IsInjective, Range
    <2>3. \A s : Listed(s) => s \in Range(children)
        BY DEF Listed, Range
    <2> QED
        BY <1>1, <2>1, <2>2, <2>3 DEF SpansInv, Accounted
<1> QED
    BY <1>1, SpansInductive, PTL
=============================================================================
