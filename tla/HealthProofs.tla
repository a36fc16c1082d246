---------------------------- MODULE HealthProofs -----------------------------
(***************************************************************************)
(* What is said of the application's health is true: the counts of the     *)
(* session aggregator, for any number of requests, of Closes and of        *)
(* minutes; and what a guard makes of one piece of work, for any number of *)
(* attached errors.                                                        *)
(***************************************************************************)
EXTENDS Sessions, Requests, FiniteSetTheorems, SequenceTheorems, TLAPS

-----------------------------------------------------------------------------
(* The aggregator: the inductive invariant.                                 *)

\* A batch is in hand only while it is posted.
TakenIsPosted == \A r \in Requests : stage[r] = "taken" => runPc \in {"posting", "postingLast"}

\* The goroutine leaves because of stop, and says so.
LeavesOnStop ==
    /\ runPc \in {"postingLast", "returning", "exited"} => stop
    /\ done <=> runPc = "exited"
    /\ \A c \in Closers : closePc[c] = "returned" => done

\* What was recorded before a Close found stop open is taken by the last report, at
\* the latest.
Promised == UNION {recordedBy[c] : c \in Closers}

LastTakesAll ==
    \A r \in Promised :
        /\ stage[r] \in {"counted", "taken", "reported", "lost"}
        /\ runPc = "postingLast" => stage[r] # "counted"
        /\ runPc \in {"returning", "exited"} => stage[r] \in {"reported", "lost"}

IInv == CountsAgree /\ TakenIsPosted /\ LeavesOnStop /\ LastTakesAll

-----------------------------------------------------------------------------
(* Counting.                                                                *)

Sums(rs) == [total   |-> Cardinality(rs),
             errored |-> Cardinality(Failed(rs)),
             crashed |-> Cardinality(Crashed(rs))]

LEMMA SumsType == ASSUME NEW rs \in SUBSET Requests PROVE Sums(rs) \in Counts
<1>1. IsFiniteSet(rs) /\ IsFiniteSet(Failed(rs)) /\ IsFiniteSet(Crashed(rs))
    BY FS_Subset, RequestsAssumption DEF Failed, Crashed
<1> QED
    BY <1>1, FS_CardinalityType DEF Sums, Counts

\* One more request changes the sums as record does.
LEMMA SumsAdd ==
    ASSUME status \in [Requests -> Statuses],
           NEW rs \in SUBSET Requests, NEW r \in Requests \ rs
    PROVE  Sums(rs \cup {r}) = Counted(Sums(rs), status[r])
<1>1. /\ IsFiniteSet(rs) /\ IsFiniteSet(Failed(rs)) /\ IsFiniteSet(Crashed(rs))
      /\ r \notin rs /\ r \notin Failed(rs) /\ r \notin Crashed(rs)
    BY FS_Subset, RequestsAssumption DEF Failed, Crashed
<1>2. /\ Cardinality(rs \cup {r}) = Cardinality(rs) + 1
      /\ Cardinality(Failed(rs) \cup {r}) = Cardinality(Failed(rs)) + 1
      /\ Cardinality(Crashed(rs) \cup {r}) = Cardinality(Crashed(rs)) + 1
      /\ Cardinality(Failed(rs)) \in Nat /\ Cardinality(Crashed(rs)) \in Nat
    BY <1>1, FS_AddElement, FS_CardinalityType
<1>3. CASE status[r] = "ok"
    <2>1. Failed(rs \cup {r}) = Failed(rs) /\ Crashed(rs \cup {r}) = Crashed(rs)
        BY <1>3 DEF Failed, Crashed
    <2> QED
        BY <1>2, <1>3, <2>1 DEF Sums, Counted
<1>4. CASE status[r] = "errored"
    <2>1. Failed(rs \cup {r}) = Failed(rs) \cup {r} /\ Crashed(rs \cup {r}) = Crashed(rs)
        BY <1>4 DEF Failed, Crashed
    <2>2. Cardinality(Crashed(rs \cup {r})) = Cardinality(Crashed(rs)) + 0
        BY <1>2, <2>1
    <2> QED
        BY <1>2, <1>4, <2>1, <2>2 DEF Sums, Counted
<1>5. CASE status[r] = "crashed"
    <2>1. /\ Failed(rs \cup {r}) = Failed(rs) \cup {r}
          /\ Crashed(rs \cup {r}) = Crashed(rs) \cup {r}
        BY <1>5 DEF Failed, Crashed
    <2> QED
        BY <1>2, <1>5, <2>1 DEF Sums, Counted
<1> QED
    BY <1>3, <1>4, <1>5 DEF Statuses

\* The sums of no request are what a new entry starts from.
LEMMA SumsNone == Sums({}) = Zero
<1>1. Failed({}) = {} /\ Crashed({}) = {}
    BY DEF Failed, Crashed
<1> QED
    BY <1>1, FS_EmptySet DEF Sums, Zero

\* Agree in these terms; it types the counts.
LEMMA AgreeSums ==
    ASSUME NEW counts, NEW where
    PROVE  Agree(counts, where) <=>
             /\ DOMAIN counts = {m \in Minutes : Tally(m, where) # {}}
             /\ \A m \in DOMAIN counts : counts[m] = Sums(Tally(m, where))
BY DEF Agree, Sums

LEMMA AgreeTypes ==
    ASSUME NEW counts, NEW where, Agree(counts, where)
    PROVE  DOMAIN counts \subseteq Minutes /\ \A m \in DOMAIN counts : counts[m] \in Counts
<1>1. \A m \in Minutes : Tally(m, where) \in SUBSET Requests
    BY DEF Tally
<1> QED
    BY <1>1, AgreeSums, SumsType

\* The empty map is right where no request is.
LEMMA AgreeNone ==
    ASSUME NEW where, \A m \in Minutes : Tally(m, where) = {}
    PROVE  Agree(NoCounts, where)
BY AgreeSums DEF NoCounts

\* Counts stay right when the requests they are of are the same after a step.
LEMMA AgreeNext ==
    ASSUME UNCHANGED status, NEW counts, NEW from, NEW to, Agree(counts, from),
           \A m \in Minutes : Tally(m, to)' = Tally(m, from)
    PROVE  /\ DOMAIN counts = {m \in Minutes : Tally(m, to)' # {}}
           /\ \A m \in DOMAIN counts : counts[m] = Sums(Tally(m, to))'
<1>1. ASSUME NEW m \in Minutes PROVE Sums(Tally(m, to))' = Sums(Tally(m, from))
    <2>1. Tally(m, to)' = Tally(m, from)
        OBVIOUS
    <2>2. Failed(Tally(m, to))' = Failed(Tally(m, from))
        BY <2>1 DEF Failed
    <2>3. Crashed(Tally(m, to))' = Crashed(Tally(m, from))
        BY <2>1 DEF Crashed
    <2> QED
        BY <2>1, <2>2, <2>3 DEF Sums
<1> QED
    BY <1>1, AgreeSums

LEMMA MinutesKept ==
    ASSUME UNCHANGED <<status, minutes>>, Agree(minutes, "counted"),
           \A m \in Minutes : Tally(m, "counted")' = Tally(m, "counted")
    PROVE  Agree(minutes, "counted")'
<1>1. /\ DOMAIN minutes = {m \in Minutes : Tally(m, "counted")' # {}}
      /\ \A m \in DOMAIN minutes : minutes[m] = Sums(Tally(m, "counted"))'
    BY AgreeNext
<1>2. /\ DOMAIN minutes' = {m \in Minutes : Tally(m, "counted")' # {}}
      /\ \A m \in DOMAIN minutes' : minutes'[m] = Sums(Tally(m, "counted"))'
    BY <1>1
<1> QED
    BY <1>2 DEF Agree, Sums

LEMMA BatchIs ==
    ASSUME UNCHANGED status,
           NEW from, Agree(batch', from),
           \A m \in Minutes : Tally(m, "taken")' = Tally(m, from)
    PROVE  Agree(batch, "taken")'
<1>1. /\ DOMAIN batch' = {m \in Minutes : Tally(m, "taken")' # {}}
      /\ \A m \in DOMAIN batch' : batch'[m] = Sums(Tally(m, "taken"))'
    BY AgreeNext
<1> QED
    BY <1>1 DEF Agree, Sums

-----------------------------------------------------------------------------
(* The invariant holds at first and is kept.                                *)

LEMMA InitIInv == Init => IInv
<1> SUFFICES ASSUME Init PROVE IInv
    OBVIOUS
<1> USE DEF Init
<1>1. Agree(minutes, "counted") /\ Agree(batch, "taken")
    <2>1. \A m \in Minutes : Tally(m, "counted") = {} /\ Tally(m, "taken") = {}
        BY DEF Tally
    <2> QED
        BY <2>1, AgreeNone
<1>2. TypeOK
    <2>1. minute \in Minutes /\ 0 \in Minutes
        BY MaxMinuteAssumption DEF Minutes
    <2> QED
        BY <1>1, <2>1, AgreeTypes DEF TypeOK
<1>3. TakenIsPosted /\ LeavesOnStop /\ LastTakesAll
    BY DEF TakenIsPosted, LeavesOnStop, LastTakesAll, Promised
<1> QED
    BY <1>1, <1>2, <1>3 DEF IInv, CountsAgree

\* The types of all but the counts.
LEMMA TypesOf ==
    TypeOK <=>
      /\ minute \in Minutes /\ stop \in BOOLEAN /\ done \in BOOLEAN
      /\ DOMAIN minutes \subseteq Minutes /\ \A m \in DOMAIN minutes : minutes[m] \in Counts
      /\ DOMAIN batch \subseteq Minutes /\ \A m \in DOMAIN batch : batch[m] \in Counts
      /\ runPc \in {"selecting", "posting", "postingLast", "returning", "exited"}
      /\ closePc \in [Closers -> {"idle", "called", "stopping", "waiting", "returned",
                                  "panicked"}]
      /\ at \in [Requests -> Minutes] /\ status \in [Requests -> Statuses]
      /\ stage \in [Requests -> {"open", "timed", "counted", "taken", "reported", "lost"}]
      /\ recordedBy \in [Closers -> SUBSET Requests]
BY DEF TypeOK

LEMMA ReadClockStep == ASSUME IInv, NEW r \in Requests, ReadClock(r) PROVE IInv'
<1> USE DEF ReadClock, runVars
<1>1. /\ stage[r] = "open" /\ stage'[r] = "timed" /\ at' \in [Requests -> Minutes]
      /\ stage' \in [Requests -> {"open", "timed", "counted", "taken", "reported", "lost"}]
      /\ \A q \in Requests \ {r} : stage'[q] = stage[q] /\ at'[q] = at[q]
    BY DEF IInv, CountsAgree, TypeOK
<1>2. \A m \in Minutes : /\ Tally(m, "counted")' = Tally(m, "counted")
                         /\ Tally(m, "taken")' = Tally(m, "taken")
    BY <1>1 DEF Tally
<1>3. Agree(minutes, "counted")' /\ Agree(batch, "taken")'
    BY <1>2, MinutesKept, BatchIs DEF IInv, CountsAgree
<1>4. TypeOK'
    BY <1>1 DEF IInv, CountsAgree, TypeOK
<1>5. TakenIsPosted' /\ LeavesOnStop' /\ LastTakesAll'
    BY <1>1 DEF IInv, CountsAgree, TypeOK, TakenIsPosted, LeavesOnStop, LastTakesAll, Promised
<1> QED
    BY <1>3, <1>4, <1>5 DEF IInv, CountsAgree

LEMMA RecordStep == ASSUME IInv, NEW r \in Requests, Record(r) PROVE IInv'
<1> USE DEF Record, runVars, requestVars
<1>1. /\ stage[r] = "timed" /\ stage'[r] = "counted" /\ at[r] \in Minutes
      /\ stage' \in [Requests -> {"open", "timed", "counted", "taken", "reported", "lost"}]
      /\ \A q \in Requests \ {r} : stage'[q] = stage[q]
      /\ status \in [Requests -> Statuses]
    BY DEF IInv, CountsAgree, TypeOK
<1>2. \A m \in Minutes :
         /\ Tally(m, "taken")' = Tally(m, "taken")
         /\ Tally(m, "counted")' = IF m = at[r] THEN Tally(m, "counted") \cup {r}
                                   ELSE Tally(m, "counted")
         /\ Tally(m, "counted") \in SUBSET Requests /\ r \notin Tally(m, "counted")
    BY <1>1 DEF Tally
<1>3. Agree(batch, "taken")'
    BY <1>2, BatchIs DEF IInv, CountsAgree
<1>4. \A rs : Sums(rs)' = Sums(rs)
    BY DEF Sums, Failed, Crashed
<1>5. DOMAIN minutes' = {m \in Minutes : Tally(m, "counted")' # {}}
    <2>1. DOMAIN minutes = {m \in Minutes : Tally(m, "counted") # {}}
        BY DEF IInv, CountsAgree, Agree
    <2>2. DOMAIN minutes' = DOMAIN minutes \cup {at[r]}
        OBVIOUS
    <2> QED
        BY <1>1, <1>2, <2>1, <2>2
<1>6. ASSUME NEW m \in DOMAIN minutes' PROVE minutes'[m] = Sums(Tally(m, "counted")')
    <2>1. m \in Minutes
        BY <1>5, <1>6
    <2>2. CASE m # at[r]
        <3>1. minutes'[m] = minutes[m] /\ m \in DOMAIN minutes
            BY <1>6, <2>2
        <3>2. minutes[m] = Sums(Tally(m, "counted"))
            BY <3>1, AgreeSums DEF IInv, CountsAgree
        <3> QED
            BY <1>2, <2>1, <2>2, <3>1, <3>2
    <2>3. CASE m = at[r]
        <3>1. minutes'[m] = Counted(CountsOf(m), status[r])
            BY <1>6, <2>3
        <3>2. CountsOf(m) = Sums(Tally(m, "counted"))
            <4>1. CASE m \in DOMAIN minutes
                BY <4>1, AgreeSums DEF CountsOf, IInv, CountsAgree
            <4>2. CASE m \notin DOMAIN minutes
                <5>1. Tally(m, "counted") = {}
                    BY <2>1, <4>2 DEF IInv, CountsAgree, Agree
                <5> QED
                    BY <4>2, <5>1, SumsNone DEF CountsOf
            <4> QED
                BY <4>1, <4>2
        <3>3. Sums(Tally(m, "counted") \cup {r}) = Counted(Sums(Tally(m, "counted")), status[r])
            BY <1>1, <1>2, <2>1, SumsAdd
        <3> QED
            BY <1>2, <2>1, <2>3, <3>1, <3>2, <3>3
    <2> QED
        BY <2>2, <2>3
<1>7. Agree(minutes, "counted")'
    BY <1>4, <1>5, <1>6 DEF Agree, Sums
<1>8. TypeOK'
    <2>1. /\ DOMAIN minutes' \subseteq Minutes
          /\ \A m \in DOMAIN minutes' : minutes'[m] \in Counts
        <3>1. \A m \in Minutes : Tally(m, "counted")' \in SUBSET Requests
            BY DEF Tally
        <3> QED
            BY <1>5, <1>6, <3>1, SumsType
    <2> QED
        BY <1>1, <2>1 DEF IInv, CountsAgree, TypeOK
<1>9. TakenIsPosted' /\ LeavesOnStop' /\ LastTakesAll'
    BY <1>1 DEF IInv, CountsAgree, TypeOK, TakenIsPosted, LeavesOnStop, LastTakesAll, Promised
<1> QED
    BY <1>3, <1>7, <1>8, <1>9 DEF IInv, CountsAgree

\* take: what was counted is in the batch, and nothing else.
LEMMA TakeStep ==
    ASSUME IInv, runPc = "selecting",
           NEW next \in {"posting", "postingLast"}, Take(next),
           next = "postingLast" => stop
    PROVE  IInv'
<1> USE DEF Take, Advance, requestVars
<1>1. /\ \A r \in Requests : stage[r] # "taken"
      /\ \A r \in Requests : stage'[r] = IF stage[r] = "counted" THEN "taken" ELSE stage[r]
      /\ stage' \in [Requests -> {"open", "timed", "counted", "taken", "reported", "lost"}]
    BY DEF IInv, CountsAgree, TypeOK, TakenIsPosted
<1>2. \A m \in Minutes : /\ Tally(m, "counted")' = {}
                         /\ Tally(m, "taken")' = Tally(m, "counted")
    BY <1>1 DEF Tally
<1>3. Agree(minutes, "counted")'
    <2>1. DOMAIN minutes' = {}
        BY DEF NoCounts
    <2> QED
        BY <1>2, <2>1 DEF Agree
<1>4. Agree(batch, "taken")'
    BY <1>2, BatchIs DEF IInv, CountsAgree
<1>5. TypeOK'
    <2>1. DOMAIN minutes' = {}
        BY DEF NoCounts
    <2>2. TypeOK
        BY DEF IInv, CountsAgree
    <2> QED
        BY <1>1, <2>1, <2>2 DEF TypeOK
<1>6. TakenIsPosted' /\ LeavesOnStop'
    BY DEF IInv, TakenIsPosted, LeavesOnStop
<1>7. LastTakesAll'
    <2>1. Promised' = Promised /\ Promised \subseteq Requests
        BY DEF Promised, IInv, CountsAgree, TypeOK
    <2> QED
        BY <1>1, <2>1 DEF IInv, LastTakesAll
<1> QED
    BY <1>3, <1>4, <1>5, <1>6, <1>7 DEF IInv, CountsAgree

\* postSessions: the batch goes, with the requests in it.
LEMMA PostStep == ASSUME IInv, Post PROVE IInv'
<1> USE DEF Post, Advance, requestVars
<1>1. PICK how \in {"reported", "lost"} :
         stage' = [r \in Requests |-> IF stage[r] = "taken" THEN how ELSE stage[r]]
    OBVIOUS
<1>2. /\ \A r \in Requests : stage'[r] = IF stage[r] = "taken" THEN how ELSE stage[r]
      /\ stage' \in [Requests -> {"open", "timed", "counted", "taken", "reported", "lost"}]
    BY <1>1 DEF IInv, CountsAgree, TypeOK
<1>3. \A m \in Minutes : /\ Tally(m, "taken")' = {}
                         /\ Tally(m, "counted")' = Tally(m, "counted")
    BY <1>2 DEF Tally
<1>4. DOMAIN batch' = {}
    BY DEF NoCounts
<1>5. Agree(minutes, "counted")' /\ Agree(batch, "taken")'
    <2>1. Agree(minutes, "counted")'
        BY <1>3, MinutesKept DEF IInv, CountsAgree
    <2>2. Agree(batch, "taken")'
        BY <1>3, <1>4 DEF Agree
    <2> QED
        BY <2>1, <2>2
<1>6. TypeOK'
    <2>1. TypeOK /\ runPc' \in {"selecting", "returning"}
        BY DEF IInv, CountsAgree
    <2> QED
        BY <1>2, <1>4, <2>1 DEF TypeOK
<1>7. TakenIsPosted' /\ LeavesOnStop'
    BY <1>2 DEF IInv, TakenIsPosted, LeavesOnStop
<1>8. LastTakesAll'
    <2>1. Promised' = Promised /\ Promised \subseteq Requests
        BY DEF Promised, IInv, CountsAgree, TypeOK
    <2> QED
        BY <1>2, <2>1 DEF IInv, LastTakesAll
<1> QED
    BY <1>5, <1>6, <1>7, <1>8 DEF IInv, CountsAgree

\* The counts stay right while they and the requests do.
LEMMA CountsStay ==
    ASSUME IInv, UNCHANGED <<minutes, batch, at, status, stage>>
    PROVE  Agree(minutes, "counted")' /\ Agree(batch, "taken")'
<1>1. \A m \in Minutes : /\ Tally(m, "counted")' = Tally(m, "counted")
                         /\ Tally(m, "taken")' = Tally(m, "taken")
    BY DEF Tally
<1> QED
    BY <1>1, MinutesKept, BatchIs DEF IInv, CountsAgree

LEMMA ReturnStep == ASSUME IInv, RunReturns PROVE IInv'
<1> USE DEF RunReturns, requestVars
<1>1. TypeOK'
    BY DEF IInv, CountsAgree, TypeOK
<1>2. TakenIsPosted' /\ LeavesOnStop' /\ LastTakesAll'
    BY DEF IInv, TakenIsPosted, LeavesOnStop, LastTakesAll, Promised
<1> QED
    BY <1>1, <1>2, CountsStay DEF IInv, CountsAgree

\* close promises the requests that are recorded, and only while stop is open.
LEMMA CloseStepKeeps ==
    ASSUME IInv, NEW c \in Closers, CloseCall(c) \/ CloseStep(c)
    PROVE  IInv'
<1>1. /\ UNCHANGED <<minute, minutes, batch, done, runPc, at, status, stage>>
      /\ stop => stop'
    BY DEF CloseCall, CloseStep, CloseSeesStop, CloseSeesNone, CloseStop, ClosePanics,
           CloseReturns, CloseMoves, runVars, requestVars
<1>2. PICK to \in {"called", "waiting", "stopping", "panicked", "returned"} :
         closePc' = [closePc EXCEPT ![c] = to] /\ (to = "returned" => done)
    BY DEF CloseCall, CloseStep, CloseSeesStop, CloseSeesNone, CloseStop, ClosePanics,
           CloseReturns, CloseMoves
<1>3. \/ UNCHANGED recordedBy
      \/ recordedBy' = [recordedBy EXCEPT ![c] = {}]
      \/ ~stop /\ recordedBy' = [recordedBy EXCEPT ![c] = Recorded]
    BY DEF CloseCall, CloseStep, CloseSeesStop, CloseSeesNone, CloseStop, ClosePanics,
           CloseReturns
<1>4. stop' \in BOOLEAN
    BY DEF CloseCall, CloseStep, CloseSeesStop, CloseSeesNone, CloseStop, ClosePanics,
           CloseReturns, IInv, CountsAgree, TypeOK
<1>5. Recorded \subseteq Requests /\ recordedBy \in [Closers -> SUBSET Requests]
    BY DEF Recorded, IInv, CountsAgree, TypeOK
<1>6. recordedBy' \in [Closers -> SUBSET Requests]
    BY <1>3, <1>5
<1>7. TypeOK'
    BY <1>1, <1>2, <1>4, <1>6 DEF IInv, CountsAgree, TypeOK
<1>8. TakenIsPosted' /\ LeavesOnStop'
    BY <1>1, <1>2 DEF IInv, CountsAgree, TypeOK, TakenIsPosted, LeavesOnStop
<1>9. LastTakesAll'
    <2>1. CASE Promised' \subseteq Promised
        BY <1>1, <2>1 DEF IInv, LastTakesAll
    <2>2. CASE ~stop /\ recordedBy' = [recordedBy EXCEPT ![c] = Recorded]
        <3>1. Promised' \subseteq Promised \cup Recorded
            BY <1>5, <2>2 DEF Promised
        <3>2. runPc \notin {"postingLast", "returning", "exited"}
            BY <2>2 DEF IInv, LeavesOnStop
        <3>3. \A r \in Recorded : stage[r] \in {"counted", "taken", "reported", "lost"}
            BY DEF Recorded, IInv, CountsAgree, TypeOK
        <3> QED
            BY <1>1, <3>1, <3>2, <3>3 DEF IInv, LastTakesAll
    <2> QED
        BY <1>3, <1>5, <2>1, <2>2 DEF Promised
<1> QED
    BY <1>1, <1>7, <1>8, <1>9, CountsStay DEF IInv, CountsAgree

LEMMA TickStep == ASSUME IInv, Tick PROVE IInv'
<1> USE DEF Tick, runVars, requestVars
<1>1. minute' \in Minutes
    BY MaxMinuteAssumption DEF IInv, CountsAgree, TypeOK, Minutes
<1>2. TypeOK'
    BY <1>1 DEF IInv, CountsAgree, TypeOK
<1>3. TakenIsPosted' /\ LeavesOnStop' /\ LastTakesAll'
    BY DEF IInv, TakenIsPosted, LeavesOnStop, LastTakesAll, Promised
<1> QED
    BY <1>2, <1>3, CountsStay DEF IInv, CountsAgree

LEMMA StepIInv == IInv /\ [Next]_vars => IInv'
<1> SUFFICES ASSUME IInv, [Next]_vars PROVE IInv'
    OBVIOUS
<1>1. ASSUME NEW r \in Requests, ReadClock(r) \/ Record(r) PROVE IInv'
    BY <1>1, ReadClockStep, RecordStep
<1>2. CASE RunStep
    <2>1. CASE TakeOnTick \/ TakeOnStop
        BY <2>1, TakeStep DEF TakeOnTick, TakeOnStop
    <2> QED
        BY <1>2, <2>1, PostStep, ReturnStep DEF RunStep
<1>3. ASSUME NEW c \in Closers, CloseCall(c) \/ CloseStep(c) PROVE IInv'
    BY <1>3, CloseStepKeeps
<1>4. CASE UNCHANGED vars
    <2>1. TypeOK' /\ TakenIsPosted' /\ LeavesOnStop' /\ LastTakesAll'
        BY <1>4 DEF vars, IInv, CountsAgree, TypeOK, TakenIsPosted, LeavesOnStop, LastTakesAll,
                    Promised
    <2> QED
        BY <1>4, <2>1, CountsStay DEF vars, IInv, CountsAgree
<1> QED
    BY <1>1, <1>2, <1>3, <1>4, TickStep DEF Next

LEMMA Inductive == Safety => []IInv
BY InitIInv, StepIInv, PTL DEF Safety

\* The counts of a minute are those of the requests that began in it, however many
\* record themselves while a report is made up.
THEOREM CountedOnce == Spec => []CountsAgree
<1>1. IInv => CountsAgree
    BY DEF IInv
<1> QED
    BY <1>1, Inductive, PTL DEF Spec

\* A Close that has found stop open has posted what was recorded before.
THEOREM LastReport == Spec => []CloseReports
<1>1. IInv => CloseReports
    BY DEF IInv, LeavesOnStop, LastTakesAll, Promised, CloseReports
<1> QED
    BY <1>1, Inductive, PTL DEF Spec

-----------------------------------------------------------------------------
(* The guards: counting in a sequence.                                      *)

LEMMA TimesNone == ASSUME NEW what PROVE Times(<<>>, what) = 0
<1>1. {i \in DOMAIN <<>> : <<>>[i] = what} = {}
    OBVIOUS
<1> QED
    BY <1>1, FS_EmptySet DEF Times

LEMMA TimesAppend ==
    ASSUME NEW S, NEW seq \in Seq(S), NEW e \in S, NEW what
    PROVE  /\ Times(seq, what) \in Nat
           /\ Times(Append(seq, e), what)
                 = Times(seq, what) + (IF e = what THEN 1 ELSE 0)
<1> DEFINE At(s) == {i \in DOMAIN s : s[i] = what}
<1>1. Len(seq) \in Nat /\ At(seq) \in SUBSET (1..Len(seq))
    OBVIOUS
<1>2. IsFiniteSet(At(seq))
    BY <1>1, FS_Interval, FS_Subset
<1>3. Cardinality(At(seq)) \in Nat
    BY <1>2, FS_CardinalityType
<1>4. At(Append(seq, e)) = IF e = what THEN At(seq) \cup {Len(seq) + 1} ELSE At(seq)
    OBVIOUS
<1>5. Len(seq) + 1 \notin At(seq)
    BY <1>1
<1>6. Cardinality(At(seq) \cup {Len(seq) + 1}) = Cardinality(At(seq)) + 1
    BY <1>2, <1>5, FS_AddElement
<1> QED
    <2>1. Times(seq, what) = Cardinality(At(seq))
          /\ Times(Append(seq, e), what) = Cardinality(At(Append(seq, e)))
        BY DEF Times
    <2> HIDE DEF At
    <2> QED
        BY <1>3, <1>4, <1>6, <2>1

LEMMA AppendSecond ==
    ASSUME NEW S, NEW a \in S, NEW b \in S
    PROVE  Append(<<a>>, b) = <<a, b>>
<1>1. <<a>> \in Seq(S) /\ <<a, b>> \in Seq(S) /\ Len(<<a>>) = 1
    OBVIOUS
<1>2. /\ Append(<<a>>, b) \in Seq(S) /\ Len(Append(<<a>>, b)) = 2
      /\ Append(<<a>>, b)[1] = a /\ Append(<<a>>, b)[2] = b
    BY <1>1, AppendProperties
<1> DEFINE s == Append(<<a>>, b)
           t == <<a, b>>
<1>3. s \in Seq(S) /\ t \in Seq(S) /\ Len(s) = Len(t)
    BY <1>1, <1>2
<1>4. \A i \in 1..Len(s) : s[i] = t[i]
    BY <1>2
<1> HIDE DEF s, t
<1>5. s = t
    BY <1>3, <1>4, SeqEqual
<1> QED
    BY <1>5 DEF s, t

-----------------------------------------------------------------------------
(* The inductive invariant of a guard.                                      *)

Early    == {"handling", "monitored", "counting", "capturingErrors", "deferred"}
Guarding == {"capturingPanic", "responding"}

\* The options are the client's all along; a helper tracks no sessions.
OptionsOK ==
    /\ options \in Options
    /\ kind \in Helpers => ~options.tracks

\* The guard has something to report.
Reportable == \/ pc \in Guarding
              \/ Done /\ panic \notin {"none", "exit"} /\ ~Aborting

Progress ==
    /\ finishes = (IF pc \in Early \/ ~options.traces THEN 0 ELSE 1)
    /\ Done <=> outcome # "none"
    /\ pc \in Early \ {"deferred"} => panic = "none"
    /\ pc \in Guarding => panic \notin {"none", "exit"} /\ ~Aborting
    /\ pc \in {"counting", "capturingErrors"} => kind \in {"gin", "grpc"}
    /\ outcome = "panicked" => Aborting \/ panic \in {"hook", "OnPanic"} \/ Repanics
    /\ outcome = "exited" => panic = "exit"
    /\ outcome = "returned" => ~Aborting

PanicEvents ==
    /\ Times(events, "panic") = 0 \/ (Times(events, "panic") = 1 /\ Reportable)
    /\ pc = "capturingPanic" => Times(events, "panic") = 0
    /\ pc = "responding" => Times(events, "panic") = 1
    /\ Done /\ Reportable /\ panic # "hook" => Times(events, "panic") = 1
    /\ outcome = "returned" /\ panic # "none" => Times(events, "panic") = 1

Crashes ==
    options.tracks =>
        /\ Times(sessions, "crashed") = (IF Reportable THEN 1 ELSE 0)
        /\ Reportable => sessions[Len(sessions)] = "crashed"

\* What the writers remember is what was sent, unless a Flush or the handler itself
\* sent it, and what was counted goes by it.
NetHttpAnswers ==
    pc \in Early =>
        /\ sessions = <<>>
        /\ ~flushed /\ answered # Hijacked =>
              /\ written = 0 => answered = 0
              /\ written \notin {0, 103} => answered = written

GinAnswers ==
    /\ written # 103 /\ written # 0
    /\ pc \in Early /\ answered \notin {0, Hijacked} => answered = written
    /\ pc \in {"handling", "monitored", "counting"} => sessions = <<>>
    /\ pc = "capturingErrors" \/ (pc = "deferred" /\ panic = "none")
          => sessions = <<SessionForStatus(written)>>

Answers ==
    /\ kind = "net/http" /\ options.tracks => NetHttpAnswers
    /\ kind = "gin" /\ options.tracks => GinAnswers
    /\ AnswersAreCounted

Runs ==
    /\ pc = "monitored" => checkIns = <<"in_progress">>
    /\ \/ checkIns = <<>>
       \/ checkIns = <<"in_progress">> /\ (pc = "monitored" \/ panic = "exit")
       \/ \E how \in {"ok", "error"} : checkIns = <<"in_progress", how>>
    /\ panic = "job" => checkIns = <<"in_progress", "error">>

USE DEF answerVars

GuardInv == /\ MaxErrors \in Nat /\ GuardTypeOK /\ OptionsOK /\ Progress
            /\ PanicEvents /\ Crashes /\ Answers /\ Runs

LEMMA InitGuard == GuardInit => GuardInv
<1> SUFFICES ASSUME GuardInit PROVE GuardInv
    OBVIOUS
<1> USE MaxErrorsAssumption DEF GuardInit
<1>1. GuardTypeOK /\ OptionsOK
    <2>1. OptionsOK
        BY DEF OptionsOK
    <2>2. /\ kind \in Kinds /\ pc = "handling" /\ flushed = FALSE /\ MaxErrors \in Nat
          /\ written \in StatusCodes \cup {0} /\ answered = 0
          /\ error = "none" /\ attached = 0 /\ panic = "none" /\ checkIns = <<>>
          /\ sessions = <<>> /\ spanStatus = "ok" /\ finishes = 0 /\ events = <<>>
          /\ outcome = "none"
        BY DEF StatusCodes
    <2> HIDE DEF GuardInit
    <2>3. flushed \in BOOLEAN
        BY <2>2
    <2>4. GuardTypeOK
        BY <2>2, <2>3 DEF GuardTypeOK, Errors
    <2> QED
        BY <2>1, <2>4
<1>2. Progress /\ ~Reportable
    BY DEF Progress, Reportable, Early, Guarding, Done
<1>3. PanicEvents /\ Crashes
    BY <1>2, TimesNone DEF PanicEvents, Crashes, Done
<1>4. Answers
    BY DEF Answers, NetHttpAnswers, GinAnswers, AnswersAreCounted
<1>5. Runs
    BY DEF Runs
<1> QED
    BY <1>1, <1>2, <1>3, <1>4, <1>5 DEF GuardInv

-----------------------------------------------------------------------------
(* The handler and its job: they finish nothing, capture nothing and count  *)
(* no session.                                                              *)

LEMMA HandlerStep == ASSUME GuardInv, Handling PROVE GuardInv'
<1> USE DEF Handling, HandlerWritesHeader, HandlerWrites,
HandlerSetsStatus, HandlerWritesBody, HandlerFlushes, HandlerHijacks,
            HandlerAttachesError, HandlerReturns, HandlerPanics,
            HandlerExits, Handles, spanVars
<1>1. /\ pc = "handling" /\ pc' \in {"handling", "counting", "deferred"}
      /\ pc' = "counting" => kind \in {"gin", "grpc"}
      /\ pc' # "deferred" => UNCHANGED panic
      /\ panic' \in {panic, "abort", "value", "exit"}
      /\ UNCHANGED <<kind, options, checkIns, sessions, spanStatus, finishes, events, outcome>>
    OBVIOUS
<1>2. /\ written' \in {written} \cup StatusCodes
      /\ answered' \in {answered, written, Hijacked} \cup StatusCodes
      /\ flushed' \in BOOLEAN
    <2>1. written' \in {written} \cup StatusCodes
        BY DEF WriteHeader, StatusCodes
    <2>2. answered' \in {answered, written, Hijacked} \cup StatusCodes
        BY DEF WriteHeader, StatusCodes
    <2>3. flushed' \in BOOLEAN
        BY DEF GuardInv, GuardTypeOK
    <2> QED
        BY <2>1, <2>2, <2>3
<1>3. GuardTypeOK'
    <2>1. error' \in Errors \cup {error} /\ attached' \in 0..MaxErrors
        BY DEF GuardInv, GuardTypeOK, Errors
    <2> QED
        BY <1>1, <1>2, <2>1 DEF GuardInv, GuardTypeOK
<1>4. OptionsOK' /\ Progress' /\ ~Reportable /\ ~Reportable'
    BY <1>1 DEF GuardInv, OptionsOK, Progress, Reportable, Early, Guarding, Done,
       Aborting, Repanics
<1>5. PanicEvents' /\ Crashes'
    BY <1>1, <1>4 DEF GuardInv, Progress, PanicEvents, Crashes, Reportable, Early, Guarding,
       Done
<1>6. Answers'
    <2>1. ASSUME kind = "net/http", options.tracks PROVE NetHttpAnswers'
        <3>1. sessions' = <<>> /\ NetHttpAnswers
            BY <1>1, <2>1 DEF GuardInv, Answers, NetHttpAnswers, Early
        <3>2. ASSUME ~flushed', answered' # Hijacked
              PROVE  (written' = 0 => answered' = 0)
                     /\ (written' \notin {0, 103} => answered' = written')
            <4>1. CASE HandlerWritesHeader \/ HandlerWrites
                <5>1. PICK code \in StatusCodes : WriteHeader(code) /\ UNCHANGED flushed
                    BY <4>1 DEF StatusCodes
                <5>2. answered # Hijacked
                    BY <3>2, <5>1 DEF WriteHeader, Hijacked
                <5> QED
                    BY <1>1, <2>1, <3>1, <3>2, <5>1, <5>2
                    DEF NetHttpAnswers, Early, WriteHeader, StatusCodes
            <4>2. CASE HandlerFlushes \/ HandlerHijacks
                <5>1. UNCHANGED answerVars
                    BY <3>2, <4>2, <2>1 DEF Hijacked, GuardInv, GuardTypeOK
                <5> QED
                    BY <1>1, <3>1, <3>2, <5>1 DEF NetHttpAnswers, Early
            <4>3. CASE UNCHANGED answerVars
                BY <1>1, <3>1, <3>2, <4>3 DEF NetHttpAnswers, Early
            <4> QED
                BY <2>1, <4>1, <4>2, <4>3
        <3> QED
            BY <3>1, <3>2 DEF NetHttpAnswers
    <2>2. ASSUME kind = "gin", options.tracks PROVE GinAnswers'
        BY <1>1, <2>2 DEF GuardInv, Answers, Progress, GinAnswers, Early, StatusCodes
    <2>3. AnswersAreCounted'
        BY <1>1 DEF GuardInv, Progress, AnswersAreCounted, Done
    <2> QED
        BY <1>1, <2>1, <2>2, <2>3 DEF Answers
<1>7. Runs'
    BY <1>1 DEF GuardInv, Progress, Runs, Early
<1> QED
    BY <1>3, <1>4, <1>5, <1>6, <1>7 DEF GuardInv

LEMMA JobStep == ASSUME GuardInv, Monitored PROVE GuardInv'
<1> USE DEF Monitored, JobStarts, JobReturns, JobPanics, JobExits,
Monitors, CheckIn, spanVars
<1>1. /\ pc \in {"handling", "monitored"} /\ pc' \in {"handling", "monitored", "deferred"}
      /\ pc' # "deferred" => UNCHANGED panic
      /\ panic' \in {panic, "abort", "job", "exit"}
      /\ UNCHANGED <<kind, options, answerVars, error, attached, sessions, spanStatus,
                     finishes, events, outcome>>
    OBVIOUS
<1>2. GuardTypeOK'
    <2>1. checkIns' \in Seq({"in_progress", "ok", "error"})
        <3>1. /\ checkIns \in Seq({"in_progress", "ok", "error"})
              /\ \/ UNCHANGED checkIns
                 \/ \E how \in {"in_progress", "ok", "error"} : checkIns' = Append(checkIns, how)
            BY DEF GuardInv, GuardTypeOK
        <3> QED
            BY <3>1
    <2> QED
        BY <1>1, <2>1 DEF GuardInv, GuardTypeOK
<1>3. OptionsOK' /\ Progress' /\ ~Reportable /\ ~Reportable'
    BY <1>1 DEF GuardInv, OptionsOK, Progress, Reportable, Early, Guarding, Done,
       Aborting, Repanics
<1>4. PanicEvents' /\ Crashes'
    BY <1>1, <1>3 DEF GuardInv, Progress, PanicEvents, Crashes, Reportable, Early, Guarding,
       Done
<1>5. Answers'
    <2>1. AnswersAreCounted'
        BY <1>1 DEF GuardInv, Progress, AnswersAreCounted, Done
    <2>2. (NetHttpAnswers => NetHttpAnswers') /\ (GinAnswers => GinAnswers')
        BY <1>1 DEF GuardInv, Progress, NetHttpAnswers, GinAnswers, Early
    <2> QED
        BY <1>1, <2>1, <2>2 DEF GuardInv, Answers
<1>6. Runs'
    <2>1. CASE JobStarts
        <3>1. checkIns' = <<"in_progress">> /\ pc' = "monitored" /\ panic' = "none"
            BY <2>1 DEF GuardInv, Progress, Early
        <3> QED
            BY <3>1 DEF Runs
    <2>2. CASE Monitored /\ ~JobStarts
        <3>1. pc = "monitored" /\ checkIns = <<"in_progress">> /\ panic = "none"
            BY <2>2 DEF GuardInv, Progress, Runs, Early
        <3>2. \A how \in {"in_progress", "ok", "error"} : Append(<<"in_progress">>,
        how) = <<"in_progress", how>>
            BY AppendSecond
        <3> QED
            BY <2>2, <3>1, <3>2 DEF Runs
    <2> QED
        BY <2>1, <2>2
<1> QED
    BY <1>2, <1>3, <1>4, <1>5, <1>6 DEF GuardInv

-----------------------------------------------------------------------------
(* After the handler.                                                       *)

LEMMA CountStep == ASSUME GuardInv, Count PROVE GuardInv'
<1> USE DEF Count, spanVars
<1>1. kind \in {"gin", "grpc"} /\ panic = "none" /\ ~Reportable /\ ~Reportable'
    BY DEF GuardInv, Progress, Reportable, Early, Guarding, Done
<1>2. PICK how \in {"ok", "errored"} :
         /\ sessions' = (IF options.tracks THEN Append(sessions, how) ELSE sessions)
         /\ kind = "gin" => how = SessionForStatus(written)
    BY <1>1 DEF RecordSession, SessionForStatus
<1>3. sessions' \in Seq({"ok", "errored", "crashed"})
    BY <1>2 DEF GuardInv, GuardTypeOK
<1>4. GuardTypeOK' /\ OptionsOK' /\ Progress'
    BY <1>3 DEF GuardInv, GuardTypeOK, OptionsOK, Progress, Early, Guarding, Done,
       Aborting, Repanics
<1>5. PanicEvents'
    BY <1>1 DEF GuardInv, PanicEvents, Done
<1>6. Crashes'
    <2> SUFFICES ASSUME options.tracks PROVE Times(sessions', "crashed") = 0
        BY <1>1 DEF Crashes
    <2>1. /\ sessions \in Seq({"ok", "errored", "crashed"})
          /\ Times(sessions, "crashed") = 0
        BY <1>1 DEF GuardInv, GuardTypeOK, Crashes
    <2>2. Times(Append(sessions, how), "crashed") = 0
        BY <2>1, TimesAppend
    <2> QED
        BY <1>2, <2>2
<1>7. Answers'
    <2>1. AnswersAreCounted'
        BY DEF GuardInv, Progress, AnswersAreCounted, Early, Done
    <2>2. ASSUME kind = "gin", options.tracks PROVE GinAnswers'
        <3>1. sessions = <<>> /\ sessions' = Append(sessions, SessionForStatus(written))
            BY <1>2, <2>2 DEF GuardInv, Answers, GinAnswers
        <3>2. sessions' = <<SessionForStatus(written)>>
            BY <3>1
        <3> QED
            BY <2>2, <3>2 DEF GuardInv, Answers, GinAnswers, Early, SessionForStatus
    <2> QED
        BY <1>1, <2>1, <2>2 DEF Answers
<1>8. Runs'
    BY DEF GuardInv, Runs
<1> QED
    BY <1>4, <1>5, <1>6, <1>7, <1>8 DEF GuardInv

LEMMA CaptureErrorStep == ASSUME GuardInv, CaptureError PROVE GuardInv'
<1> USE DEF CaptureError, spanVars
<1>1. panic = "none" /\ ~Reportable /\ ~Reportable' /\ pc \in Early /\ pc' \in Early
    BY DEF GuardInv, Progress, Reportable, Early, Guarding, Done
<1>2. /\ events' \in Seq({"error", "panic"})
      /\ Times(events', "panic") = Times(events, "panic")
    <2>1. events \in Seq({"error", "panic"})
        BY DEF GuardInv, GuardTypeOK
    <2>2. /\ Times(events, "panic") \in Nat
          /\ Times(Append(events, "error"), "panic") = Times(events, "panic") + 0
        BY <2>1, TimesAppend
    <2>3. Append(events, "error") \in Seq({"error", "panic"})
        BY <2>1
    <2>4. events' \in {events, Append(events, "error")}
        OBVIOUS
    <2>5. CASE events' = events
        BY <2>1, <2>5
    <2>6. CASE events' = Append(events, "error")
        BY <2>2, <2>3, <2>6
    <2> QED
        BY <2>4, <2>5, <2>6
<1>3. attached' \in 0..MaxErrors
    BY DEF GuardInv, GuardTypeOK, ErrorWaits
<1>4. GuardTypeOK'
    BY <1>2, <1>3 DEF GuardInv, GuardTypeOK
<1>5. OptionsOK' /\ Progress'
    BY DEF GuardInv, OptionsOK, Progress, Early, Guarding, Done, Aborting,
       Repanics
<1>6. PanicEvents' /\ Crashes'
    BY <1>1, <1>2 DEF GuardInv, Progress, PanicEvents, Crashes, Early, Done
<1>7. Answers'
    <2>1. (NetHttpAnswers => NetHttpAnswers') /\ (GinAnswers => GinAnswers')
        BY <1>1 DEF NetHttpAnswers, GinAnswers, Early
    <2>2. AnswersAreCounted'
        BY <1>1 DEF GuardInv, Progress, AnswersAreCounted, Early, Done
    <2> QED
        BY <2>1, <2>2 DEF GuardInv, Answers
<1>8. Runs'
    BY <1>1 DEF GuardInv, Runs
<1> QED
    BY <1>4, <1>5, <1>6, <1>7, <1>8 DEF GuardInv

LEMMA ErrorsCapturedStep == ASSUME GuardInv, ErrorsCaptured PROVE GuardInv'
<1> USE DEF ErrorsCaptured, spanVars
<1>1. GuardTypeOK' /\ OptionsOK' /\ Progress' /\ Runs'
    BY DEF GuardInv, GuardTypeOK, OptionsOK, Progress, Runs, Early, Guarding, Done,
       Aborting, Repanics
<1>2. PanicEvents' /\ Crashes'
    BY DEF GuardInv, PanicEvents, Crashes, Reportable, Guarding, Done, Aborting
<1>3. Answers'
    BY DEF GuardInv, Answers, NetHttpAnswers, GinAnswers, AnswersAreCounted, Early
<1> QED
    BY <1>1, <1>2, <1>3 DEF GuardInv

-----------------------------------------------------------------------------
(* The deferred function.                                                   *)

\* The transaction is finished with what the request came to.
LEMMA FinishedAs ==
    ASSUME GuardInv, pc = "deferred",
           NEW how \in {"ok", "internal_error", "internal", "not_found", "cancelled"},
           FinishAs(how)
    PROVE  /\ spanStatus' \in {"ok", "internal_error", "internal", "not_found", "cancelled"}
           /\ finishes' = (IF options.traces THEN 1 ELSE 0)
BY DEF GuardInv, GuardTypeOK, OptionsOK, Progress, FinishAs, Early

LEMMA ReturnedStep == ASSUME GuardInv, Returned PROVE GuardInv'
<1> USE DEF Returned, spanVars
<1>1. /\ pc = "deferred" /\ pc' = "done" /\ panic \in {"none", "exit"}
      /\ outcome' = (IF panic = "exit" THEN "exited" ELSE "returned")
      /\ UNCHANGED <<kind, options, written, flushed, error, attached, panic, checkIns, events>>
      /\ ~Reportable /\ ~Reportable' /\ ~Aborting /\ ~Aborting'
    BY DEF Leave, Reportable, Guarding, Done, Aborting
<1>2. \E how \in {"ok", "internal_error", "internal", "not_found",
"cancelled"} : FinishAs(how)
    BY DEF GuardInv, GuardTypeOK, Errors, SpanForError, SpanForStatus
<1>3. PICK how \in {"ok", "errored"} :
         /\ how = SessionForStatus(written)
         /\ sessions' = (IF kind = "net/http" /\ options.tracks THEN Append(sessions, how)
                         ELSE sessions)
    BY DEF RecordSession, SessionForStatus
<1>4. /\ sessions' \in Seq({"ok", "errored", "crashed"})
      /\ Times(sessions', "crashed") = Times(sessions, "crashed")
    <2>1. sessions \in Seq({"ok", "errored", "crashed"})
        BY DEF GuardInv, GuardTypeOK
    <2>2. /\ Times(sessions, "crashed") \in Nat
          /\ Times(Append(sessions, how), "crashed") = Times(sessions, "crashed") + 0
        BY <2>1, TimesAppend
    <2> QED
        BY <1>3, <2>1, <2>2
<1>5. /\ answered' \in {answered, written, 200}
      /\ answered # 0 \/ panic = "exit" => answered' = answered
      /\ answered = 0 /\ panic = "none" /\ kind = "gin" => answered' = written
      /\ answered = 0 /\ panic = "none" /\ kind = "net/http" => answered' = 200
    OBVIOUS
<1>6. GuardTypeOK'
    BY <1>1, <1>2, <1>4, <1>5, FinishedAs DEF GuardInv, GuardTypeOK, StatusCodes
<1>7. OptionsOK' /\ Progress'
    BY <1>1, <1>2, FinishedAs DEF GuardInv, OptionsOK, Progress, Early, Guarding, Done
<1>8. PanicEvents' /\ Crashes'
    BY <1>1, <1>4 DEF GuardInv, PanicEvents, Crashes, Early, Done
<1>9. Answers'
    <2> SUFFICES AnswersAreCounted'
        BY <1>1 DEF GuardInv, Answers, NetHttpAnswers, GinAnswers, Early
    <2> SUFFICES ASSUME panic = "none", options.tracks, kind # "grpc", written # 103,
                        ~flushed, answered' # Hijacked
                 PROVE  sessions' = (IF answered' = 500 THEN <<"errored">> ELSE <<"ok">>)
        BY <1>1 DEF AnswersAreCounted
    <2>1. kind \in {"net/http", "gin"}
        BY DEF GuardInv, GuardTypeOK, OptionsOK, Kinds, Middlewares
    <2>2. written \in {0, 103, 200, 404, 500}
        BY DEF GuardInv, GuardTypeOK, StatusCodes
    <2>3. CASE kind = "net/http"
        <3>1. sessions' = <<SessionForStatus(written)>>
            BY <1>1, <1>3, <2>3 DEF GuardInv, Answers, NetHttpAnswers, Early
        <3>2. answered' = 500 <=> written = 500
            <4>1. answered # Hijacked
                BY <1>5 DEF Hijacked
            <4> QED
                BY <1>1, <1>5, <2>2, <2>3, <4>1 DEF GuardInv, Answers, NetHttpAnswers, Early
        <3> QED
            BY <2>2, <3>1, <3>2 DEF SessionForStatus
    <2>4. CASE kind = "gin"
        <3>1. sessions' = <<SessionForStatus(written)>>
            BY <1>1, <1>3, <2>4 DEF GuardInv, Answers, GinAnswers
        <3>2. answered' = written
            BY <1>1, <1>5, <2>4 DEF GuardInv, Answers, GinAnswers, Early
        <3> QED
            BY <2>2, <3>1, <3>2 DEF SessionForStatus
    <2> QED
        BY <2>1, <2>3, <2>4
<1>10. Runs'
    BY <1>1 DEF GuardInv, Runs
<1> QED
    BY <1>6, <1>7, <1>8, <1>9, <1>10 DEF GuardInv

LEMMA AbortedStep == ASSUME GuardInv, Aborted PROVE GuardInv'
<1> USE DEF Aborted, Leave
<1>1. FinishAs("cancelled") /\ ~Reportable /\ ~Reportable'
    BY DEF Reportable, Guarding, Done, Aborting
<1>2. GuardTypeOK'
    BY <1>1, FinishedAs DEF GuardInv, GuardTypeOK
<1>3. OptionsOK' /\ Progress'
    BY <1>1, FinishedAs DEF GuardInv, OptionsOK, Progress, Early, Guarding, Done,
       Aborting
<1>4. PanicEvents' /\ Crashes'
    BY <1>1 DEF GuardInv, PanicEvents, Crashes, Done
<1>5. Answers' /\ Runs'
    BY DEF GuardInv, Answers, NetHttpAnswers, GinAnswers, AnswersAreCounted, Runs, Early
<1> QED
    BY <1>2, <1>3, <1>4, <1>5 DEF GuardInv

LEMMA RecoveredStep == ASSUME GuardInv, Recovered PROVE GuardInv'
<1> USE DEF Recovered
<1>1. FinishAs("internal_error") /\ ~Reportable /\ Reportable'
    BY DEF Reportable, Guarding, Done
<1>2. sessions' = (IF options.tracks THEN Append(sessions, "crashed") ELSE sessions)
    BY DEF RecordSession
<1>3. sessions' \in Seq({"ok", "errored", "crashed"})
    BY <1>2 DEF GuardInv, GuardTypeOK
<1>4. GuardTypeOK'
    BY <1>1, <1>3, FinishedAs DEF GuardInv, GuardTypeOK
<1>5. OptionsOK' /\ Progress'
    BY <1>1, FinishedAs DEF GuardInv, OptionsOK, Progress, Early, Guarding, Done,
       Aborting, Repanics
<1>6. PanicEvents'
    BY <1>1 DEF GuardInv, Progress, PanicEvents, Done, Early
<1>7. Crashes'
    <2> SUFFICES ASSUME options.tracks
                 PROVE  /\ Times(sessions', "crashed") = 1
                        /\ sessions'[Len(sessions')] = "crashed"
        BY <1>1 DEF Crashes, OptionsOK
    <2>1. sessions \in Seq({"ok", "errored", "crashed"}) /\ Times(sessions, "crashed") = 0
        BY <1>1 DEF GuardInv, GuardTypeOK, Crashes
    <2> QED
        BY <1>2, <2>1, TimesAppend
<1>8. Answers' /\ Runs'
    BY DEF GuardInv, Progress, Answers, NetHttpAnswers, GinAnswers, AnswersAreCounted,
       Runs, Early, Done
<1> QED
    BY <1>4, <1>5, <1>6, <1>7, <1>8 DEF GuardInv

LEMMA CapturePanicStep == ASSUME GuardInv, CapturePanic PROVE GuardInv'
<1> USE DEF CapturePanic, Leave, spanVars
<1>1. Reportable /\ Reportable'
    BY DEF Reportable, Guarding, Done, Aborting
<1>2. /\ events' \in Seq({"error", "panic"})
      /\ Times(events', "panic") = (IF pc' = "responding" THEN 1 ELSE 0)
    <2>1. events \in Seq({"error", "panic"}) /\ Times(events, "panic") = 0
        BY DEF GuardInv, GuardTypeOK, PanicEvents
    <2>2. Times(Append(events, "panic"), "panic") = 1
        BY <2>1, TimesAppend
    <2>3. Append(events, "panic") \in Seq({"error", "panic"})
        BY <2>1
    <2>4. \/ events' = Append(events, "panic") /\ pc' = "responding"
          \/ events' = events /\ pc' = "done"
        OBVIOUS
    <2> QED
        BY <2>1, <2>2, <2>3, <2>4
<1>3. GuardTypeOK'
    BY <1>2 DEF GuardInv, GuardTypeOK
<1>4. OptionsOK' /\ Progress'
    BY DEF GuardInv, OptionsOK, Progress, Early, Guarding, Done, Aborting,
       Repanics
<1>5. PanicEvents'
    BY <1>1, <1>2, <1>4 DEF PanicEvents, Progress, Done, Reportable
<1>6. Crashes'
    BY <1>1 DEF GuardInv, Crashes
<1>7. Answers' /\ Runs'
    BY DEF GuardInv, Progress, Answers, NetHttpAnswers, GinAnswers, AnswersAreCounted,
       Runs, Early,
           Guarding, Done
<1> QED
    BY <1>3, <1>4, <1>5, <1>6, <1>7 DEF GuardInv

LEMMA RaiseAgainStep == ASSUME GuardInv, RaiseAgain PROVE GuardInv'
<1> USE DEF RaiseAgain, Leave, spanVars
<1>1. Reportable /\ Reportable' /\ ~Aborting /\ ~Aborting' /\ panic # "none"
    BY DEF GuardInv, Progress, Reportable, Guarding, Done, Aborting
<1>2. GuardTypeOK' /\ OptionsOK' /\ Progress'
    BY <1>1 DEF GuardInv, GuardTypeOK, OptionsOK, Progress, Early, Guarding, Done, Repanics
<1>3. PanicEvents' /\ Crashes'
    BY <1>1 DEF GuardInv, PanicEvents, Crashes, Done
<1>4. Answers' /\ Runs'
    BY <1>1 DEF GuardInv, Answers, NetHttpAnswers, GinAnswers, AnswersAreCounted, Runs, Early
<1> QED
    BY <1>2, <1>3, <1>4 DEF GuardInv

LEMMA RespondStep == ASSUME GuardInv, Respond PROVE GuardInv'
<1> USE DEF Respond, Leave, WriteHeader, spanVars
<1>1. Reportable /\ Reportable' /\ ~Aborting /\ ~Aborting' /\ panic # "none"
    BY DEF GuardInv, Progress, Reportable, Guarding, Done, Aborting
<1>2. GuardTypeOK'
    BY DEF GuardInv, GuardTypeOK, StatusCodes, Errors
<1>3. OptionsOK' /\ Progress'
    BY <1>1 DEF GuardInv, OptionsOK, Progress, Early, Guarding, Done, Repanics
<1>4. PanicEvents' /\ Crashes'
    BY <1>1 DEF GuardInv, PanicEvents, Crashes, Done
<1>5. Answers' /\ Runs'
    BY <1>1 DEF GuardInv, Answers, NetHttpAnswers, GinAnswers, AnswersAreCounted, Runs, Early
<1> QED
    BY <1>2, <1>3, <1>4, <1>5 DEF GuardInv

\* The panic of the hook is another one than the guard's, which is an event already.
LEMMA OnPanicStep == ASSUME GuardInv, OnPanic PROVE GuardInv'
<1> USE DEF OnPanic, Leave, spanVars
<1>1. Reportable /\ Reportable' /\ ~Aborting /\ ~Aborting' /\ panic' # "none"
    BY DEF GuardInv, Progress, Reportable, Guarding, Done, Aborting
<1>2. GuardTypeOK'
    BY DEF GuardInv, GuardTypeOK, StatusCodes
<1>3. OptionsOK' /\ Progress'
    BY <1>1 DEF GuardInv, OptionsOK, Progress, Early, Guarding, Done, Repanics
<1>4. PanicEvents' /\ Crashes'
    BY <1>1 DEF GuardInv, PanicEvents, Crashes, Done
<1>5. Answers'
    <2>1. written' \in {200, 404, 500} \/ written' = written
        BY DEF StatusCodes
    <2>2. pc' = "done" /\ kind' = kind /\ options' = options
        OBVIOUS
    <2> HIDE DEF OnPanic
    <2> QED
        BY <1>1, <2>1, <2>2 DEF GuardInv, Answers, NetHttpAnswers, GinAnswers,
           AnswersAreCounted, Early
<1>6. Runs'
    <2>1. panic # "exit" /\ panic' \in {panic, "OnPanic"} /\ UNCHANGED checkIns
        BY DEF GuardInv, Progress, Guarding
    <2> QED
        BY <2>1 DEF GuardInv, Runs
<1> QED
    BY <1>2, <1>3, <1>4, <1>5, <1>6 DEF GuardInv


-----------------------------------------------------------------------------
LEMMA StepGuard == GuardInv /\ [GuardNext]_(guardVars) => GuardInv'
<1> SUFFICES ASSUME GuardInv, [GuardNext]_(guardVars) PROVE GuardInv'
    OBVIOUS
<1>1. CASE UNCHANGED guardVars
    BY <1>1 DEF guardVars, spanVars, GuardInv, GuardTypeOK, OptionsOK, Progress,
       PanicEvents, Crashes, Reportable,
                Answers, NetHttpAnswers, GinAnswers, AnswersAreCounted, Runs, Done,
                Aborting,
                Repanics
<1>2. CASE Terminated
    BY <1>1, <1>2 DEF Terminated
<1> QED
    BY <1>1, <1>2, HandlerStep, JobStep, CountStep, CaptureErrorStep, ErrorsCapturedStep,
       ReturnedStep, AbortedStep, RecoveredStep, CapturePanicStep, RaiseAgainStep,
       RespondStep, OnPanicStep DEF GuardNext

LEMMA GuardInductive == GuardSpec => []GuardInv
BY InitGuard, StepGuard, PTL DEF GuardSpec

\* On every way out of a guard the transaction is finished once, or not at all when
\* there is none.
THEOREM FinishesOnce == GuardSpec => []FinishedOnce
<1>1. GuardInv => FinishedOnce
    BY DEF GuardInv, OptionsOK, Progress, FinishedOnce, Done, Early
<1> QED
    BY <1>1, GuardInductive, PTL

\* No panic leaves a guard but those that must and those of the application's own
\* hooks on its way, and none is swallowed, or given to OnPanic, unreported.
THEOREM StaysUp == GuardSpec => []ServerStaysUp
<1>1. GuardInv => ServerStaysUp
    BY DEF GuardInv, Progress, PanicEvents, Reportable, ServerStaysUp
<1> QED
    BY <1>1, GuardInductive, PTL

\* A monitored run is ended by one check-in, an error when its job panics.
THEOREM RunsEnd == GuardSpec => []RunEndsOnce
<1>1. GuardInv => RunEndsOnce
    BY DEF GuardInv, Runs, RunEndsOnce, Done
<1> QED
    BY <1>1, GuardInductive, PTL

\* Sessions tell what became of the requests, whichever way these end, where the
\* status the middleware remembers is the one sent: not after an informational header,
\* a header that Flush sent, or a Hijack.
THEOREM SessionsTell == GuardSpec => []SessionTellsTheTruth
<1>1. ASSUME GuardInv PROVE CrashesAreCounted
    <2> DEFINE crashed == \/ panic \in {"value", "job", "hook", "OnPanic"}
                          \/ panic = "abort" /\ kind = "grpc"
    <2>1. Done /\ options.tracks => (Reportable <=> crashed)
        <3>1. panic \in {"none", "abort", "value", "job", "hook", "OnPanic", "exit"}
            BY <1>1 DEF GuardInv, GuardTypeOK
        <3>2. options.tracks => kind \in {"net/http", "gin", "grpc"}
            BY <1>1 DEF GuardInv, GuardTypeOK, OptionsOK, Kinds, Middlewares
        <3> QED
            BY <3>1, <3>2 DEF Reportable, Guarding, Done, Aborting
    <2>2. Times(events, "panic") \in {0, 1} /\ (~Reportable => Times(events,
    "panic") = 0)
        BY <1>1 DEF GuardInv, PanicEvents
    <2>3. options.tracks => /\ Times(sessions, "crashed") = (IF Reportable THEN 1 ELSE 0)
                            /\ Reportable => sessions[Len(sessions)] = "crashed"
        BY <1>1 DEF GuardInv, Crashes
    <2>4. options.tracks => Times(events, "panic") <= Times(sessions, "crashed")
        BY <2>2, <2>3
    <2>5. Done /\ options.tracks =>
             /\ Times(sessions, "crashed") = (IF crashed THEN 1 ELSE 0)
             /\ crashed => sessions[Len(sessions)] = "crashed"
             /\ Times(events, "panic") <= Times(sessions, "crashed")
        BY <2>1, <2>3, <2>4
    <2> QED
        BY <2>5 DEF CrashesAreCounted
<1>2. GuardInv => SessionTellsTheTruth
    BY <1>1 DEF GuardInv, Answers, SessionTellsTheTruth
<1> QED
    BY <1>2, GuardInductive, PTL
=============================================================================
