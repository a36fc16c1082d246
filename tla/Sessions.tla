------------------------------ MODULE Sessions -------------------------------
(***************************************************************************)
(* Release health (src/sessions.go): requests record how they ended, a     *)
(* background goroutine takes the counts every minute and posts them, and  *)
(* Client.Close stops it after a last report.  A request reads the clock   *)
(* before it takes the aggregator's lock.                                  *)
(***************************************************************************)
EXTENDS Integers, FiniteSets

CONSTANTS
    Requests,   \* requests, each recorded once
    Closers,    \* goroutines that call Client.Close, any number of times
    MaxMinute   \* the clock stops here

ASSUME RequestsAssumption  == IsFiniteSet(Requests)
ASSUME MaxMinuteAssumption == MaxMinute \in Nat

VARIABLES
    minute,     \* time.Now(), in minutes
    minutes,    \* the aggregator's map: minute to counts
    batch,      \* what take returned to the flush under way
    stop, done, \* the two channels: closed or not
    runPc,      \* where the background goroutine stands
    closePc,    \* where each Close stands
    at,         \* the minute each request read
    status,     \* how it ended
    stage,      \* history: how far each request has come
    recordedBy  \* history: the requests recorded when each Close found stop open

runVars     == <<batch, done, runPc>>
requestVars == <<at, status>>
vars == <<minute, minutes, batch, stop, done, runPc, closePc, at, status, stage,
          recordedBy>>

Minutes  == 0..MaxMinute
Statuses == {"ok", "errored", "crashed"}
Counts   == [total : Nat, errored : Nat, crashed : Nat]
Zero     == [total |-> 0, errored |-> 0, crashed |-> 0]
NoCounts == [m \in {} |-> Zero]

Init ==
    /\ minute = 0 /\ minutes = NoCounts /\ batch = NoCounts
    /\ stop = FALSE /\ done = FALSE /\ runPc = "selecting"
    /\ closePc = [c \in Closers |-> "idle"]
    /\ at = [r \in Requests |-> 0] /\ status \in [Requests -> Statuses]
    /\ stage = [r \in Requests |-> "open"]
    /\ recordedBy = [c \in Closers |-> {}]

-----------------------------------------------------------------------------
(* record                                                                   *)

CountsOf(m) == IF m \in DOMAIN minutes THEN minutes[m] ELSE Zero

\* A crashed session is an errored one too.
Counted(counts, how) ==
    [total   |-> counts.total + 1,
     errored |-> counts.errored + (IF how \in {"errored", "crashed"} THEN 1 ELSE 0),
     crashed |-> counts.crashed + (IF how = "crashed" THEN 1 ELSE 0)]

\* Slip: the minute is rounded, not truncated.
ReadClock_Rounds(r) ==
    /\ stage[r] = "open"
    /\ stage' = [stage EXCEPT ![r] = "timed"]
    /\ \E m \in {minute, minute + 1} : at' = [at EXCEPT ![r] = m]
    /\ UNCHANGED <<minute, minutes, runVars, stop, closePc, status, recordedBy>>

ReadClock(r) ==
    /\ stage[r] = "open"
    /\ stage' = [stage EXCEPT ![r] = "timed"]
    /\ at' = [at EXCEPT ![r] = minute]
    /\ UNCHANGED <<minute, minutes, runVars, stop, closePc, status, recordedBy>>

\* Slip: the map is set up again for the minute of the newest request.
Record_Resets(r) ==
    /\ stage[r] = "timed"
    /\ stage' = [stage EXCEPT ![r] = "counted"]
    /\ minutes' = [m \in {at[r]} |-> Counted(CountsOf(m), status[r])]
    /\ UNCHANGED <<minute, runVars, stop, closePc, requestVars, recordedBy>>

Record(r) ==
    /\ stage[r] = "timed"
    /\ stage' = [stage EXCEPT ![r] = "counted"]
    /\ minutes' = [m \in DOMAIN minutes \cup {at[r]} |->
                      IF m = at[r] THEN Counted(CountsOf(m), status[r]) ELSE minutes[m]]
    /\ UNCHANGED <<minute, runVars, stop, closePc, requestVars, recordedBy>>

-----------------------------------------------------------------------------
(* run and flush                                                            *)

\* All requests of one stage go to the next.
Advance(from, to) ==
    stage' = [r \in Requests |-> IF stage[r] = from THEN to ELSE stage[r]]

\* take, from the ticker's case or from the stop's.
Take(next) ==
    /\ batch' = minutes
    /\ minutes' = NoCounts
    /\ Advance("counted", "taken")
    /\ runPc' = next
    /\ UNCHANGED <<minute, stop, done, closePc, requestVars, recordedBy>>

TakeOnTick == runPc = "selecting" /\ Take("posting")

\* Slip: the loop leaves without a last report.
TakeOnStop_NoFlush ==
    /\ runPc = "selecting" /\ stop
    /\ runPc' = "returning"
    /\ UNCHANGED <<minute, minutes, batch, stop, done, closePc, requestVars, stage,
                   recordedBy>>

TakeOnStop == runPc = "selecting" /\ stop /\ Take("postingLast")

\* postSessions: reported, or lost with the request that failed; an empty batch
\* is not posted.
Post ==
    /\ runPc \in {"posting", "postingLast"}
    /\ \E how \in {"reported", "lost"} : Advance("taken", how)
    /\ batch' = NoCounts
    /\ runPc' = IF runPc = "posting" THEN "selecting" ELSE "returning"
    /\ UNCHANGED <<minute, minutes, stop, done, closePc, requestVars, recordedBy>>

\* Slip: nothing closes done.
RunReturns_Silent ==
    /\ runPc = "returning"
    /\ runPc' = "exited"
    /\ UNCHANGED <<minute, minutes, batch, stop, done, closePc, requestVars, stage,
                   recordedBy>>

\* The deferred close(a.done).
RunReturns ==
    /\ runPc = "returning"
    /\ runPc' = "exited" /\ done' = TRUE
    /\ UNCHANGED <<minute, minutes, batch, stop, closePc, requestVars, stage, recordedBy>>

-----------------------------------------------------------------------------
(* close: two steps, the check of stop and its closing, under no lock.      *)

CloseMoves(c, from, to) ==
    /\ closePc[c] = from
    /\ closePc' = [closePc EXCEPT ![c] = to]
    /\ UNCHANGED <<minute, minutes, runVars, requestVars, stage>>

Recorded == {r \in Requests : stage[r] \notin {"open", "timed"}}

CloseCall(c) ==
    /\ \E from \in {"idle", "returned"} : CloseMoves(c, from, "called")
    /\ UNCHANGED <<stop, recordedBy>>

CloseSeesStop(c) ==
    /\ stop /\ CloseMoves(c, "called", "waiting")
    /\ recordedBy' = [recordedBy EXCEPT ![c] = {}]
    /\ UNCHANGED stop

CloseSeesNone(c) ==
    /\ ~stop /\ CloseMoves(c, "called", "stopping")
    /\ recordedBy' = [recordedBy EXCEPT ![c] = Recorded]
    /\ UNCHANGED stop

CloseStop(c) ==
    /\ ~stop /\ CloseMoves(c, "stopping", "waiting")
    /\ stop' = TRUE
    /\ UNCHANGED recordedBy

\* close of a closed channel
ClosePanics(c) ==
    /\ stop /\ CloseMoves(c, "stopping", "panicked")
    /\ UNCHANGED <<stop, recordedBy>>

\* Slip: Close does not wait for the last report.
CloseReturns_AtOnce(c) ==
    /\ CloseMoves(c, "waiting", "returned")
    /\ UNCHANGED <<stop, recordedBy>>

\* <-a.done
CloseReturns(c) ==
    /\ done /\ CloseMoves(c, "waiting", "returned")
    /\ UNCHANGED <<stop, recordedBy>>

-----------------------------------------------------------------------------
Tick == /\ minute < MaxMinute
        /\ minute' = minute + 1
        /\ UNCHANGED <<minutes, runVars, stop, closePc, requestVars, stage, recordedBy>>

RunStep == TakeOnTick \/ TakeOnStop \/ Post \/ RunReturns

CloseStep(c) == \/ CloseSeesStop(c) \/ CloseSeesNone(c) \/ CloseStop(c) \/ ClosePanics(c)
                \/ CloseReturns(c)

\* A panic that nobody recovers ends the process.
Alive == \A c \in Closers : closePc[c] # "panicked"

Next == \/ /\ Alive
           /\ \/ \E r \in Requests : ReadClock(r) \/ Record(r)
              \/ RunStep
              \/ \E c \in Closers : CloseCall(c) \/ CloseStep(c)
              \/ Tick
        \/ ~Alive /\ UNCHANGED vars

Safety == Init /\ [][Next]_vars

\* The goroutines run.  select chooses at random among the ready cases, so the
\* stop is not passed over for ever: strong fairness.  A report ends by itself.
Fairness == /\ WF_vars(Alive /\ RunStep) /\ SF_vars(Alive /\ TakeOnStop)
            /\ \A c \in Closers : WF_vars(Alive /\ CloseStep(c))

Spec == Safety /\ Fairness

-----------------------------------------------------------------------------
(* What holds.                                                              *)

TypeOK ==
    /\ minute \in Minutes
    /\ \A counts \in {minutes, batch} :
          DOMAIN counts \subseteq Minutes /\ \A m \in DOMAIN counts : counts[m] \in Counts
    /\ stop \in BOOLEAN /\ done \in BOOLEAN
    /\ runPc \in {"selecting", "posting", "postingLast", "returning", "exited"}
    /\ closePc \in [Closers -> {"idle", "called", "stopping", "waiting", "returned",
                                "panicked"}]
    /\ at \in [Requests -> Minutes] /\ status \in [Requests -> Statuses]
    /\ stage \in [Requests -> {"open", "timed", "counted", "taken", "reported", "lost"}]
    /\ recordedBy \in [Closers -> SUBSET Requests]

\* The counts of a minute are those of the requests that read the clock in it and
\* are not taken yet (minutes) or are being posted (batch): none is missed, none
\* is in two reports, though reports and requests interleave.
Tally(m, where) == {r \in Requests : stage[r] = where /\ at[r] = m}
Failed(rs)  == {r \in rs : status[r] \in {"errored", "crashed"}}
Crashed(rs) == {r \in rs : status[r] = "crashed"}
Agree(counts, where) ==
    /\ DOMAIN counts = {m \in Minutes : Tally(m, where) # {}}
    /\ \A m \in DOMAIN counts :
          counts[m] = [total   |-> Cardinality(Tally(m, where)),
                       errored |-> Cardinality(Failed(Tally(m, where))),
                       crashed |-> Cardinality(Crashed(Tally(m, where)))]
CountsAgree == TypeOK /\ Agree(minutes, "counted") /\ Agree(batch, "taken")

\* close reports what is left: when it returns, every request recorded before it
\* found stop open has been posted.  A Close that finds stop closed promises
\* nothing: the last report may be over, and what is recorded after it stays.
CloseReports ==
    \A c \in Closers : closePc[c] = "returned"
        => \A r \in recordedBy[c] : stage[r] \in {"reported", "lost"}

\* Close comes back, also when it is called again, unless two that both found stop
\* open (sessions.go:130) have ended the process: the second close panics.
CloseEnds == \A c \in Closers : closePc[c] = "called" ~> closePc[c] = "returned" \/ ~Alive
=============================================================================
