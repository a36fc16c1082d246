# The bugfree Go SDK in TLA+

TLA+ modules of the SDK in this repository, TLC configurations that check them on small
instances, and proofs that TLAPS checks for every instance. `PROJECT.json` lists the parts of
the system, every run with its properties, the source lines each definition stands for, the
hazards of the code, the disagreements found, and the theorems.

    tlc -config MCHttpTransport_safety.cfg MCHttpTransport     # one run
    tlapm HttpTransportProofs.tla                               # one module of proofs

## 1. The system

The SDK runs inside a Go program and tells a server about its errors, sessions, transactions,
check-ins and profiles. It must never block, crash or flood: the application comes first. Its
state is shared by every goroutine that calls it, so its difficulty is concurrency at the moment
of shutdown, bounded queues and tables, and hooks of the application that may panic.

### Inventory

| Component | Source | State | Operations | What makes it hard | Correct when |
|---|---|---|---|---|---|
| HTTP transport | `transport.go` | channel, `pending`, `closed`, `pausedUntil`, drop counters, a context | `Send`, the worker's `post` and retry, `pause`, `Flush`, `Close` | senders, one worker, closers and flushers at once; a lock, a channel and atomics that are not one; timeouts | nothing accepted is lost or sent twice, `pending` is exact, no write to a closed channel, `Close` ends |
| Duplicate filter | `dedupe.go` | table of signatures | `admit`, `evict` | a clock read outside the lock, a bounded table, repeats carried along | one event per window, repeats add up |
| Capture path | `client.go` | the filter, the statistics | `Capture*`, `sampled`, `finish`, `Stats` | the filter, `BeforeSend` and the transport decide one after another | a first copy is never held back, the id says what happened |
| Session aggregator | `sessions.go` | counts per minute | `record`, `run`, `flush`, `take`, `close` | requests record while counts are taken and posted | each request in exactly one report |
| Tracing: spans | `tracing.go` | a transaction, its children, their maps | `StartSpan`, `Finish`, `SetTag`, `SetData`, `payload` | spans finish twice, late and at once; maps are passed on unlocked | one report, complete |
| Tracing: delivery | `tracing.go` | channel made on demand, closed flag | `sendTransaction`, `deliverTransactions`, `closeTraces` | as the transport, with a channel that may not exist yet | as the transport |
| Scopes | `scope.go` | breadcrumbs, tags, user per scope | `Add*`, `Set*`, `Clear`, `ContextWithScope`, `apply`, `breadcrumbs` | an event reads a chain of scopes under one lock after another | nothing of another request leaks into an event |
| Middlewares | `recover.go`, `gin/`, `grpc/`, `statusWriter` | one request's way out | `Middleware`, `Recovery`, interceptors | panics, aborts, and panics of hooks inside the recovery | the server stays up, one session, one transaction |
| Client lifecycle | `client.go` | the global client | `Init`, `NewClient`, `Close` | several at once; parts stopped in order | no client leaks, the transport goes last |
| Profiler | `profiling.go` | one goroutine, the program's one CPU profile | `run`, `profileCPU`, `send`, `close` | the profile is shared with the application | it stops only its own profile |
| Check-ins and monitors | `check-in.go` | none of its own | `CaptureCheckIn`, `WithMonitor` | its 429 pauses the transport; the job may panic or end its goroutine | respects and sets the pause; a run that began ends once |
| Recover helpers | `recover.go` | none | `Recover`, `RecoverAndContinue`, `Go` | a panic raised again, an abort, a goroutine that exits | one event per panic, none swallowed |
| SQL breadcrumbs | `sql-breadcrumbs.go` | none; wraps a driver's connection | `ExecContext`, `QueryContext`, `Prepare*`, `BeginTx`, `Ping`, `ResetSession`, `CheckNamedValue` | `database/sql` picks its path by the interfaces it finds, and retries | the driver sees the calls it would have seen; the trail tells the outcome |
| HTTP breadcrumbs | `http-breadcrumbs.go` | none | `RoundTrip` | the SDK's own requests must not be traced | the next service continues the trace |
| Tracing: sampling and traceparent | `tracing.go` | none shared | `StartTransaction`, `ContinueTrace`, `TraceParent` | services with different rates and trust | a trace is recorded whole or not at all |
| Log handler | `log-handler.go` | attributes and groups of a derived handler | `WithAttrs`, `WithGroup`, `Enabled`, `Handle` | nested groups, derived handlers, errors among attributes | fields do not depend on who gave them |
| Errors with stacks | `stack-error.go`, `scope.go` | none | `WithStack`, `Errorf`, `StackOf`, the chain of an event | trees of joined errors, cut at a bound | the cause's stack, every error named |
| Stack traces | `stack-trace.go` | none | `captureStack`, `trimRuntimeFrames` | panics raised again: several `gopanic` frames | the frames start where things went wrong |
| Feedback, options, event types, source lines, build info, gin breadcrumbs | `feedback.go`, `options.go`, `event.go`, `source-context.go`, `build-info.go`, `gin/` | a cache of lines | parsing, setters, one call each | - | not modelled, see 5 |

### How they interact

    application --Capture*--> Capture path --admit--> Duplicate filter
                                  |  reads Scope chain (Scopes)
                                  +--Send--> HTTP transport --POST--> server
    Middlewares --capture, RecordSession, Finish--> Capture path, Sessions, Spans
    Spans (transaction finished) --payload--> Tracing delivery --POST, pause--> server
    Check-ins, Tracing delivery --pause/paused--> HTTP transport
    SQL and HTTP breadcrumbs --AddBreadcrumb, StartSpan--> Scopes, Spans
    Log handler, Recover helpers --capture--> Capture path  (with Errors and Stack traces)
    Init/Close --stop and wait, in order--> Profiler, Sessions, Tracing delivery, HTTP transport

Calls are synchronous; the four goroutines of a client (worker, sessions, transactions,
profiler) are reached through channels and closed flags. The pause is the one piece of state
three components share.

## 2. The modules

| Module | Models | State, and what it corresponds to |
|---|---|---|
| `EventDelivery` | what a queue of events promises (abstract) | `phase` of the transport, `waiting` in order, a `verdict` per event; no code of its own |
| `HttpTransport` | `transport.go`, and how check-ins touch the pause | `sendPc`/`workerPc`/`closePc`/`flushPc`/`checkInPc`: where each goroutine stands; `queue`, `pending`, `closed`, `cancelled`, `droppedFull`, `droppedPaused` are the fields of those names; `pauseLeft` is `pausedUntil` minus now; `fate` is a history of what became of an event |
| `Dedupe` | `dedupe.go` as operators on the table | - |
| `Capture` | `client.go`'s capture functions, around `Dedupe` | the table, the clock, where each capture stands, the statistics |
| `Sessions` | the aggregator of `sessions.go` | `minutes` (the map), `batch` (what is being posted), `stop`, `done`, where each request and Close stands |
| `Spans` | one transaction and its children | finished flags, the child list, the payload, who encodes |
| `TraceQueue` | the delivery of transactions | as `HttpTransport`, with `started` for the once and `shut` apart from `chanClosed` |
| `Scope` | scopes and what an event reads from them | breadcrumb list, has-tag, has-user and parents per scope, a reader's progress |
| `Requests` | the three middlewares around one request, and the recover helpers and `WithMonitor` around a piece of work | what the handler or job did so far, the session(s), the span, the captures, the check-ins, the answer |
| `Lifecycle` | `Init`, `Close`, the profiler | the global client, where each goroutine of each client stands, who owns the CPU profile |
| `DatabaseSql` | what `database/sql` does with a driver's connection, unwrapped (external, abstract) | the operation, where its attempt stands, the pool, the driver's calls and the application's answer |
| `SqlBreadcrumbs` | `sql-breadcrumbs.go` under the same `database/sql` | the same and the breadcrumbs of the call |
| `ErrorTrees` | errors that are wrapped, joined and given stacks; type, chain and stack of an event | a forest of errors, which never change |
| `LogRecords` | handlers derived from each other, and one record | attributes, the group, what was logged |
| `TraceContext` | a request's way through services | the header on the wire, the transaction of each service, its calls |
| `PanicStacks` | the call stack of a goroutine that panics, with guards that raise again | the stack, where it went wrong, the frames of the event |
| `Reports` | the four above in one specification: a behaviour is about one of them | a subject, and the variables of the four |
| `DataLemmas` | facts about queues without repetition, smallest elements and sums, used by the proofs | - |
| `...Proofs` | theorems: see 4 | - |
| `MC...` | the instances TLC checks | - |

An action is one access to shared state: a critical section, one atomic, one channel operation.
Code between two of them is local to its goroutine and joins one of them. Composition is by
contract, not by product: `Lifecycle` treats sessions, transactions and transport as running,
stopping or gone and takes from `Sessions`, `TraceQueue` and `HttpTransport` what closing them
does; `TraceQueue` lets the pause change freely, which covers all that `HttpTransport` does with
it; `Capture` lets the transport take or drop an event. `HttpTransport` and `TraceQueue` are both
shown to implement the abstract `EventDelivery` under a refinement mapping, and `SqlBreadcrumbs`
to implement `DatabaseSql` for the drivers `Faithful` names: a wrapper is right when it makes no
difference.

Definitions named `Action_Slip` are the mistakes a change to the code could make in that action.
No specification uses them; replacing the action by its slip breaks the property it is listed
with under `mutants`, which is how one knows the property says something about the code.

## 3. The runs

Passing runs; the bounds are those of the `.cfg` files.

| Run | Instance | Shows |
|---|---|---|
| `transport_safety` | 3 senders, 1 slot, 2 closers, a flusher, a check-in, waits 1 and 2 | the channel is open while a Send writes, `pending` is exact but for Sends between channel and counter, each event is in one place, the counters tell the truth, a returned Close left nothing undecided, events are given up only after a Close gave up, no first attempt during a pause the worker has seen, and what a true Flush saw |
| `transport_delivery` | 3 senders, 2 slots, 2 closers; no symmetry, under fairness | implements `EventDelivery`: accepted at most once, decided once and in order, finished with nothing undecided; every accepted event is decided, every Close returns |
| `capture_safety` | 4 captures of 2 errors, table of 1, window 2 or off, time to 3 | repeats add up over events and what the table forgets, one event per window, a first copy passes |
| `spans_safety` | 3 children, 4 Finish calls, room for 2 | one report; the payload is the children that finished before it and were past the list, at most the bound |
| `traces_delivery` | 3 transactions, 2 slots, 2 Closes; under fairness | the channel is open for every writer; implements `EventDelivery`: none is lost, decided twice, out of order or left by a Close in time; every transaction is decided |
| `health_told` | a guard: each middleware and helper, each option, up to 2 attached errors. Or the aggregator: 2 requests, 2 minutes, 2 Closes; under fairness | the transaction is finished once on every way out; a panic leaves only where it is meant to (an abort, an option, a hook, `OnPanic`) and is one event; a crash is one crashed session, and otherwise the session says what the answer said, unless an informational header, a Flush or a Hijack came before it; a monitored run ends once. Each request is counted once, in its minute; the last report has every request recorded before Close; Close returns unless the process has panicked |
| `lifecycle_close` | 2 Inits, 1 Close; under fairness | the profiler stops its own profile only, the transport is shut last, Init touches only the client it replaces; no replaced client is left open; a Close returns, or panics on a channel another has closed, which then returns |
| `breadcrumbs_trails` | a driver: every combination of a driver's interfaces, of plain, named or custom arguments, of contexts and flows; 2 retries, a pooled connection. Or scopes: global and 2 scopes, 2 breadcrumbs, room for 1, tags and users on the two | the breadcrumbs of a call tell its outcome, in its own flow; and where the setting is faithful each step is one of `DatabaseSql`: the driver's calls and the application's answers are those without the wrapper. An event leaves a breadcrumb out only for ones that are no older; nothing comes from a scope outside the chain, and the own scope wins |
| `reports_tell` | 5 errors and a chain of 2; 2 derivations and a record; 3 services, 2 calls; stacks of 9 frames, 6 reported | an event has the stack of the cause and names every error as often as it is wrapped; a record's fields are all there whoever gave them, and a wrapped handler gets the same; a trace is recorded whole or not at all and linked; a stack starts where things went wrong |

Three runs end in a violation. Each is a disagreement of the code with what is written beside it,
and each has one property:

| Run | Instance | Shows |
|---|---|---|
| `spans_maps` | a child, a transaction, two calls | the payload of a transaction is encoded from maps that live spans still write (`tracing.go:312`, `325` and `345`); `client.go:23` says of the client "It is safe for concurrent use". The Go runtime ends a program that does this |
| `lifecycle_panics` | one Init that replaces the client a global Close is closing | both find the aggregator's `stop` open, and the second to close it panics (`sessions.go:127-130`), against `client.go:23` again |
| `sql_any_driver` | drivers that check arguments on the connection only, not retried | a prepared statement refuses an argument that goes through without the wrapper, since `sqlStmt.CheckNamedValue` answers `ErrSkip` in place of the connection's checker (`sql-breadcrumbs.go:276-280`); line 15 says "with any driver", line 125 "the path it would have taken without the wrapper" |

The passing runs are about the rest, and their properties name what they leave to these: the
Close that panics (`ClosedByOneThatReturns`, and `Alive` in `Sessions`), the settings that are not
faithful (`FaithfulTakesThePlainPath`). In `Lifecycle` a Close that panics stops where it is and
the others go on: its caller may recover. Where nobody does, the program has ended, and with it
everything there is to say of it.

`health_told` and `breadcrumbs_trails` look at two components each, as `HealthProofs` and
`BreadcrumbsProofs` do: a behaviour is about one of the two, and the other stays as it was. Nothing
is combined, only checked in one go.

### Where the code and what is written about it differ

The modules follow the code. No run is spent on the following, which is beside the three above what
a reader of the modules should not be surprised by.

Delivery and shutdown:

- Send counts an event after it has written it to the channel, and the worker may be faster:
  `pending` may be too low for a moment and a Flush may answer true while an event is queued
  (`transport.go:108`; 36). `PendingAccounting` and `FlushSeesInFlight` say exactly how much.
- A second `Close` of the transport returns before the queue is drained (`transport.go:251`;
  247), and the limits of the stages of `Client.Close` add up (`client.go:147`; README.md:32).
- The retry does not look at the pause (`transport.go:159`; 41), and a later 429 with a shorter
  wait cuts a pause short (219; README.md:277). A huge `Retry-After` overflows (209).
- Rejected and failed events are counted nowhere (`transport.go:154`; README.md:74).

Captures and scopes:

- An id is returned for an event the transport drops (`client.go:384`; 165), repeats go with an
  evicted entry or a dropped event (`dedupe.go:75`; 18), and copies are held back of an error
  that was never sent (`client.go:333`; `options.go:29`).
- Breadcrumbs of one scope are in the order of its lock, not of their times (`scope.go:114`;
  157).

Spans:

- `Finish` marks a child finished and gives the lock back before it puts the child on the list
  (`tracing.go:239`, 244). A transaction finished in between drops the child, though a second
  `Finish` of it may have found it finished and returned; the comment promises a report "with the
  child spans finished by then" (228). `PayloadIsComplete` names these children (`onTheWay`), and
  no other is missing.

Requests:

- An aborted request is no session, and one whose hook panics after the session is two
  (`recover.go:108`, `gin-middleware.go:118`; `options.go:85`); a request answered 103 and then
  500 is an ok one (`sessions.go:210`; 23).
- `Flush` sends 200 and does not tell the `statusWriter` (`sessions.go:223`): a `WriteHeader(500)`
  after it is ignored by `net/http`, and the session is errored, which is to say "answered with a
  server error" (23). `AnswersAreCounted` is about the answers that were not flushed before.
- A handler that hijacks the connection answers by itself; its session says ok or errored by what
  it told the writer, if anything (`sessions.go:229`).
- A panic of gin's `OnPanic` leaves the middleware, after the event was captured
  (`gin-middleware.go:104`).
- A monitored run whose job ends its goroutine stays in progress (`check-in.go:191`).

SQL (`sql-breadcrumbs.go`): `Faithful` in `SqlBreadcrumbs` names the drivers for which the wrapper
makes no difference. For the others:

- a connection's `NamedValueChecker` is not asked for the arguments of a prepared statement
  (`sql_any_driver`), and a statement's `ColumnConverter` is not passed on;
- where the driver can neither execute without a statement nor check arguments on its connection,
  the wrapper's connection refuses what the statement's checker would have accepted;
- the older `Execer` and `Queryer` are not used: such a driver prepares every statement;
- a driver without contexts loses the check of the context that `database/sql` makes for it;
- its statements are recorded on the global scope;
- each attempt that failed and was retried is recorded too.

Reports:

- an attribute without a key, given to a handler that is in a group, goes by the group's name;
- only what is below the last `gopanic` is kept of a stack: with two different panics in
  one goroutine, or an error captured while panicking, that is not where the report's began;
- of joined errors the stack of the last branch is reported (`stack-error.go:59`);
- a source file that could not be read is never tried again, and two source roots that both fit
  are tried in the order of a map (`source-context.go:112`; not modelled).

### Bounds and why they are enough

Every mechanism needs few actors to go wrong. A full channel of one slot needs three senders:
one event in the worker's hands, one queued, one refused (`transport_safety`); where an order can
be wrong there are two slots (the delivery runs), and the third event finds them full before the
worker takes one. Two closers suffice for a race of Closes, and one Close with an Init for one of
different stages of a client's life. A table of one entry is full with one
error and must evict for the second; two waits tell a longer pause from a shorter one; with room
for one breadcrumb two already compete, on one scope or along a chain. Five errors make a join
below a wrapper with stacks on both sides, and a chain of two cuts it; three services are the
least in which one in the middle decides otherwise than its neighbours; nine frames hold a panic,
a guard and a panic raised again. The seven attributes of a record are plain, keyless, nested and
nested twice, with and without errors, and the set is closed under what is inside them. Times are small numbers
that cover both sides of their limit: with a window of 2 the run passes through ages 0 to 3. A
pause is kept as the time it still has to run, so the transport needs no bound on time at all.
`MaxTime`, `MaxMinute`, `MaxErrors`, `MaxDerived`, `MaxHops`, `MaxCalls` and `MaxDepth` bound the
models only; `QueueSize`, `MaxEntries`, `MaxChildren`, `Limit`, `MaxChain`, `MaxFrames` and
`MaxRetries` (of `database/sql`) are bounds of the code, made small. Symmetry is used where only safety
is checked, over sets whose members no definition tells apart.

Timers (retry, poll, deadlines, profiling intervals) may fire at any moment: no safety property
relies on how long anything takes. `CHECK_DEADLOCK FALSE` is set where the system may rightly be
at its end with nothing left to do (spans, lifecycle, reports); the others can always go on, by
an explicit final stutter if by nothing else, and deadlock is checked.

### Fairness

- A goroutine that can run does: weak fairness of each sender's, worker's and closer's steps.
  Go's scheduler is preemptive, and no step waits for anything but what its guard names.
- A request ends: an answer or the client's timeout is a step of the worker, so weakly fair.
- `select` chooses at random among ready cases, so a stop that is ready again and again is taken
  in the end though a tick is ready too: strong fairness of the stop case in `Sessions` and of
  `ProfilerStops` and `ReportLast` in `Lifecycle`.
- Nothing is assumed of the application: no fairness on calls of `Send`, `Init`, `Close`, or on
  the length of a pause.

## 4. The proofs

Seven modules prove theorems and an eighth, `DataLemmas`, has the lemmas they share. Each theorem
holds for every value of the constants that the assumptions of its component allow; TLC evaluates
these in the runs. A module may be about two components that say different things of one
concern: it extends both, and no name is in both. Every type invariant, safety invariant and
action property that a run checks is proved, and each refinement up to its liveness.

The plan of each proof is the same: an inductive invariant of named parts, a lemma per action or
group of actions that it is kept, and the properties read off it.

| Module | About | Theorem | Property |
|---|---|---|---|
| `HttpTransportProofs` | `HttpTransport` | `Typing`, `NoWriteToClosedChannel`, `NoEventLost`, `PendingExact`, `CountersExact`, `ClosedIsEmpty`, `BacklogIsSent`, `PauseRespected`, `FlushSees` | `TypeOK`, `OpenWhileSending`, `EveryEventInOnePlace`, `PendingAccounting`, `CountersTellTheTruth`, `CloseLeavesNothing`, `AcceptedUntilGivenUp`, `NotFlooded`, `FlushSeesInFlight` |
| | | `Implementation` | `ImplementsDelivery` |
| `TracingProofs` | `TraceQueue` | `NoWriteAfterClose` | `OpenWhileOffering` |
| | | `Implementation` | the safety part of `ImplementsDelivery` |
| | `Spans` | `SpanReportedOnce`, `SpanPayloadComplete` | `ReportedOnce`, `PayloadIsComplete` |
| `HealthProofs` | `Sessions` | `CountedOnce`, `LastReport` | `CountsAgree`, `CloseReports` |
| | `Requests` | `FinishesOnce`, `StaysUp`, `SessionsTell`, `RunsEnd` | `FinishedOnce`, `ServerStaysUp`, `SessionTellsTheTruth`, `RunEndsOnce` |
| `LifecycleProofs` | `Lifecycle` | `ProfilesAreOwn`, `TransportShutLast`, `CurrentStaysOpen` | `OwnProfileOnly`, `TransportIsLast`, `CurrentIsOpen` |
| `CaptureProofs` | `Capture`, `Dedupe` | `TypeCorrect` | its typing |
| | | `LetThroughOnce`, `NewErrorsPass`, `NoRepeatIsLost` | `OncePerWindow`, `FirstCopyPasses`, `RepeatsAddUp` |
| `BreadcrumbsProofs` | `SqlBreadcrumbs` | `PlainPath`, `TrailTells` | `FaithfulTakesThePlainPath`, `TrailTellsTheResult` |
| | | `Settled` | the invariant of the refinement |
| | `Scope` | `EventsOfTheFlow`, `EventsAreComplete` | `FlowIsItsOwn`, `StepsAreKept` |
| `ReportsProofs` | `ErrorTrees` | `StacksOfTheCause`, `ReportsNameAll` | `StackOfTheCause`, `ReportNamesEveryError` |
| | `LogRecords` | `LogsTellAll` | `LogTellsAll` |
| | `TraceContext` | `TracesHoldTogether` | `TraceHoldsTogether` |
| | `PanicStacks` | `StacksStartAtTheCause` | `StackStartsAtTheCause` |

The invariants, and why they are needed:

- `HttpTransport`: beside the properties, where the worker may stand with what in hand
  (`WorkerInv`), how far a Close that holds the lock, cancelled or saw the worker exit has come
  (`CloseInv`), and what the worker knew of the pause (`PauseInv`). Two effect lemmas put the
  many steps of a Send and of the worker into the few shapes that matter to events (accept,
  take, decide, uncount), so that one-place, counting and refinement are each proved over those
  shapes and not over every action.
- `TraceQueue`: a sender past its check keeps the channel from being shut (`ShutFirst`), since
  it holds the read lock; the goroutine exists once the channel does and exits only when that is
  closed and empty (`Worker`); and a transaction is queued, in hand or decided (`OnePlace`),
  which makes the refinement map take each step to Accept, Refuse, Decide, Shut, Finish or
  nothing. `Mapping` states the abstract specification in the mapped variables, so that a step
  is one application of it.
- `Sessions`: the counts agree with the requests only if nothing is `taken` while the goroutine
  is not posting (`TakenIsPosted`): a second batch would otherwise overwrite the first. For the
  last report, what a Close found recorded while `stop` was open (`Promised`) has left `minutes`
  once the goroutine has taken for the last time (`LastTakesAll`), because it leaves only on
  `stop` (`LeavesOnStop`).
- `Spans`: the call that sets the transaction's finished flag is the only one that reports
  (`OneReporter`); a finished child is listed, about to be, or found no room (`AddedOnce`,
  `Accounted`), so the report lacks none but those about to be, which is what the theorem says; what is read of the list plus what is yet to be read is the list
  (`ReadInOrder`), as it grows no more.
- `Requests`: what each stage implies about panics, events, sessions and answers so far
  (`Progress`, `PanicEvents`, `Crashes`, `Answers`, `Runs`): a panic in a hook may come at any
  stage, so the counts have to be right between any two.
- `Lifecycle`: a Close that has come to a stage has seen the end of the ones before it
  (`Stagewise`), also when another Close of the same client is ahead of it; and only installed
  clients are targets, of an Init never the one installed now (`Targets`).
- `Capture`: a call is let through in a generation of its signature, which the table's forgetting
  ends. The entry of a signature tells the latest call of the generation (`Latest`), and no call
  is of a generation to come (`Past`): so the next one let through is a window after all of its
  generation, though its clock was read outside the lock. `RepeatsAddUp` adds numbers over the
  calls and over the table: each action changes one summand or moves one (`SumUpdate`,
  `SumPlus`), and evicting moves the sum of what is dropped.
- `SqlBreadcrumbs`: the setting stays one of those considered, faithful if it was, and only a
  context that may end has ended. Nothing is assumed of the settings but their type: `PlainPath`
  says of the faithful ones that the wrapper then implements `DatabaseSql`, and `TrailTells` is
  about all. The work of the refinement is in the steps: each one of the wrapper is one of
  `DatabaseSql`, or, where the driver lacks an interface that the wrapper has, none. The trail
  (`Trail`) needs the breadcrumbs counted against the driver's calls while a call is under way
  (`Tells`), and the flow they are on (`OnTheFlow`).
- `Scope`: a chain ends at the global scope because parents are live and of a lower rank
  (`Rooted`), which a new scope keeps by a rank above its parent's; that the chain is as long as
  it needs to be is a pigeonhole argument. An event under way holds the lists of the scopes it
  has read and has the others left (`Collecting`), after the merge the newest of all
  (`Collected`); its tag and user are of the chain (`Within`), the own scope last in one order
  and first in the other (`TagIsOwn`, `UserIsOwn`). The merge is a fold of cuts to the newest: a
  breadcrumb that one cut left out is older than a full list, and the next cut keeps that so.
- `ErrorTrees`: an error wraps earlier ones only, two at most, and a recorder of a stack exactly
  one (`Trees`). So the walk over a tree, the search for its stack and the chain exist, and a walk
  from an error is that error and the walks from those it wraps, which gives the stack's error.
  Type and chain are the names of the walk but for the recorders', cut at the bound.
- `LogRecords`: a handler holds what it was given, each attribute under the groups that were open
  then, and the wrapped handler was given the same (`HandlerOK`); flattening a list is flattening its members, one after another, so it does
  not matter when they were given.
- `TraceContext`: each service's decision is the one its header, rate and trust make (`Decided`),
  its calls lead to the next service's parent (`Made`, `Links`), and the header on the wire is
  that of the last call.
- `PanicStacks`: heights on the stack (`Shape`): the panics raised again lie above the one
  that was first, and what is reported is the application's frames below it in order
  (`Reported`).

What recursive functions and folds compute (chains, merges, sums, walks) is shown in two steps.
Such a function is defined by CHOOSE, so one that satisfies the recursive equation has to be
shown to exist; and what it computes is shown by taking the smallest argument for which it
would be otherwise (`SmallestNumber`, `SmallestSubset`) instead of by an induction schema.

TLC has checked each of these invariants on the instance of its run, too.

Only model-checked is liveness: `DeliveryProgress`, `CloseReturns`, `ReplacedIsClosed`,
`ClosedByOneThatReturns`, `CloseEnds`, and the progress part of `TraceQueue`'s `ImplementsDelivery`. It needs fairness and
ENABLED, which the prover does not handle.

## 5. Not modelled

- What an event, span, profile or request says in words: texts, times, source lines. No state
  depends on them.
- HTTP: an exchange is one of its outcomes, chosen freely (answered by status, failed, aborted).
- Transports other than the SDK's own, which run in the caller's goroutine.
- A client without a DSN, whose every call returns at once; errors of `Init`.
- `feedback.go`: one synchronous post without state, retry or pause.
- `options.go`: defaults and the parsing of a DSN, done before anything runs; their results are
  the constants. `event.go`: data types and setters.
- `source-context.go`: a cache of file lines in front of the file system. Readers that meet store
  the same lines; what matters is which file is found, which depends on names.
- `build-info.go`, and `packageOf`, `markInApp` and `isInApp` of `stack-trace.go`: string matching.
- gin's `Breadcrumbs`: one `AddBreadcrumb` after each request, which `Scope` has.
- In `Scope`: a breadcrumb's time given by the caller, and the tags and user an event modifier sets.
- The memory model below a critical section: accesses under a lock or by an atomic are taken to
  be sequentially consistent, as Go guarantees. The one unlocked access to shared data found,
  the maps of a payload, is modelled as a race (`Spans`).

## 6. What could come next

- `Stats` against transport, capture path and delivery of transactions at once.
- Source lines, as a function of file names and roots.
