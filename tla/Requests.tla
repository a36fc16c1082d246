------------------------------ MODULE Requests -------------------------------
(***************************************************************************)
(* What the guards do around one piece of work: the middlewares of         *)
(* net/http (src/recover.go, with the statusWriter of src/sessions.go),    *)
(* gin (Recovery) and gRPC around a request, and Recover,                  *)
(* RecoverAndContinue and Go around a goroutine or a job.  The handler     *)
(* answers, attaches or returns errors, panics, aborts or ends its         *)
(* goroutine (runtime.Goexit), and may run a job under WithMonitor         *)
(* (src/check-in.go); the application's own hooks (the user resolver,      *)
(* BeforeSend) run inside a capture and may panic there, and gin's OnPanic *)
(* runs after it.  Requests share no state but the client's, so one is     *)
(* enough.                                                                 *)
(***************************************************************************)
EXTENDS Integers, Sequences, FiniteSets

CONSTANT MaxErrors      \* the errors a gin handler attaches at most

ASSUME MaxErrorsAssumption == MaxErrors \in Nat

VARIABLES
    kind,       \* the middleware
    options,    \* its options and the client's
    pc,
    written,    \* the status the writer remembers; 0 for none
    answered,   \* the status the caller is sent; 0 for none yet, Hijacked when
                \*   the handler answers on the connection itself
    flushed,    \* history: Flush sent the header
    error,      \* gRPC: what the handler returned
    attached,   \* gin: errors attached, the ones still to be captured
    panic,      \* the panic under way, whose; "exit": the goroutine ends without one
    checkIns,   \* the statuses WithMonitor checked in with, in order
    sessions,   \* the sessions recorded, in order
    spanStatus, \* of the transaction
    finishes,   \* how often it was finished
    events,     \* the events captured, in order
    outcome     \* how the request left the middleware

spanVars == <<spanStatus, finishes>>
answerVars == <<written, answered, flushed>>
guardVars == <<kind, options, pc, written, answered, flushed, error, attached, panic,
               checkIns, sessions, spanStatus, finishes, events, outcome>>

Middlewares == {"net/http", "gin", "grpc"}
Helpers     == {"Recover", "RecoverAndContinue", "Go"}
Kinds       == Middlewares \cup Helpers
\* A server fault's code; another code; the call's client went away.
Errors   == {"none", "fault", "other", "abandoned"}
StatusCodes == {103, 200, 404, 500}
Hijacked    == -1
Options  == [repanic : BOOLEAN, captureErrors : BOOLEAN, tracks : BOOLEAN,
             traces : BOOLEAN, onPanic : BOOLEAN, errorCodes : SUBSET {"fault", "other"}]

GuardInit ==
    /\ kind \in Kinds
    /\ options \in Options
    /\ kind \notin {"gin", "grpc"} => ~options.repanic /\ ~options.captureErrors
    /\ kind \in Helpers => ~options.tracks /\ ~options.traces
    /\ kind # "gin" => ~options.onPanic
    /\ kind # "grpc" => options.errorCodes = {}
    /\ pc = "handling"
    /\ written = (IF kind = "gin" THEN 200 ELSE 0) /\ answered = 0 /\ flushed = FALSE
    /\ error = "none" /\ attached = 0 /\ panic = "none" /\ checkIns = <<>>
    /\ sessions = <<>> /\ spanStatus = "ok" /\ finishes = 0 /\ events = <<>>
    /\ outcome = "none"

-----------------------------------------------------------------------------
(* The client's part.                                                       *)

\* RecordSession does nothing on a client that tracks none.
RecordSession(how) ==
    sessions' = IF options.tracks THEN Append(sessions, how) ELSE sessions

\* A nil transaction ignores it all.
FinishAs(how) ==
    /\ spanStatus' = IF options.traces THEN how ELSE spanStatus
    /\ finishes' = IF options.traces THEN finishes + 1 ELSE finishes

SessionForStatus(code) == IF code >= 500 THEN "errored" ELSE "ok"
SpanForStatus(code)    == IF code >= 500 THEN "internal_error" ELSE "ok"

\* http.ErrAbortHandler goes on; it means nothing outside an HTTP server.
Aborting == panic = "abort" /\ kind \in {"net/http", "gin"}

\* The request leaves the middleware.
Leave(how) == pc' = "done" /\ outcome' = how

-----------------------------------------------------------------------------
(* Slips, each of which takes the place of the definition it is named after. *)

\* The transaction of a request that panics is not finished.
Recovered_Unfinished ==
    /\ pc = "deferred" /\ panic \notin {"none", "exit"} /\ ~Aborting
    /\ pc' = "capturingPanic"
    /\ RecordSession("crashed")
    /\ UNCHANGED <<kind, options, answerVars, error, attached, panic, checkIns,
                   spanVars, events, outcome>>

\* The panic is raised again whatever the options say.
Respond_Repanics ==
    /\ pc = "responding"
    /\ Leave("panicked")
    /\ UNCHANGED <<kind, options, answerVars, error, attached, panic, checkIns,
                   sessions, spanVars, events>>

\* An abort is a crash.
Aborted_Crashes ==
    /\ pc = "deferred" /\ Aborting
    /\ RecordSession("crashed")
    /\ FinishAs("cancelled")
    /\ Leave("panicked")
    /\ UNCHANGED <<kind, options, answerVars, error, attached, panic, checkIns, events>>

\* A handler that answers twice: the last status is remembered.
WriteHeader_Last(code) ==
    /\ written' = IF options.tracks \/ options.traces THEN code ELSE written
    /\ answered' = IF answered = 0 /\ code >= 200 THEN code ELSE answered

\* A panic of the job ends the run without a check-in.
JobPanics_StaysInProgress ==
    /\ pc = "monitored" /\ pc' = "deferred"
    /\ panic' \in {"abort", "job"} /\ UNCHANGED checkIns
    /\ UNCHANGED <<kind, options, answerVars, error, attached, sessions, spanVars,
                   events, outcome>>

\* One error too many is looked at.
ErrorWaits_OneMore ==
    /\ options.captureErrors
    /\ \/ kind = "gin" /\ attached >= 0 /\ written >= 500
       \/ kind = "grpc" /\ error = "fault" /\ Len(events) = 0

-----------------------------------------------------------------------------
(* The handler.                                                             *)

Handles(next) ==
    /\ pc = "handling" /\ pc' = next
    /\ UNCHANGED <<kind, options, checkIns, sessions, spanVars, events, outcome>>

\* WriteHeader of statusWriter, which is there for sessions and transactions only:
\* it remembers the first code; net/http sends the first that is not informational.
WriteHeader(code) ==
    /\ written' = IF written = 0 /\ (options.tracks \/ options.traces) THEN code ELSE written
    /\ answered' = IF answered = 0 /\ code >= 200 THEN code ELSE answered

HandlerWritesHeader ==
    /\ kind = "net/http"
    /\ \E code \in StatusCodes : WriteHeader(code)
    /\ Handles("handling") /\ UNCHANGED <<flushed, error, attached, panic>>

\* Write: the status is 200 when none was given.
HandlerWrites ==
    /\ kind = "net/http" /\ WriteHeader(200)
    /\ Handles("handling") /\ UNCHANGED <<flushed, error, attached, panic>>

\* Flush, and Flush of an http.ResponseController: net/http sends 200 when no header
\* went out yet, and the statusWriter does not look.
HandlerFlushes ==
    /\ kind = "net/http"
    /\ answered' = (IF answered = 0 THEN 200 ELSE answered)
    /\ flushed' = (flushed \/ answered = 0)
    /\ Handles("handling") /\ UNCHANGED <<written, error, attached, panic>>

\* Hijack: what the client is told from here on is the application's affair.
HandlerHijacks ==
    /\ kind \in {"net/http", "gin"}
    /\ answered' = (IF answered = 0 THEN Hijacked ELSE answered)
    /\ Handles("handling") /\ UNCHANGED <<written, flushed, error, attached, panic>>

\* gin's writer keeps the last status until the body is written.
HandlerSetsStatus ==
    /\ kind = "gin" /\ answered = 0
    /\ \E code \in StatusCodes \ {103} : written' = code
    /\ Handles("handling") /\ UNCHANGED <<answered, flushed, error, attached, panic>>

\* Or flushes: gin's writer sends the status it keeps.
HandlerWritesBody ==
    /\ kind = "gin" /\ answered = 0 /\ answered' = written
    /\ Handles("handling") /\ UNCHANGED <<written, flushed, error, attached, panic>>

HandlerAttachesError ==
    /\ kind = "gin" /\ attached < MaxErrors /\ attached' = attached + 1
    /\ Handles("handling") /\ UNCHANGED <<answerVars, error, panic>>

HandlerReturns ==
    /\ error' \in IF kind = "grpc" THEN Errors ELSE {"none"}
    /\ Handles(IF kind \in {"gin", "grpc"} THEN "counting" ELSE "deferred")
    /\ UNCHANGED <<answerVars, attached, panic>>

\* With http.ErrAbortHandler or any other value.
HandlerPanics ==
    /\ panic' \in {"abort", "value"}
    /\ Handles("deferred") /\ UNCHANGED <<answerVars, error, attached>>

\* runtime.Goexit: the deferred functions run, and recover nothing.
HandlerExits ==
    /\ panic' = "exit"
    /\ Handles("deferred") /\ UNCHANGED <<answerVars, error, attached>>

-----------------------------------------------------------------------------
(* A job under WithMonitor, which the handler waits for.                    *)

CheckIn(how) == checkIns' = Append(checkIns, how)

Monitors(from, to) ==
    /\ pc = from /\ pc' = to
    /\ UNCHANGED <<kind, options, answerVars, error, attached, sessions, spanVars,
                   events, outcome>>

JobStarts == /\ checkIns = <<>> /\ CheckIn("in_progress")
             /\ Monitors("handling", "monitored") /\ UNCHANGED panic

JobReturns == /\ \E how \in {"ok", "error"} : CheckIn(how)
              /\ Monitors("monitored", "handling") /\ UNCHANGED panic

\* Reported as a failed run, and raised again.
JobPanics == /\ panic' \in {"abort", "job"} /\ CheckIn("error")
             /\ Monitors("monitored", "deferred")

\* Neither the code behind the job nor the recover of WithMonitor sees it.
JobExits == /\ panic' = "exit"
            /\ Monitors("monitored", "deferred") /\ UNCHANGED checkIns

-----------------------------------------------------------------------------
(* After the handler, before the deferred function: gin and gRPC.           *)

\* The codes that mean a server fault, unless the client had left (abandoned).
Faulty(err) == err = "fault"

Count ==
    /\ pc = "counting" /\ pc' = "capturingErrors"
    /\ RecordSession(IF kind = "gin" THEN SessionForStatus(written)
                     ELSE IF Faulty(error) THEN "errored" ELSE "ok")
    /\ UNCHANGED <<kind, options, answerVars, error, attached, panic, checkIns,
                   spanVars, events, outcome>>

\* ErrorCodes takes the place of the codes that mean a fault; an abandoned call is
\* never looked at.
Watched == IF options.errorCodes = {} THEN {"fault"} ELSE options.errorCodes

\* captureErrors has something to capture: an attached error of a 5xx answer, a
\* returned error whose code is watched.
ErrorWaits ==
    /\ options.captureErrors
    /\ \/ kind = "gin" /\ attached > 0 /\ written >= 500
       \/ kind = "grpc" /\ error \in Watched /\ Len(events) = 0

\* The event may still be dropped by the client; what counts is that it was asked.
CaptureError ==
    /\ pc = "capturingErrors" /\ ErrorWaits
    /\ attached' = IF kind = "gin" THEN attached - 1 ELSE attached
    /\ \/ events' = Append(events, "error") /\ UNCHANGED <<pc, panic>>
       \/ panic' = "hook" /\ pc' = "deferred" /\ UNCHANGED events
    /\ UNCHANGED <<kind, options, answerVars, error, checkIns, sessions, spanVars, outcome>>

ErrorsCaptured ==
    /\ pc = "capturingErrors" /\ ~ErrorWaits /\ pc' = "deferred"
    /\ UNCHANGED <<kind, options, answerVars, error, attached, panic, checkIns,
                   sessions, spanVars, events, outcome>>

-----------------------------------------------------------------------------
(* The deferred function.                                                   *)

\* finishTransaction names gRPC's code.
SpanForError(err) == CASE err = "none" -> "ok" [] err = "fault" -> "internal"
                       [] err = "other" -> "not_found" [] err = "abandoned" -> "cancelled"

\* No panic: net/http records its session here.  What was not sent goes out now,
\* unless the goroutine that would send it ends.
Returned ==
    /\ pc = "deferred" /\ panic \in {"none", "exit"}
    /\ IF kind = "net/http" THEN RecordSession(SessionForStatus(written))
       ELSE UNCHANGED sessions
    /\ FinishAs(IF kind = "grpc" THEN SpanForError(error) ELSE SpanForStatus(written))
    /\ answered' = IF answered = 0 /\ panic = "none" /\ kind \in {"gin", "net/http"}
                   THEN IF kind = "gin" THEN written ELSE 200
                   ELSE answered
    /\ Leave(IF panic = "exit" THEN "exited" ELSE "returned")
    /\ UNCHANGED <<kind, options, written, flushed, error, attached, panic, checkIns, events>>

Aborted ==
    /\ pc = "deferred" /\ Aborting
    /\ FinishAs("cancelled")
    /\ Leave("panicked")
    /\ UNCHANGED <<kind, options, answerVars, error, attached, panic, checkIns,
                   sessions, events>>

Recovered ==
    /\ pc = "deferred" /\ panic \notin {"none", "exit"} /\ ~Aborting
    /\ pc' = "capturingPanic"
    /\ RecordSession("crashed")
    /\ FinishAs("internal_error")
    /\ UNCHANGED <<kind, options, answerVars, error, attached, panic, checkIns,
                   events, outcome>>

\* CaptureRecovered or CaptureRecoveredContext; a hook that panics here leaves the
\* guard.
CapturePanic ==
    /\ pc = "capturingPanic"
    /\ \/ events' = Append(events, "panic") /\ pc' = "responding" /\ UNCHANGED <<panic, outcome>>
       \/ panic' = "hook" /\ Leave("panicked") /\ UNCHANGED events
    /\ UNCHANGED <<kind, options, answerVars, error, attached, checkIns, sessions, spanVars>>

\* Monitoring must not change how the program behaves: Recover raises it again.
Repanics == options.repanic \/ kind = "Recover"

RaiseAgain ==
    /\ pc = "responding" /\ Repanics
    /\ Leave("panicked")
    /\ UNCHANGED <<kind, options, answerVars, error, attached, panic, checkIns, sessions,
                   spanVars, events>>

\* The answer, where the handler has sent none: 500, or codes.Internal.
Respond ==
    /\ pc = "responding" /\ ~Repanics /\ ~options.onPanic
    /\ Leave("returned")
    /\ CASE kind = "net/http" -> WriteHeader(500)
         [] kind = "gin" /\ answered = 0 -> written' = 500 /\ answered' = 500
         [] OTHER -> UNCHANGED <<written, answered>>
    /\ error' = IF kind = "grpc" THEN "fault" ELSE error
    /\ UNCHANGED <<kind, options, flushed, attached, panic, checkIns, sessions, spanVars,
                   events>>

\* gin's OnPanic answers in its place, whatever the application likes: gin sends what
\* the writer keeps.  It is not guarded.
OnPanic ==
    /\ pc = "responding" /\ ~Repanics /\ options.onPanic
    /\ \/ /\ Leave("returned") /\ UNCHANGED panic
          /\ \/ /\ answered = 0
                /\ \E code \in StatusCodes \ {103} : written' = code /\ answered' = code
             \/ answered # 0 /\ UNCHANGED <<written, answered>>
       \/ Leave("panicked") /\ panic' = "OnPanic" /\ UNCHANGED <<written, answered>>
    /\ UNCHANGED <<kind, options, flushed, error, attached, checkIns, sessions, spanVars,
                   events>>

Handling == \/ HandlerWritesHeader \/ HandlerWrites \/ HandlerSetsStatus
            \/ HandlerFlushes \/ HandlerHijacks
            \/ HandlerWritesBody \/ HandlerAttachesError \/ HandlerReturns
            \/ HandlerPanics \/ HandlerExits
Monitored == JobStarts \/ JobReturns \/ JobPanics \/ JobExits

Terminated == pc = "done" /\ UNCHANGED guardVars

GuardNext == \/ Handling \/ Monitored
             \/ Count \/ CaptureError \/ ErrorsCaptured
             \/ Returned \/ Aborted \/ Recovered \/ CapturePanic
             \/ RaiseAgain \/ Respond \/ OnPanic
             \/ Terminated

GuardSpec == GuardInit /\ [][GuardNext]_guardVars

-----------------------------------------------------------------------------
(* What holds.                                                              *)

GuardTypeOK ==
    /\ kind \in Kinds
    /\ pc \in {"handling", "monitored", "counting", "capturingErrors", "deferred",
               "capturingPanic", "responding", "done"}
    /\ written \in StatusCodes \cup {0} /\ answered \in StatusCodes \cup {0, Hijacked}
    /\ flushed \in BOOLEAN
    /\ error \in Errors /\ attached \in 0..MaxErrors
    /\ panic \in {"none", "abort", "value", "job", "hook", "OnPanic", "exit"}
    /\ checkIns \in Seq({"in_progress", "ok", "error"})
    /\ sessions \in Seq({"ok", "errored", "crashed"}) /\ finishes \in Nat
    /\ spanStatus \in {"ok", "internal_error", "internal", "not_found", "cancelled"}
    /\ events \in Seq({"error", "panic"})
    /\ outcome \in {"none", "returned", "panicked", "exited"}

Done == pc = "done"
Times(seq, what) == Cardinality({i \in DOMAIN seq : seq[i] = what})

\* The transaction is finished exactly once on every way out, also when the
\* handler panics and a hook panics while that is captured.
FinishedOnce == GuardTypeOK /\ (Done => finishes = (IF options.traces THEN 1 ELSE 0))

\* The program stays up: a panic leaves a guard only when it is an abort of the
\* server's, when guard or options raise it again, when a hook panics while a panic is
\* captured, or when gin's OnPanic panics.  And no guard swallows one that is not an
\* event, nor asks OnPanic before it is one.
ServerStaysUp ==
    /\ outcome = "panicked" => Aborting \/ panic \in {"hook", "OnPanic"} \/ Repanics
    /\ Done /\ panic \notin {"none", "exit", "hook"} /\ ~Aborting => Times(events, "panic") = 1
    /\ outcome = "returned" /\ panic # "none" => Times(events, "panic") = 1

\* A monitored run that checked in ends in one more check-in, which is an error when
\* its job panics, whatever happens to the request around it - unless the job ends its
\* goroutine, which WithMonitor does not see (check-in.go:191).
RunEndsOnce ==
    Done /\ checkIns # <<>> =>
        /\ Head(checkIns) = "in_progress"
        /\ Len(checkIns) = 2 \/ (Len(checkIns) = 1 /\ panic = "exit")
        /\ \A i \in DOMAIN checkIns : i > 1 => checkIns[i] \in {"ok", "error"}
        /\ panic = "job" => checkIns[Len(checkIns)] = "error"

\* What is counted is what the client was told: a request that ends normally is an
\* errored session exactly when it is answered with a server error, whether the
\* handler said so, wrote a body or did nothing - unless it sent an informational
\* header first, which the statusWriter takes for the answer, took the connection over,
\* or had the header sent by a Flush, which the statusWriter does not see: the client
\* was told 200 then, and a WriteHeader(500) after it is counted all the same.
AnswersAreCounted ==
    outcome = "returned" /\ panic = "none" /\ options.tracks /\ kind # "grpc"
         /\ written # 103 /\ ~flushed /\ answered # Hijacked
        => sessions = (IF answered = 500 THEN <<"errored">> ELSE <<"ok">>)

\* A request that panics is one crashed session, and it is the last word on the
\* request even when the panic comes from a hook after the session was counted;
\* any other request is none.  It makes one event, unless a hook panics again.
CrashesAreCounted ==
    Done /\ options.tracks =>
        LET crashed == \/ panic \in {"value", "job", "hook", "OnPanic"}
                       \/ panic = "abort" /\ kind = "grpc"
        IN  /\ Times(sessions, "crashed") = (IF crashed THEN 1 ELSE 0)
            /\ crashed => sessions[Len(sessions)] = "crashed"
            /\ Times(events, "panic") <= Times(sessions, "crashed")

\* The session of a request says what became of it.
SessionTellsTheTruth == AnswersAreCounted /\ CrashesAreCounted

=============================================================================
