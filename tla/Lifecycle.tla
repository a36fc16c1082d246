----------------------------- MODULE Lifecycle -------------------------------
(***************************************************************************)
(* The life of clients (src/client.go, src/profiling.go): Init makes one,  *)
(* installs it as the global one and closes the one it replaces; Close     *)
(* closes the global one, which stays installed.  Closing a client stops   *)
(* its parts in order: profiler, sessions, transactions, transport.        *)
(*                                                                         *)
(* What goes on inside the last three is in Sessions, TraceQueue and       *)
(* HttpTransport; here they are running, stopping or gone.  How long a     *)
(* Close waits for each is left out.  A Close may panic in sessions.close; *)
(* the application is taken to recover that, for otherwise the program     *)
(* ends and nothing is left to close.                                      *)
(***************************************************************************)
EXTENDS Integers, FiniteSets

CONSTANTS
    Clients,    \* the calls of Init, named by the client each makes
    Closers,    \* the calls of the global Close
    Nobody,     \* no client, no owner
    App         \* the application's own CPU profiles

ASSUME NobodyAssumption == {Nobody, App} \cap (Clients \cup Closers) = {} /\ Nobody # App
ASSUME DistinctAssumption == Clients \cap Closers = {}

VARIABLES
    current,    \* the global client
    profiler,   \* of each client: where its goroutine stands
    sessions,   \* of each client: where the aggregator's goroutine stands
    stopped,    \* of each client: the parts whose stop channel is closed
    shut,       \* of each client: "traces" and "transport", once they are shut
    cpu,        \* who runs the CPU profile
    pc,         \* of each Init and Close: where it stands
    target      \* the client it closes

partVars  == <<profiler, sessions, cpu>>
closeVars == <<stopped, shut, pc, target>>
vars == <<current, partVars, closeVars>>

Closing == Clients \cup Closers     \* the goroutines that close a client

Init ==
    /\ current = Nobody
    /\ profiler = [c \in Clients |-> "unmade"] /\ sessions = [c \in Clients |-> "unmade"]
    /\ stopped = [c \in Clients |-> {}] /\ shut = [c \in Clients |-> {}]
    /\ cpu = Nobody
    /\ pc = [g \in Closing |-> "idle"] /\ target = [g \in Closing |-> Nobody]

-----------------------------------------------------------------------------
(* Slips, each of which takes the place of the action it is named after.    *)

\* Init installs the client and forgets the one it replaces.
Install_Forgets(c) ==
    /\ pc[c] = "made"
    /\ current' = c
    /\ pc' = [pc EXCEPT ![c] = "done"]
    /\ UNCHANGED <<partVars, stopped, shut, target>>

\* The new client is closed, not the one it replaces.
Install_ClosesNew(c) ==
    /\ pc[c] = "made"
    /\ current' = c
    /\ target' = [target EXCEPT ![c] = c]
    /\ pc' = [pc EXCEPT ![c] = IF current = Nobody THEN "done" ELSE "profiler"]
    /\ UNCHANGED <<partVars, stopped, shut>>

\* The global Close does not ask whether there is a client.
CloseGlobal_Unchecked(g) ==
    /\ g \in Closers /\ pc[g] = "idle"
    /\ target' = [target EXCEPT ![g] = current]
    /\ pc' = [pc EXCEPT ![g] = "profiler"]
    /\ UNCHANGED <<current, partVars, stopped, shut>>

\* profiler.close closes the channel and does not wait.
StopProfiler_NoWait(g) ==
    /\ pc[g] = "profiler"
    /\ stopped' = [stopped EXCEPT ![target[g]] = @ \cup {"profiler"}]
    /\ pc' = [pc EXCEPT ![g] = "sessions"]
    /\ UNCHANGED <<current, partVars, shut, target>>

\* A profile that cannot be started is stopped all the same.
ProfileSkipped_Anyway(c) ==
    /\ profiler[c] = "starting" /\ cpu # Nobody
    /\ profiler' = [profiler EXCEPT ![c] = "cpu"]
    /\ UNCHANGED <<current, sessions, cpu, closeVars>>

\* The profile runs its whole time, and again, while it is being stopped.
ProfilerStops_Never(c) == profiler[c] = "waiting" /\ UNCHANGED vars

-----------------------------------------------------------------------------
(* Init and the global Close.                                               *)

\* NewClient starts the goroutines of the parts the options ask for.
MakeClient(c) ==
    /\ pc[c] = "idle" /\ pc' = [pc EXCEPT ![c] = "made"]
    /\ \E on \in {"none", "waiting"}  : profiler' = [profiler EXCEPT ![c] = on]
    /\ \E on \in {"none", "running"} : sessions' = [sessions EXCEPT ![c] = on]
    /\ UNCHANGED <<current, cpu, stopped, shut, target>>

\* Under the lock: the one installed until now is the one to close.
Install(c) ==
    /\ pc[c] = "made"
    /\ current' = c
    /\ target' = [target EXCEPT ![c] = current]
    /\ pc' = [pc EXCEPT ![c] = IF current = Nobody THEN "done" ELSE "profiler"]
    /\ UNCHANGED <<partVars, stopped, shut>>

CloseGlobal(g) ==
    /\ g \in Closers /\ pc[g] = "idle"
    /\ target' = [target EXCEPT ![g] = current]
    /\ pc' = [pc EXCEPT ![g] = IF current = Nobody THEN "done" ELSE "profiler"]
    /\ UNCHANGED <<current, partVars, stopped, shut>>

-----------------------------------------------------------------------------
(* Client.Close, stage by stage.                                            *)

\* A stage ends and the next begins.
Moves(g, from, to) ==
    /\ pc[g] = from
    /\ pc' = [pc EXCEPT ![g] = to]
    /\ UNCHANGED <<current, partVars, target>>

Stop(g, part) == stopped' = [stopped EXCEPT ![target[g]] = @ \cup {part}]
Shut(g, part) == shut' = [shut EXCEPT ![target[g]] = @ \cup {part}]

\* profiler.close: closes stop once, and waits.
StopProfiler(g) ==
    /\ pc[g] = "profiler" /\ profiler[target[g]] # "none"
    /\ Stop(g, "profiler") /\ pc' = [pc EXCEPT ![g] = "stoppingProfiler"]
    /\ UNCHANGED <<current, partVars, shut, target>>

ProfilerStopped(g) == /\ Moves(g, "stoppingProfiler", "sessions")
                      /\ profiler[target[g]] = "gone"
                      /\ UNCHANGED <<stopped, shut>>

NoProfiler(g) == /\ Moves(g, "profiler", "sessions") /\ profiler[target[g]] = "none"
                 /\ UNCHANGED <<stopped, shut>>

\* sessions.close looks whether stop is closed,
CheckSessions(g) ==
    /\ pc[g] = "sessions" /\ sessions[target[g]] # "none"
    /\ Moves(g, "sessions", IF "sessions" \in stopped[target[g]] THEN "stoppingSessions"
                            ELSE "closingSessions")
    /\ UNCHANGED <<stopped, shut>>

\* and closes it if not, under no lock: closing it again is a panic.
StopSessions(g) ==
    /\ pc[g] = "closingSessions" /\ "sessions" \notin stopped[target[g]]
    /\ Stop(g, "sessions") /\ pc' = [pc EXCEPT ![g] = "stoppingSessions"]
    /\ UNCHANGED <<current, partVars, shut, target>>

StopSessionsAgain(g) == /\ Moves(g, "closingSessions", "panicked")
                        /\ "sessions" \in stopped[target[g]]
                        /\ UNCHANGED <<stopped, shut>>

SessionsStopped(g) == /\ Moves(g, "stoppingSessions", "traces")
                      /\ sessions[target[g]] = "gone"
                      /\ UNCHANGED <<stopped, shut>>

NoSessions(g) == /\ Moves(g, "sessions", "traces") /\ sessions[target[g]] = "none"
                 /\ UNCHANGED <<stopped, shut>>

\* closeTraces and transport.Close: shut at once, and waited for: drained or not.
ShutTraces(g) == /\ pc[g] = "traces" /\ "traces" \notin shut[target[g]]
                 /\ Shut(g, "traces") /\ pc' = [pc EXCEPT ![g] = "stoppingTraces"]
                 /\ UNCHANGED <<current, partVars, stopped, target>>

TracesStopped(g) == /\ \E from \in {"traces", "stoppingTraces"} : Moves(g, from, "transport")
                    /\ "traces" \in shut[target[g]]
                    /\ UNCHANGED <<stopped, shut>>

ShutTransport(g) ==
    /\ pc[g] = "transport" /\ "transport" \notin shut[target[g]]
    /\ Shut(g, "transport") /\ pc' = [pc EXCEPT ![g] = "stoppingTransport"]
    /\ UNCHANGED <<current, partVars, stopped, target>>

TransportStopped(g) ==
    /\ \E from \in {"transport", "stoppingTransport"} : Moves(g, from, "done")
    /\ "transport" \in shut[target[g]]
    /\ UNCHANGED <<stopped, shut>>

CloseStep(g) ==
    \/ StopProfiler(g) \/ ProfilerStopped(g) \/ NoProfiler(g)
    \/ CheckSessions(g) \/ StopSessions(g) \/ StopSessionsAgain(g)
    \/ SessionsStopped(g) \/ NoSessions(g)
    \/ ShutTraces(g) \/ TracesStopped(g) \/ ShutTransport(g) \/ TransportStopped(g)

-----------------------------------------------------------------------------
(* The profiler's goroutine.                                                *)

ProfilerMoves(c, from, to) ==
    /\ profiler[c] = from
    /\ profiler' = [profiler EXCEPT ![c] = to]
    /\ UNCHANGED <<current, sessions, closeVars>>

\* The timer fires.
ProfileStarts(c) == ProfilerMoves(c, "waiting", "starting") /\ UNCHANGED cpu

ProfileRuns(c) == /\ cpu = Nobody /\ ProfilerMoves(c, "starting", "cpu") /\ cpu' = c

\* Another profile runs: this round has none.
ProfileSkipped(c) == cpu # Nobody /\ ProfilerMoves(c, "starting", "heap") /\ UNCHANGED cpu

\* Its duration is over or the profiler is stopped: sent, a pause permitting.
ProfileEnds(c) == ProfilerMoves(c, "cpu", "sending") /\ cpu' = Nobody
ProfileSent(c) == ProfilerMoves(c, "sending", "heap") /\ UNCHANGED cpu
HeapSent(c)    == ProfilerMoves(c, "heap", "waiting") /\ UNCHANGED cpu

ProfilerStops(c) == /\ "profiler" \in stopped[c]
                    /\ ProfilerMoves(c, "waiting", "gone") /\ UNCHANGED cpu

Profiling(c) == \/ ProfileRuns(c) \/ ProfileSkipped(c) \/ ProfileEnds(c)
                \/ ProfileSent(c) \/ HeapSent(c)

\* The application profiles itself, through pprof's endpoint.
AppProfiles == /\ cpu \in {Nobody, App} /\ cpu' = (IF cpu = App THEN Nobody ELSE App)
               /\ UNCHANGED <<current, profiler, sessions, closeVars>>

(* The aggregator's goroutine, in short (see Sessions).                     *)

SessionsMove(c, from, to) ==
    /\ sessions[c] = from
    /\ sessions' = [sessions EXCEPT ![c] = to]
    /\ UNCHANGED <<current, profiler, cpu, closeVars>>

Report(c)     == SessionsMove(c, "running", "reporting")
Reported(c)   == SessionsMove(c, "reporting", "running")
ReportLast(c) == "sessions" \in stopped[c] /\ SessionsMove(c, "running", "reportingLast")
ReportedLast(c) == SessionsMove(c, "reportingLast", "gone")

-----------------------------------------------------------------------------
Next == \/ \E c \in Clients : \/ MakeClient(c) \/ Install(c)
                              \/ ProfileStarts(c) \/ Profiling(c) \/ ProfilerStops(c)
                              \/ Report(c) \/ Reported(c) \/ ReportLast(c) \/ ReportedLast(c)
        \/ \E g \in Closing : CloseGlobal(g) \/ CloseStep(g)
        \/ AppProfiles

Safety == Init /\ [][Next]_vars

\* The goroutines run; select does not pass a stop over for ever, though the timer
\* may be ready too: strong fairness.
Fairness ==
    /\ \A c \in Clients : /\ WF_vars(Install(c)) /\ WF_vars(Profiling(c))
                          /\ SF_vars(ProfilerStops(c)) /\ SF_vars(ReportLast(c))
                          /\ WF_vars(Reported(c)) /\ WF_vars(ReportedLast(c))
    /\ \A g \in Closing : WF_vars(CloseStep(g))

Spec == Safety /\ Fairness

-----------------------------------------------------------------------------
(* What holds.                                                              *)

TypeOK ==
    /\ current \in Clients \cup {Nobody}
    /\ profiler \in [Clients -> {"unmade", "none", "waiting", "starting", "cpu", "sending",
                                 "heap", "gone"}]
    /\ sessions \in [Clients -> {"unmade", "none", "running", "reporting",
                                 "reportingLast", "gone"}]
    /\ stopped \in [Clients -> SUBSET {"profiler", "sessions"}]
    /\ shut \in [Clients -> SUBSET {"traces", "transport"}]
    /\ cpu \in Clients \cup {Nobody, App}
    /\ \A g \in Closing : /\ target[g] \in Clients \cup {Nobody}
                          /\ target[g] = Nobody => pc[g] \in {"idle", "made", "done"}

\* The profiler stops the CPU profile it has started, never another's, be it the
\* application's or that of the client it replaces.
OwnProfileOnly == \A c \in Clients : profiler[c] = "cpu" => cpu = c

\* Nothing is handed to a transport that is shut: when it is, the goroutines that
\* send profiles and sessions are gone, however many close the client at once.
TransportIsLast ==
    \A c \in Clients : "transport" \in shut[c]
        => profiler[c] \in {"none", "gone"} /\ sessions[c] \in {"none", "gone"}
           /\ "traces" \in shut[c]

\* Init closes the client it replaces and no other: the installed one is touched
\* only by a Close that asked for it.
CurrentIsOpen ==
    /\ TypeOK
    /\ current # Nobody /\ stopped[current] \cup shut[current] # {}
          => \E g \in Closers : target[g] = current

\* Every client that was replaced is closed in the end, also when several Inits and
\* a Close meet and one of them panics: none is left behind with its goroutines.
ReplacedIsClosed ==
    \A c \in Clients : (pc[c] \notin {"idle", "made"} /\ current # c) ~> "transport" \in shut[c]

\* No Close hangs, whatever the profiler is doing and whoever else closes the client:
\* it returns or, where it met another in sessions.close, panics, and then another
\* Close of that client returns.
ClosedByOneThatReturns ==
    \A g \in Closing :
        pc[g] = "profiler" ~> /\ pc[g] \in {"done", "panicked"}
                              /\ \E h \in Closing : target[h] = target[g] /\ pc[h] = "done"

-----------------------------------------------------------------------------
(* What a comment says and the code does not do.                            *)

\* client.go:23: the client is safe for concurrent use.  A global Close and the Init
\* that replaces the client may both find the aggregator's stop channel open; the
\* second to close it panics.
CloseDoesNotPanic == \A g \in Closing : pc[g] # "panicked"

=============================================================================
