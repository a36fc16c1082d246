-------------------------- MODULE LifecycleProofs ----------------------------
(***************************************************************************)
(* Closing clients is safe for any number of Inits, Closes and clients.    *)
(***************************************************************************)
EXTENDS Lifecycle, TLAPS

\* The stages of a Close that come after the profiler's, the sessions' and the
\* transactions' turn.
FromTransport == {"transport", "stoppingTransport"}
FromTraces    == {"traces", "stoppingTraces"} \cup FromTransport
FromSessions  == {"sessions", "closingSessions", "stoppingSessions"} \cup FromTraces
Stages        == {"profiler", "stoppingProfiler"} \cup FromSessions

PcOK == pc \in [Closing -> {"idle", "made", "done", "panicked"} \cup Stages]

\* A client is a target only once it is installed, and only what is a target is
\* touched; no Init has the installed client for a target.
Targets ==
    /\ target \in [Closing -> Clients \cup {Nobody}]
    /\ current \in Clients => pc[current] \notin {"idle", "made"}
    /\ \A g \in Closing : /\ pc[g] \in {"idle", "made"} => target[g] = Nobody
                          /\ target[g] # Nobody => pc[target[g]] \notin {"idle", "made"}
    /\ \A c \in Clients : stopped[c] \cup shut[c] # {} => \E g \in Closing : target[g] = c
    /\ \A i \in Clients : target[i] # Nobody => target[i] # current

\* Where a Close stands says what it has seen the end of.
Stagewise ==
    \A g \in Closing :
        /\ pc[g] \in FromSessions  => profiler[target[g]] \in {"none", "gone"}
        /\ pc[g] \in FromTraces    => sessions[target[g]] \in {"none", "gone"}
        /\ pc[g] \in FromTransport => "traces" \in shut[target[g]]

IInv == TypeOK /\ PcOK /\ Targets /\ Stagewise /\ OwnProfileOnly /\ TransportIsLast

LEMMA InitIInv == Init => IInv
<1> SUFFICES ASSUME Init PROVE IInv
    OBVIOUS
<1> USE DEF Init
<1>1. TypeOK /\ PcOK
    BY DEF TypeOK, PcOK, Closing
<1>2. Targets
    BY NobodyAssumption DEF Targets
<1>3. Stagewise
    BY DEF Stagewise, FromSessions, FromTraces, FromTransport
<1>4. OwnProfileOnly /\ TransportIsLast
    BY DEF OwnProfileOnly, TransportIsLast
<1> QED
    BY <1>1, <1>2, <1>3, <1>4 DEF IInv

-----------------------------------------------------------------------------
(* Init and the global Close.                                               *)

LEMMA MakeStep ==
    ASSUME IInv, NEW c \in Clients, MakeClient(c)
    PROVE  IInv'
<1>1. TypeOK' /\ PcOK'
    BY DEF IInv, TypeOK, PcOK, MakeClient, Closing
<1>2. Targets'
    BY DEF IInv, TypeOK, PcOK, Targets, MakeClient, Closing
<1>3. \A g \in Closing : target[g] # c
    BY NobodyAssumption DEF IInv, Targets, MakeClient, Closing
<1>4. /\ shut[c] = {} /\ UNCHANGED <<shut, target, cpu>>
      /\ profiler'[c] # "cpu"
      /\ \A d \in Clients \ {c} : profiler'[d] = profiler[d] /\ sessions'[d] = sessions[d]
    BY <1>3 DEF IInv, TypeOK, Targets, MakeClient
<1>5. Stagewise'
    BY <1>3 DEF IInv, TypeOK, PcOK, Targets, Stagewise, MakeClient, Closing,
                FromSessions, FromTraces, FromTransport
<1>6. OwnProfileOnly' /\ TransportIsLast'
    BY <1>4 DEF IInv, OwnProfileOnly, TransportIsLast
<1> QED
    BY <1>1, <1>2, <1>5, <1>6 DEF IInv

\* Giving a goroutine its target changes nothing but the targets and their bounds.
LEMMA TargetStep ==
    ASSUME IInv, NEW g \in Closing, pc[g] \in {"idle", "made"},
           target' = [target EXCEPT ![g] = current],
           pc' = [pc EXCEPT ![g] = IF current = Nobody THEN "done" ELSE "profiler"],
           UNCHANGED <<partVars, stopped, shut>>
    PROVE  TypeOK' = (TypeOK /\ current' \in Clients \cup {Nobody})
           /\ PcOK' /\ Stagewise' /\ OwnProfileOnly' /\ TransportIsLast'
           /\ target' \in [Closing -> Clients \cup {Nobody}]
<1>1. /\ pc' \in [Closing -> {"idle", "made", "done", "panicked"} \cup Stages]
      /\ target' \in [Closing -> Clients \cup {Nobody}]
    BY DEF IInv, TypeOK, PcOK, Targets, Stages
<1>2. pc'[g] = (IF current = Nobody THEN "done" ELSE "profiler") /\ target'[g] = current
    BY DEF IInv, PcOK, Targets
<1>3. \A h \in Closing \ {g} : pc'[h] = pc[h] /\ target'[h] = target[h]
    BY DEF IInv, PcOK, Targets
<1>4. TypeOK' = (TypeOK /\ current' \in Clients \cup {Nobody})
    BY <1>1, <1>2, <1>3 DEF IInv, TypeOK, partVars
<1>5. Stagewise'
    <2>1. UNCHANGED <<profiler, sessions, shut>>
        BY DEF partVars
    <2>2. ASSUME NEW h \in Closing, pc'[h] \in FromSessions
          PROVE  pc'[h] = pc[h] /\ target'[h] = target[h]
        <3>1. pc'[g] \in {"done", "profiler"}
            BY <1>2
        <3>2. pc'[g] \notin FromSessions
            BY <3>1 DEF FromSessions, FromTraces, FromTransport
        <3> QED
            BY <1>3, <2>2, <3>2
    <2> QED
        <3> SUFFICES ASSUME NEW h \in Closing
                     PROVE  /\ pc'[h] \in FromSessions => profiler'[target'[h]] \in {"none", "gone"}
                            /\ pc'[h] \in FromTraces => sessions'[target'[h]] \in {"none", "gone"}
                            /\ pc'[h] \in FromTransport => "traces" \in shut'[target'[h]]
            BY DEF Stagewise
        <3>1. CASE pc'[h] \in FromSessions
            BY <2>1, <2>2, <3>1 DEF IInv, Stagewise
        <3>2. CASE pc'[h] \notin FromSessions
            BY <3>2 DEF FromSessions, FromTraces
        <3> QED
            BY <3>1, <3>2
<1>6. PcOK' /\ OwnProfileOnly' /\ TransportIsLast'
    BY <1>1 DEF IInv, PcOK, OwnProfileOnly, TransportIsLast, partVars
<1> QED
    BY <1>1, <1>4, <1>5, <1>6

LEMMA InstallStep ==
    ASSUME IInv, NEW c \in Clients, Install(c)
    PROVE  IInv'
<1>1. c \in Closing /\ c # Nobody /\ Nobody \notin Clients
    BY NobodyAssumption DEF Closing
<1>2. /\ TypeOK' /\ PcOK' /\ Stagewise' /\ OwnProfileOnly' /\ TransportIsLast'
      /\ target' \in [Closing -> Clients \cup {Nobody}]
    BY <1>1, TargetStep DEF Install, IInv
<1>3. /\ pc'[c] \notin {"idle", "made"} /\ target'[c] = current /\ current' = c
      /\ current # c
      /\ \A h \in Closing \ {c} : pc'[h] = pc[h] /\ target'[h] = target[h]
      /\ \A h \in Closing : target[h] # c
    BY <1>1 DEF IInv, PcOK, TypeOK, Targets, Install
<1>4. Targets'
    <2>1. ASSUME NEW g \in Closing
          PROVE  /\ pc'[g] \in {"idle", "made"} => target'[g] = Nobody
                 /\ target'[g] # Nobody => pc'[target'[g]] \notin {"idle", "made"}
        <3>1. target[g] \in Closing \cup {Nobody} /\ current \in Closing \cup {Nobody}
            BY DEF IInv, TypeOK, Closing
        <3>2. CASE g = c
            BY <1>1, <1>3, <3>1, <3>2 DEF IInv, TypeOK, Targets
        <3>3. CASE g # c
            <4>1. pc'[g] = pc[g] /\ target'[g] = target[g] /\ target[g] # c
                BY <1>3, <3>3
            <4> QED
                BY <1>1, <1>3, <3>1, <4>1 DEF IInv, Targets
        <3> QED
            BY <3>2, <3>3
    <2>2. \A d \in Clients : stopped[d] \cup shut[d] # {} => \E g \in Closing : target'[g] = d
        <3> SUFFICES ASSUME NEW d \in Clients, stopped[d] \cup shut[d] # {}
                     PROVE  \E g \in Closing : target'[g] = d
            OBVIOUS
        <3>1. PICK g \in Closing : target[g] = d
            BY DEF IInv, Targets
        <3>2. g # c
            BY <3>1, <1>1 DEF IInv, Targets, Install
        <3> QED
            BY <3>1, <3>2, <1>3
    <2>3. \A i \in Clients : target'[i] # Nobody => target'[i] # current'
        BY <1>1, <1>3 DEF Closing
    <2> QED
        BY <1>2, <1>3, <2>1, <2>2, <2>3 DEF Targets, Install
<1> QED
    BY <1>2, <1>4 DEF IInv

LEMMA CloseGlobalStep ==
    ASSUME IInv, NEW g \in Closing, CloseGlobal(g)
    PROVE  IInv'
<1>1. g \notin Clients /\ Nobody \notin Clients /\ current' = current
    BY NobodyAssumption, DistinctAssumption DEF CloseGlobal
<1>2. /\ TypeOK' /\ PcOK' /\ Stagewise' /\ OwnProfileOnly' /\ TransportIsLast'
      /\ target' \in [Closing -> Clients \cup {Nobody}]
    BY <1>1, TargetStep DEF CloseGlobal, IInv, TypeOK
<1>3. /\ pc'[g] \notin {"idle", "made"} /\ target'[g] = current
      /\ target[g] = Nobody
      /\ \A h \in Closing \ {g} : pc'[h] = pc[h] /\ target'[h] = target[h]
    BY DEF IInv, PcOK, Targets, CloseGlobal
<1>4. Targets'
    <2>1. ASSUME NEW h \in Closing
          PROVE  /\ pc'[h] \in {"idle", "made"} => target'[h] = Nobody
                 /\ target'[h] # Nobody => pc'[target'[h]] \notin {"idle", "made"}
        <3>1. target[h] \in Clients \cup {Nobody} /\ current \in Clients \cup {Nobody}
            BY DEF IInv, TypeOK
        <3>2. \A c \in Clients : c # g /\ c \in Closing /\ pc'[c] = pc[c]
            BY <1>1, <1>3 DEF Closing
        <3>3. CASE h = g
            BY <1>1, <1>3, <3>1, <3>2, <3>3 DEF IInv, Targets
        <3>4. CASE h # g
            <4>1. pc'[h] = pc[h] /\ target'[h] = target[h]
                BY <1>3, <3>4
            <4> QED
                BY <1>1, <3>1, <3>2, <4>1 DEF IInv, Targets
        <3> QED
            BY <3>3, <3>4
    <2>2. \A d \in Clients : stopped[d] \cup shut[d] # {} => \E h \in Closing : target'[h] = d
        BY <1>1, <1>3 DEF IInv, Targets
    <2>3. \A i \in Clients : target'[i] # Nobody => target'[i] # current
        BY <1>1, <1>3 DEF IInv, Targets, Closing
    <2>4. current \in Clients => pc'[current] \notin {"idle", "made"}
        BY <1>1, <1>3 DEF IInv, Targets, Closing
    <2> QED
        BY <1>1, <1>2, <2>1, <2>2, <2>3, <2>4 DEF Targets, CloseGlobal
<1> QED
    BY <1>2, <1>4 DEF IInv

-----------------------------------------------------------------------------
(* The stages of a Close.                                                   *)

\* What every stage's step does: it moves its own Close on, and stops or shuts parts
\* of the client it closes.
Stage(g) ==
    /\ pc[g] \in Stages /\ pc' \in [Closing -> {"idle", "made", "done", "panicked"} \cup Stages]
    /\ pc'[g] \in Stages \cup {"done", "panicked"} /\ \A h \in Closing \ {g} : pc'[h] = pc[h]
    /\ stopped' \in [Clients -> SUBSET {"profiler", "sessions"}]
    /\ shut' \in [Clients -> SUBSET {"traces", "transport"}]
    /\ \A c \in Clients \ {target[g]} : stopped'[c] = stopped[c] /\ shut'[c] = shut[c]
    /\ shut[target[g]] \subseteq shut'[target[g]]
    /\ UNCHANGED <<current, profiler, sessions, cpu, target>>
    /\ pc'[g] \in FromSessions  => profiler[target[g]] \in {"none", "gone"}
    /\ pc'[g] \in FromTraces    => sessions[target[g]] \in {"none", "gone"}
    /\ pc'[g] \in FromTransport => "traces" \in shut'[target[g]]
    /\ "transport" \in shut'[target[g]] \ shut[target[g]] => pc[g] \in FromTransport

LEMMA StageStep ==
    ASSUME IInv, NEW g \in Closing, Stage(g)
    PROVE  IInv'
<1>1. target[g] \in Clients /\ target[g] # Nobody /\ Nobody \notin Clients
    BY NobodyAssumption DEF IInv, TypeOK, Stage, Stages, FromSessions, FromTraces, FromTransport
<1>2. \A h \in Closing : pc'[h] \in {"idle", "made"} <=> pc[h] \in {"idle", "made"}
    BY DEF Stage, Stages, FromSessions, FromTraces, FromTransport
<1>3. TypeOK' /\ PcOK'
    BY <1>1 DEF IInv, TypeOK, PcOK, Stage
<1>4. Targets'
    <2>1. UNCHANGED <<current, target>> /\ \A c \in Clients : c \in Closing
        BY DEF Stage, Closing
    <2>2. \A h \in Closing : target[h] # Nobody => target[h] \in Clients
        BY DEF IInv, TypeOK
    <2>3. \A c \in Clients : stopped'[c] \cup shut'[c] # {} => \E h \in Closing : target[h] = c
        BY DEF IInv, Targets, Stage
    <2> QED
        BY <1>2, <2>1, <2>2, <2>3 DEF IInv, Targets
<1>5. \A c \in Clients : shut[c] \subseteq shut'[c]
    BY <1>1 DEF Stage
<1>6. Stagewise'
    <2> SUFFICES ASSUME NEW h \in Closing
                 PROVE  /\ pc'[h] \in FromSessions  => profiler[target[h]] \in {"none", "gone"}
                        /\ pc'[h] \in FromTraces    => sessions[target[h]] \in {"none", "gone"}
                        /\ pc'[h] \in FromTransport => "traces" \in shut'[target[h]]
        BY DEF Stagewise, Stage
    <2>1. CASE h = g
        BY <2>1 DEF Stage
    <2>2. CASE h # g
        <3>1. pc'[h] = pc[h]
            BY <2>2 DEF Stage
        <3>2. pc[h] \in FromTransport => target[h] \in Clients
            BY NobodyAssumption DEF IInv, TypeOK, FromTransport
        <3> QED
            BY <3>1, <3>2, <1>5 DEF IInv, Stagewise
    <2> QED
        BY <2>1, <2>2
<1>7. OwnProfileOnly'
    BY DEF IInv, OwnProfileOnly, Stage
<1>8. TransportIsLast'
    <2> SUFFICES ASSUME NEW c \in Clients, "transport" \in shut'[c]
                 PROVE  /\ profiler[c] \in {"none", "gone"} /\ sessions[c] \in {"none", "gone"}
                        /\ "traces" \in shut'[c]
        BY DEF TransportIsLast, Stage
    <2>1. CASE "transport" \in shut[c]
        BY <2>1, <1>5 DEF IInv, TransportIsLast
    <2>2. CASE "transport" \notin shut[c]
        <3>1. c = target[g] /\ pc[g] \in FromTransport
            BY <2>2 DEF Stage
        <3> QED
            BY <3>1, <1>5 DEF IInv, Stagewise, FromSessions, FromTraces
    <2> QED
        BY <2>1, <2>2
<1> QED
    BY <1>3, <1>4, <1>6, <1>7, <1>8 DEF IInv

LEMMA CloseSteps ==
    ASSUME IInv, NEW g \in Closing, CloseStep(g)
    PROVE  IInv'
<1> USE DEF Stages, FromSessions, FromTraces, FromTransport, Stage, partVars
<1>1. /\ stopped \in [Clients -> SUBSET {"profiler", "sessions"}]
      /\ shut \in [Clients -> SUBSET {"traces", "transport"}]
      /\ pc \in [Closing -> {"idle", "made", "done", "panicked"} \cup Stages]
      /\ pc[g] \in Stages => target[g] \in Clients
    BY NobodyAssumption DEF IInv, TypeOK, PcOK
<1>2. Stagewise
    BY DEF IInv
<1>3. ASSUME StopProfiler(g) PROVE Stage(g)
    BY <1>1, <1>3 DEF StopProfiler, Stop
<1>4. ASSUME ProfilerStopped(g) \/ NoProfiler(g) PROVE Stage(g)
    BY <1>1, <1>4 DEF ProfilerStopped, NoProfiler, Moves
<1>5. ASSUME CheckSessions(g) \/ StopSessions(g) \/ StopSessionsAgain(g) PROVE Stage(g)
    BY <1>1, <1>2, <1>5 DEF CheckSessions, StopSessions, StopSessionsAgain, Moves, Stop, Stagewise
<1>6. ASSUME SessionsStopped(g) \/ NoSessions(g) PROVE Stage(g)
    BY <1>1, <1>2, <1>6 DEF SessionsStopped, NoSessions, Moves, Stagewise
<1>7. ASSUME ShutTraces(g) PROVE Stage(g)
    BY <1>1, <1>2, <1>7 DEF ShutTraces, Shut, Stagewise
<1>8. ASSUME TracesStopped(g) PROVE Stage(g)
    BY <1>1, <1>2, <1>8 DEF TracesStopped, Moves, Stagewise
<1>9. ASSUME ShutTransport(g) PROVE Stage(g)
    BY <1>1, <1>2, <1>9 DEF ShutTransport, Shut, Stagewise
<1>10. ASSUME TransportStopped(g) PROVE Stage(g)
    BY <1>1, <1>2, <1>10 DEF TransportStopped, Moves, Stagewise
<1> HIDE DEF Stage
<1> QED
    BY <1>3, <1>4, <1>5, <1>6, <1>7, <1>8, <1>9, <1>10, StageStep DEF CloseStep

-----------------------------------------------------------------------------
(* The goroutines of a client, and the application's profiles.              *)

LEMMA ProfilerSteps ==
    ASSUME IInv, NEW c \in Clients, ProfileStarts(c) \/ Profiling(c) \/ ProfilerStops(c)
    PROVE  IInv'
<1> USE DEF ProfileStarts, Profiling, ProfilerStops, ProfileRuns, ProfileSkipped, ProfileEnds,
            ProfileSent, HeapSent, ProfilerMoves
<1>1. TypeOK' /\ PcOK'
    BY DEF IInv, TypeOK, PcOK, closeVars
<1>2. Targets'
    BY DEF IInv, Targets, closeVars
<1>3. /\ profiler[c] \notin {"none", "gone"}
      /\ \A d \in Clients : d # c => profiler'[d] = profiler[d]
    BY DEF IInv, TypeOK
<1>4. \A g \in Closing : pc[g] \in FromSessions => target[g] \in Clients
    BY NobodyAssumption DEF IInv, TypeOK, FromSessions, FromTraces, FromTransport
<1>5. Stagewise'
    BY <1>3, <1>4 DEF IInv, Stagewise, closeVars
<1>6. OwnProfileOnly'
    <2>1. ASSUME ProfileRuns(c) PROVE OwnProfileOnly'
        BY <2>1, NobodyAssumption DEF IInv, TypeOK, OwnProfileOnly
    <2>2. ASSUME ProfileEnds(c) PROVE OwnProfileOnly'
        BY <2>2 DEF IInv, TypeOK, OwnProfileOnly
    <2>3. ASSUME UNCHANGED cpu, profiler'[c] # "cpu" PROVE OwnProfileOnly'
        BY <2>3, <1>3 DEF IInv, OwnProfileOnly
    <2> QED
        BY <2>1, <2>2, <2>3 DEF IInv, TypeOK
<1>7. TransportIsLast'
    BY <1>3 DEF IInv, TransportIsLast, closeVars
<1> QED
    BY <1>1, <1>2, <1>5, <1>6, <1>7 DEF IInv

LEMMA SessionsSteps ==
    ASSUME IInv, NEW c \in Clients,
           Report(c) \/ Reported(c) \/ ReportLast(c) \/ ReportedLast(c)
    PROVE  IInv'
<1> USE DEF Report, Reported, ReportLast, ReportedLast, SessionsMove
<1>1. TypeOK' /\ PcOK'
    BY DEF IInv, TypeOK, PcOK, closeVars
<1>2. Targets' /\ OwnProfileOnly'
    BY DEF IInv, Targets, OwnProfileOnly, closeVars
<1>3. /\ sessions[c] \notin {"none", "gone"}
      /\ \A d \in Clients : d # c => sessions'[d] = sessions[d]
    BY DEF IInv, TypeOK
<1>4. \A g \in Closing : pc[g] \in FromTraces => target[g] \in Clients
    BY NobodyAssumption DEF IInv, TypeOK, FromTraces, FromTransport
<1>5. Stagewise'
    BY <1>3, <1>4 DEF IInv, Stagewise, closeVars
<1>6. TransportIsLast'
    BY <1>3 DEF IInv, TransportIsLast, closeVars
<1> QED
    BY <1>1, <1>2, <1>5, <1>6 DEF IInv

LEMMA AppStep == IInv /\ AppProfiles => IInv'
<1> SUFFICES ASSUME IInv, AppProfiles PROVE IInv'
    OBVIOUS
<1>1. TypeOK' /\ PcOK' /\ Targets' /\ Stagewise' /\ TransportIsLast'
    BY DEF IInv, TypeOK, PcOK, Targets, Stagewise, TransportIsLast, AppProfiles, closeVars
<1>2. OwnProfileOnly'
    BY NobodyAssumption DEF IInv, OwnProfileOnly, AppProfiles
<1> QED
    BY <1>1, <1>2 DEF IInv

-----------------------------------------------------------------------------
LEMMA StepIInv == IInv /\ [Next]_vars => IInv'
<1> SUFFICES ASSUME IInv, [Next]_vars PROVE IInv'
    OBVIOUS
<1>1. ASSUME NEW c \in Clients, MakeClient(c) PROVE IInv'
    BY <1>1, MakeStep
<1>2. ASSUME NEW c \in Clients, Install(c) PROVE IInv'
    BY <1>2, InstallStep
<1>3. ASSUME NEW c \in Clients, ProfileStarts(c) \/ Profiling(c) \/ ProfilerStops(c)
      PROVE  IInv'
    BY <1>3, ProfilerSteps
<1>4. ASSUME NEW c \in Clients, Report(c) \/ Reported(c) \/ ReportLast(c) \/ ReportedLast(c)
      PROVE  IInv'
    BY <1>4, SessionsSteps
<1>5. ASSUME NEW g \in Closing, CloseGlobal(g) \/ CloseStep(g) PROVE IInv'
    BY <1>5, CloseGlobalStep, CloseSteps
<1>6. CASE AppProfiles
    BY <1>6, AppStep
<1>7. CASE UNCHANGED vars
    BY <1>7 DEF vars, partVars, closeVars, IInv, TypeOK, PcOK, Targets, Stagewise,
                OwnProfileOnly, TransportIsLast
<1> QED
    BY <1>1, <1>2, <1>3, <1>4, <1>5, <1>6, <1>7 DEF Next

LEMMA Inductive == Safety => []IInv
BY InitIInv, StepIInv, PTL DEF Safety

\* The profiler of a client stops the CPU profile it has started and never that of
\* another client or of the application.
THEOREM ProfilesAreOwn == Spec => []OwnProfileOnly
<1>1. IInv => OwnProfileOnly
    BY DEF IInv
<1> QED
    BY <1>1, Inductive, PTL DEF Spec

\* A transport is shut last, however many goroutines close its client at once: what
\* would still hand it something is gone.
THEOREM TransportShutLast == Spec => []TransportIsLast
<1>1. IInv => TransportIsLast
    BY DEF IInv
<1> QED
    BY <1>1, Inductive, PTL DEF Spec

\* The installed client is closed only by a Close that asked for it, however many
\* Inits replace one another.
THEOREM CurrentStaysOpen == Spec => []CurrentIsOpen
<1>1. IInv => CurrentIsOpen
    <2> SUFFICES ASSUME IInv, current # Nobody, stopped[current] \cup shut[current] # {}
                 PROVE  \E g \in Closers : target[g] = current
        BY DEF IInv, CurrentIsOpen
    <2>1. current \in Clients
        BY DEF IInv, TypeOK
    <2>2. PICK g \in Closing : target[g] = current
        BY <2>1 DEF IInv, Targets
    <2>3. g \notin Clients
        BY <2>2 DEF IInv, Targets
    <2> QED
        BY <2>2, <2>3 DEF Closing
<1> QED
    BY <1>1, Inductive, PTL DEF Spec
=============================================================================
