-------------------------- MODULE BreadcrumbsProofs ---------------------------
(***************************************************************************)
(* Breadcrumbs and where they go.  With a faithful setting the wrapped     *)
(* connection implements database/sql on the driver as it is, and with any *)
(* setting the trail tells what came of the call, for any number of        *)
(* retries.  And an event has the breadcrumbs, the tags                    *)
(* and the user of its own flow, for any number of scopes below each other *)
(* and of breadcrumbs on them.                                             *)
(***************************************************************************)
EXTENDS SqlBreadcrumbs, Scope, DataLemmas, SequenceTheorems

\* What the refinement needs to know of a state: the setting is one of those
\* considered, and only a context that may end has ended.
IInv == /\ setting \in Settings
        /\ cancelled => setting.cancels

LEMMA InitIInv == Init => IInv
BY DEF Init, IInv

LEMMA StepIInv == IInv /\ [Next]_vars => IInv'
<1> SUFFICES ASSUME IInv, [Next]_vars PROVE IInv'
    OBVIOUS
<1> USE DEF IInv
<1>1. ASSUME NEW o, Start(o) PROVE IInv'
    BY <1>1 DEF Start
<1>2. CASE Cancel
    BY <1>2 DEF Cancel
<1>3. ASSUME UNCHANGED <<setting, cancelled>> PROVE IInv'
    BY <1>3
<1>4. CASE GiveUp \/ Reuse \/ Open
    BY <1>3, <1>4 DEF GiveUp, Reuse, Open
<1>5. CASE ExecContext \/ PrepareContext \/ StmtExecContext
    BY <1>3, <1>5 DEF ExecContext, PrepareContext, StmtExecContext
<1>6. CASE BeginTx \/ Ping \/ Release
    BY <1>3, <1>6 DEF BeginTx, Ping, Release
<1>7. CASE UNCHANGED vars
    BY <1>3, <1>7 DEF vars
<1> QED
    BY <1>1, <1>2, <1>4, <1>5, <1>6, <1>7 DEF Next

\* Every state is one of the settings considered.
THEOREM Settled == Spec => []IInv
BY InitIInv, StepIInv, PTL DEF Spec

\* The setting stays what it is, and with it whether it is faithful.
LEMMA StepFaithful == Faithful(setting) /\ [Next]_vars => Faithful(setting)'
<1> SUFFICES ASSUME Faithful(setting), [Next]_vars PROVE Faithful(setting)'
    OBVIOUS
<1>1. CASE \E o \in Plain!Operations : Start(o)
    BY <1>1 DEF Start, Faithful
<1>2. CASE Cancel \/ GiveUp \/ Reuse \/ Open
    BY <1>2 DEF Cancel, GiveUp, Reuse, Open, Faithful
<1>3. CASE ExecContext \/ PrepareContext \/ StmtExecContext
    BY <1>3 DEF ExecContext, PrepareContext, StmtExecContext, Faithful
<1>4. CASE BeginTx \/ Ping \/ Release
    BY <1>4 DEF BeginTx, Ping, Release, Faithful
<1>5. CASE UNCHANGED vars
    BY <1>5 DEF vars, Faithful
<1> QED
    BY <1>1, <1>2, <1>3, <1>4, <1>5 DEF Next

-----------------------------------------------------------------------------
LEMMA SettingFacts ==
    ASSUME IInv
    PROVE  /\ setting.execer \in BOOLEAN /\ setting.pinger \in BOOLEAN
           /\ setting.prepCtx \in BOOLEAN /\ setting.stmtCtx \in BOOLEAN
           /\ setting.beginCtx \in BOOLEAN /\ setting.legacy \in BOOLEAN
           /\ setting.resetter \in BOOLEAN /\ setting.validator \in BOOLEAN
           /\ setting.connCheck \in BOOLEAN /\ setting.stmtCheck \in BOOLEAN
           /\ setting.converter \in BOOLEAN
BY SettingsAssumption DEF IInv, SettingTypes

\* What faithful settings are good for.
LEMMA FaithfulFacts ==
    ASSUME IInv, Faithful(setting)
    PROVE  /\ setting.legacy => setting.execer
           /\ cancelled => setting.prepCtx /\ setting.stmtCtx /\ setting.beginCtx
           /\ ~setting.execer => ~Refused(setting.connCheck)
           /\ Plain!ConnRefuses <=> Refused(setting.connCheck)
           /\ Plain!StmtRefuses <=> Refused(setting.stmtCheck)
<1>1. setting.legacy => setting.execer
    BY DEF Faithful
<1>2. cancelled => setting.prepCtx /\ setting.stmtCtx /\ setting.beginCtx
    BY DEF IInv, Faithful
<1>3. ~setting.execer => ~Refused(setting.connCheck)
    BY DEF Faithful, Refused
<1>4. Plain!ConnRefuses <=> Refused(setting.connCheck)
    BY DEF Refused, Plain!ConnRefuses, Plain!Refused
<1>5. Plain!StmtRefuses <=> Refused(setting.stmtCheck)
    BY SettingFacts DEF Faithful, Refused, Plain!StmtRefuses, Plain!Refused
<1> QED
    BY <1>1, <1>2, <1>3, <1>4, <1>5

-----------------------------------------------------------------------------
(* Where database/sql goes next is the same place.                          *)

\* What an answer leads to does not depend on who gave it.
LEMMA SameAnswer ==
    ASSUME NEW out, Answer(out)
    PROVE  Plain!Answer(out)
BY DEF Answer, Plain!Answer, PlainPc, PlainResult, PassesThrough

\* What comes after the connection: without the wrapper database/sql skips the
\* step for which the driver has no interface.
LEMMA SameReach ==
    ASSUME IInv, Faithful(setting), setting' = setting, pc = "conn", GoTo(First)
    PROVE  Plain!Reach
<1>1. /\ setting.execer \in BOOLEAN /\ setting.pinger \in BOOLEAN
      /\ setting.legacy => setting.execer
    BY FaithfulFacts, SettingFacts
<1>2. pc' = First /\ tries' = tries /\ result' = result /\ PlainResult = result
    BY DEF GoTo, PlainResult, PassesThrough
<1>3. CASE op \in Plain!Begins
    BY <1>1, <1>2, <1>3 DEF First, Plain!Reach, Plain!First, Plain!Begins, Plain!GoTo,
        PlainPc, PlainResult, PassesThrough
<1>4. CASE op = "ping"
    BY <1>1, <1>2, <1>4 DEF First, Plain!Reach, Plain!First, Plain!Begins, Plain!GoTo,
        Plain!Answer, PlainPc, PlainResult, PassesThrough
<1>5. CASE op \notin Plain!Begins /\ op # "ping"
    BY <1>1, <1>2, <1>5 DEF First, Plain!Reach, Plain!First, Plain!GoTo,
        PlainPc, PlainResult, PassesThrough
<1> QED
    BY <1>3, <1>4, <1>5

-----------------------------------------------------------------------------
(* One lemma per action of database/sql that the wrapper takes part in.     *)

LEMMA StepReuse == IInv /\ Faithful(setting) /\ Reuse => Plain!Reuse
<1> SUFFICES ASSUME IInv, Faithful(setting), Reuse PROVE Plain!Reuse
    OBVIOUS
<1>1. pc = "conn" /\ setting' = setting
    BY DEF Reuse, Reuses
<1>2. PlainPc = "conn"
    BY <1>1 DEF PlainPc, PassesThrough
<1>3. Plain!Reuses /\ pool' = "empty" /\ UNCHANGED <<setting, op, cancelled>>
    BY <1>2 DEF Reuse, Reuses, Plain!Reuses
<1>4. CASE ~setting.resetter
    BY <1>1, <1>3, <1>4, SameReach DEF Reuse, NoCall, Plain!Reuse
<1>5. CASE setting.resetter
    <2>1. PICK out \in Plain!Outcomes :
             /\ Call("ResetSession", out)
             /\ IF out = "badconn" THEN Answer(out) ELSE GoTo(First)
        BY <1>5 DEF Reuse
    <2>2. Plain!Call("ResetSession", out)
        BY <2>1 DEF Call, Plain!Call
    <2>3. IF out = "badconn" THEN Plain!Answer(out) ELSE Plain!Reach
        BY <1>1, <2>1, SameAnswer, SameReach
    <2> QED
        BY <1>3, <1>5, <2>2, <2>3 DEF Plain!Reuse
<1> QED
    BY <1>4, <1>5

LEMMA StepOpen == IInv /\ Faithful(setting) /\ Open => Plain!Open
<1> SUFFICES ASSUME IInv, Faithful(setting), Open PROVE Plain!Open
    OBVIOUS
<1>1. pc = "conn" /\ setting' = setting
    BY DEF Open
<1>2. PlainPc = "conn"
    BY <1>1 DEF PlainPc, PassesThrough
<1>3. /\ ~cancelled /\ ~Plain!Reuses
      /\ UNCHANGED <<setting, op, pool, cancelled>>
    BY <1>1, <1>2 DEF Open, Reuses, Plain!Reuses
<1>4. PICK out \in Plain!Outcomes :
         /\ Call("Open", out)
         /\ IF out = "ok" THEN GoTo(First)
            ELSE IF out = "badconn" THEN Answer(out)
            ELSE pc' = "idle" /\ result' = out /\ UNCHANGED tries
    BY DEF Open
<1>5. Plain!Call("Open", out)
    BY <1>4 DEF Call, Plain!Call
<1>6. pc' = "idle" => PlainPc' = "idle" /\ PlainResult' = result'
    BY DEF PlainPc, PlainResult, PassesThrough
<1>7. IF out = "ok" THEN Plain!Reach
      ELSE IF out = "badconn" THEN Plain!Answer(out)
      ELSE PlainPc' = "idle" /\ PlainResult' = out /\ UNCHANGED tries
    BY <1>1, <1>4, <1>6, SameAnswer, SameReach
<1> QED
    BY <1>2, <1>3, <1>5, <1>7 DEF Plain!Open

\* A driver that cannot execute: the wrapper answers ErrSkip, and database/sql
\* is where it would have begun without the wrapper.
LEMMA StepExecContext ==
    IInv /\ Faithful(setting) /\ ExecContext => Plain!Direct \/ UNCHANGED Plain!vars
<1> SUFFICES ASSUME IInv, Faithful(setting), ExecContext PROVE Plain!Direct \/ UNCHANGED Plain!vars
    OBVIOUS
<1>1. /\ setting.execer \in BOOLEAN /\ setting.legacy \in BOOLEAN
      /\ setting.legacy => setting.execer
      /\ ~setting.execer => ~Refused(setting.connCheck)
      /\ Plain!ConnRefuses <=> Refused(setting.connCheck)
    BY FaithfulFacts, SettingFacts
<1>2. pc = "direct" /\ UNCHANGED <<setting, op, pool, cancelled>>
    BY DEF ExecContext
<1>3. CASE ~setting.execer
    <2>1. GoTo("prepare") /\ NoCall
        BY <1>1, <1>3 DEF ExecContext
    <2> QED
        BY <1>1, <1>2, <1>3, <2>1 DEF GoTo, NoCall, Plain!vars, PlainPc, PlainResult, PassesThrough
<1>4. CASE setting.execer
    <2>1. PlainPc = "direct" /\ PlainResult = result
        BY <1>2, <1>4 DEF PlainPc, PlainResult, PassesThrough
    <2>2. CASE Refused(setting.connCheck)
        BY <1>1, <1>2, <2>1, <2>2, SameAnswer DEF ExecContext, NoCall, Plain!Direct
    <2>3. CASE ~Refused(setting.connCheck)
        <3>1. PICK out \in Plain!Outcomes \cup {"skip"} :
                 /\ Call("ExecContext", out)
                 /\ IF out = "skip" THEN GoTo("prepare") ELSE Answer(out)
            BY <1>4, <2>3 DEF ExecContext
        <3>2. Plain!Call("ExecContext", out)
            BY <3>1 DEF Call, Plain!Call
        <3>3. GoTo("prepare") => Plain!GoTo("prepare")
            BY <2>1 DEF GoTo, Plain!GoTo, PlainPc, PlainResult, PassesThrough
        <3>4. IF out = "skip" THEN Plain!GoTo("prepare") ELSE Plain!Answer(out)
            BY <3>1, <3>3, SameAnswer
        <3>5. /\ ~Plain!ConnRefuses
              /\ Plain!Call(IF setting.execer THEN "ExecContext" ELSE "Exec", out)
            BY <1>1, <1>4, <2>3, <3>2
        <3> QED
            BY <1>2, <1>4, <2>1, <3>4, <3>5 DEF Plain!Direct
    <2> QED
        BY <2>2, <2>3
<1> QED
    BY <1>1, <1>3, <1>4

LEMMA StepPrepareContext == IInv /\ Faithful(setting) /\ PrepareContext => Plain!Prepare
<1> SUFFICES ASSUME IInv, Faithful(setting), PrepareContext PROVE Plain!Prepare
    OBVIOUS
<1>1. cancelled => setting.prepCtx
    BY FaithfulFacts, SettingFacts
<1>2. pc = "prepare" /\ UNCHANGED <<setting, op, pool, cancelled>>
    BY DEF PrepareContext
<1>3. PlainPc = "prepare" /\ PlainResult = result
    BY <1>2 DEF PlainPc, PlainResult, PassesThrough
<1>4. PICK out \in Plain!Outcomes :
         /\ Call(IF setting.prepCtx THEN "PrepareContext" ELSE "Prepare", out)
         /\ IF out = "ok" THEN GoTo("stmt") ELSE Answer(out)
    BY DEF PrepareContext
<1>5. Plain!Call(IF setting.prepCtx THEN "PrepareContext" ELSE "Prepare", out)
    BY <1>4 DEF Call, Plain!Call
<1>6. GoTo("stmt") => Plain!GoTo("stmt")
    BY <1>3 DEF GoTo, Plain!GoTo, PlainPc, PlainResult, PassesThrough
<1>7. IF out # "ok" THEN Plain!Answer(out)
      ELSE IF cancelled /\ ~setting.prepCtx THEN Plain!Answer("cancelled")
      ELSE Plain!GoTo("stmt")
    BY <1>1, <1>4, <1>6, SameAnswer
<1> QED
    BY <1>2, <1>3, <1>5, <1>7 DEF Plain!Prepare

LEMMA StepStmtExecContext == IInv /\ Faithful(setting) /\ StmtExecContext => Plain!Stmt
<1> SUFFICES ASSUME IInv, Faithful(setting), StmtExecContext PROVE Plain!Stmt
    OBVIOUS
<1>1. /\ cancelled => setting.stmtCtx
      /\ Plain!StmtRefuses <=> Refused(setting.stmtCheck)
    BY FaithfulFacts, SettingFacts
<1>2. pc = "stmt" /\ UNCHANGED <<setting, op, pool, cancelled>>
    BY DEF StmtExecContext
<1>3. PlainPc = "stmt"
    BY <1>2 DEF PlainPc, PassesThrough
<1> DEFINE refuses == Refused(setting.stmtCheck) \/ (~setting.stmtCtx /\ setting.args = "named")
<1>4. CASE refuses
    BY <1>1, <1>2, <1>3, <1>4, SameAnswer DEF StmtExecContext, NoCall, Plain!Stmt
<1>5. CASE ~refuses
    <2>1. PICK out \in Plain!Outcomes :
             /\ Call(IF setting.stmtCtx THEN "StmtExecContext" ELSE "StmtExec", out)
             /\ Answer(out)
        BY <1>5 DEF StmtExecContext
    <2>2. /\ Plain!Call(IF setting.stmtCtx THEN "StmtExecContext" ELSE "StmtExec", out)
          /\ Plain!Answer(out)
        BY <2>1, SameAnswer DEF Call, Plain!Call
    <2> QED
        BY <1>1, <1>2, <1>3, <1>5, <2>2 DEF Plain!Stmt
<1> QED
    BY <1>4, <1>5

LEMMA StepBeginTx == IInv /\ Faithful(setting) /\ BeginTx => Plain!Begin
<1> SUFFICES ASSUME IInv, Faithful(setting), BeginTx PROVE Plain!Begin
    OBVIOUS
<1>1. cancelled => setting.beginCtx
    BY FaithfulFacts, SettingFacts
<1>2. pc = "begin" /\ UNCHANGED <<setting, op, pool, cancelled>>
    BY DEF BeginTx
<1>3. PlainPc = "begin"
    BY <1>2 DEF PlainPc, PassesThrough
<1>4. CASE ~setting.beginCtx /\ op = "isolated"
    BY <1>2, <1>3, <1>4, SameAnswer DEF BeginTx, NoCall, Plain!Begin
<1>5. CASE ~(~setting.beginCtx /\ op = "isolated")
    <2>1. PICK out \in Plain!Outcomes :
             /\ Call(IF setting.beginCtx THEN "BeginTx" ELSE "Begin", out)
             /\ Answer(out)
        BY <1>5 DEF BeginTx
    <2>2. /\ Plain!Call(IF setting.beginCtx THEN "BeginTx" ELSE "Begin", out)
          /\ Plain!Answer(out)
        BY <2>1, SameAnswer DEF Call, Plain!Call
    <2> QED
        BY <1>1, <1>2, <1>3, <1>5, <2>2 DEF Plain!Begin
<1> QED
    BY <1>4, <1>5

\* A driver without Pinger: the wrapper answers for it.
LEMMA StepPing == IInv /\ Faithful(setting) /\ Ping => Plain!Ping \/ UNCHANGED Plain!vars
<1> SUFFICES ASSUME IInv, Faithful(setting), Ping PROVE Plain!Ping \/ UNCHANGED Plain!vars
    OBVIOUS
<1>1. pc = "ping" /\ UNCHANGED <<setting, op, pool, cancelled>>
    BY DEF Ping
<1>2. CASE ~setting.pinger
    BY <1>1, <1>2 DEF Ping, NoCall, Answer, Plain!vars, PlainPc, PlainResult, PassesThrough
<1>3. CASE setting.pinger
    <2>1. PlainPc = "ping"
        BY <1>1, <1>3 DEF PlainPc, PassesThrough
    <2>2. PICK out \in Plain!Outcomes : Call("Ping", out) /\ Answer(out)
        BY <1>3 DEF Ping
    <2>3. Plain!Call("Ping", out) /\ Plain!Answer(out)
        BY <2>2, SameAnswer DEF Call, Plain!Call
    <2> QED
        BY <1>1, <2>1, <2>3 DEF Plain!Ping
<1> QED
    BY <1>2, <1>3

-----------------------------------------------------------------------------

LEMMA InitPlain == Init => Plain!Init
BY DEF Init, Plain!Init, PlainPc, PlainResult, PassesThrough

LEMMA StepPlain ==
    IInv /\ Faithful(setting) /\ [Next]_vars => Plain!Next \/ UNCHANGED Plain!vars
<1> SUFFICES ASSUME IInv, Faithful(setting), [Next]_vars PROVE Plain!Next \/ UNCHANGED Plain!vars
    OBVIOUS
<1>1. ASSUME NEW o \in Plain!Operations, Start(o) PROVE Plain!Start(o)
    BY <1>1 DEF Start, Plain!Start, PlainPc, PlainResult, PassesThrough
<1>2. CASE Cancel
    <2>1. Plain!Cancel
        BY <1>2 DEF Cancel, Plain!Cancel, PlainPc, PlainResult, PassesThrough
    <2> QED
        BY <2>1 DEF Plain!Next
<1>3. CASE GiveUp
    <2>1. Plain!GiveUp
        BY <1>3 DEF GiveUp, Plain!GiveUp, PlainPc, PlainResult, PassesThrough
    <2> QED
        BY <2>1 DEF Plain!Next
<1>4. CASE Release
    <2>1. pc = "release" /\ pc' = "idle" /\ UNCHANGED <<setting, op, tries, cancelled, result>>
        BY <1>4 DEF Release
    <2>2. PlainPc = "release" /\ PlainPc' = "idle" /\ PlainResult' = PlainResult
        BY <2>1 DEF PlainPc, PlainResult, PassesThrough
    <2>3. Plain!Release
        BY <1>4, <2>1, <2>2 DEF Release, NoCall, Call, Plain!Release, Plain!Call
    <2> QED
        BY <2>3 DEF Plain!Next
<1>5. CASE UNCHANGED vars
    BY <1>5 DEF vars, Plain!vars, PlainPc, PlainResult, PassesThrough
<1> QED
    BY <1>1, <1>2, <1>3, <1>4, <1>5, StepReuse, StepOpen, StepExecContext,
       StepPrepareContext, StepStmtExecContext, StepBeginTx, StepPing DEF Next, Plain!Next

\* Whatever the driver can do and however often a call is repeated: with a faithful
\* setting the driver gets the calls, in the order, and the application the answers,
\* that it would have had without the wrapper; the wrapped connection then implements
\* database/sql on the driver as it is.
THEOREM PlainPath ==
    Spec => /\ FaithfulTakesThePlainPath
            /\ Faithful(setting) => TakesThePlainPath
<1>1. Init => (Faithful(setting) => Plain!Init)
    BY InitPlain
<1>2. IInv /\ [Next]_vars
      => [Faithful(setting) => Plain!Next \/ UNCHANGED Plain!vars]_vars
    BY StepPlain
<1>3. IInv /\ Faithful(setting) /\ [Next]_vars => [Plain!Next]_(Plain!vars)
    BY StepPlain
<1> QED
    BY <1>1, <1>2, <1>3, Settled, StepFaithful, PTL
       DEF Spec, FaithfulTakesThePlainPath, TakesThePlainPath, Plain!Spec

-----------------------------------------------------------------------------
(* The trail.                                                               *)

Crumb      == [scope : {"flow", "global"}, level : {"info", "error"}, span : BOOLEAN]
DriverCall == [fn  : {"ResetSession", "Open", "ExecContext", "PrepareContext", "Prepare",
                      "StmtExecContext", "StmtExec", "BeginTx", "Begin", "Ping", "IsValid"},
               out : {"ok", "error", "badconn", "skip", "invalid"}]

Successes == {c \in Crumb : c.level = "info"}
Errors    == {c \in Crumb : c.level = "error"}
Failures  == {c \in DriverCall : Ran(c) /\ c.out # "ok"}

\* A statement is run by a call that is one, and nowhere else.
RightPlace ==
    /\ op \in Plain!Operations
    /\ pc \in {"direct", "prepare", "stmt"} => op \in Plain!Statements
    /\ pc = "begin" => op \in Plain!Begins
    /\ pc = "ping" => op = "ping"

\* A statement has been answered without an error.
Succeeded == pc \in {"release", "idle"} /\ result = "ok" /\ op \in Plain!Statements

\* As TrailTellsTheResult, at every moment of a call: there is a breadcrumb of success
\* once a statement has been answered without an error, and one of failure for each
\* failed attempt so far.
Tells ==
    /\ Cardinality(Hits(crumbs, Successes)) = IF Succeeded THEN 1 ELSE 0
    /\ Cardinality(Hits(crumbs, Errors)) = Cardinality(Hits(calls, Failures))

\* A driver that is given the context has its breadcrumbs and spans on that flow.
OnTheFlow == setting.flow # "none" /\ setting.stmtCtx =>
                \A i \in DOMAIN crumbs : /\ crumbs[i].scope = "flow"
                                         /\ crumbs[i].span = (setting.flow = "span")

Trail == /\ crumbs \in Seq(Crumb) /\ calls \in Seq(DriverCall)
         /\ RightPlace /\ Tells /\ OnTheFlow

\* Before the first call nothing was run and nothing recorded.
LEMMA InitTrail == Init => Trail
<1> SUFFICES ASSUME Init PROVE Trail
    OBVIOUS
<1>1. /\ crumbs = <<>> /\ calls = <<>> /\ op = "ping" /\ pc = "idle" /\ result = "none"
    BY DEF Init
<1>2. Hits(<<>>, Successes) = {} /\ Hits(<<>>, Errors) = {} /\ Hits(<<>>, Failures) = {}
    BY DEF Hits
<1>3. Tells
    BY <1>1, <1>2, FS_EmptySet DEF Tells, Succeeded
<1>4. RightPlace
    BY <1>1 DEF RightPlace, Plain!Operations
<1>5. OnTheFlow
    BY <1>1 DEF OnTheFlow
<1>6. crumbs \in Seq(Crumb) /\ calls \in Seq(DriverCall)
    BY <1>1
<1> QED
    BY <1>3, <1>4, <1>5, <1>6 DEF Trail

\* The driver is not called, or runs no statement when it is.
Unheard == \/ calls' = calls
           \/ \E call \in DriverCall : ~Ran(call) /\ calls' = Append(calls, call)

\* Every call but one that runs a statement is of that kind.
LEMMA CallUnheard ==
    ASSUME NEW fn, NEW out, Call(fn, out), [fn |-> fn, out |-> out] \in DriverCall,
           fn \notin {"ExecContext", "StmtExecContext", "StmtExec"} \/ out = "skip"
    PROVE  Unheard
<1> DEFINE call == [fn |-> fn, out |-> out]
<1>1. call \in DriverCall /\ call.fn = fn /\ call.out = out
    OBVIOUS
<1>2. ~Ran(call)
    BY <1>1 DEF Ran
<1>3. calls' = Append(calls, call)
    BY DEF Call
<1> HIDE DEF call
<1> QED
    BY <1>1, <1>2, <1>3 DEF Unheard

\* A call of the driver that runs no statement leaves no breadcrumb.
LEMMA Silent ==
    ASSUME Trail, UNCHANGED <<setting, crumbs>>, RightPlace',
           Unheard, Succeeded' = Succeeded
    PROVE  Trail'
<1> USE DEF Trail, Unheard
<1>1. calls' \in Seq(DriverCall)
    OBVIOUS
<1>2. Cardinality(Hits(calls', Failures)) = Cardinality(Hits(calls, Failures))
    <2>1. ASSUME NEW call \in DriverCall, ~Ran(call), calls' = Append(calls, call)
          PROVE  Cardinality(Hits(calls', Failures)) = Cardinality(Hits(calls, Failures))
        <3>1. call \notin Failures
            BY <2>1 DEF Failures
        <3>2. /\ Cardinality(Hits(calls, Failures)) \in Nat
              /\ Cardinality(Hits(calls', Failures)) = Cardinality(Hits(calls, Failures)) + 0
            BY <2>1, <3>1, HitsAppend
        <3>3. \A n \in Nat : n + 0 = n
            OBVIOUS
        <3> QED
            BY <3>2, <3>3
    <2> QED
        BY <2>1
<1>3. Tells'
    BY <1>2 DEF Tells
<1>4. OnTheFlow'
    BY DEF OnTheFlow
<1> QED
    BY <1>1, <1>3, <1>4

\* A statement that was run leaves a breadcrumb of its outcome, and its call fails
\* when that does.
LEMMA Recorded ==
    ASSUME IInv, Trail, op \in Plain!Statements, pc \notin {"release", "idle"}, op' = op,
           UNCHANGED setting, NEW given, given = TRUE \/ given = setting.stmtCtx,
           NEW fn \in {"ExecContext", "StmtExecContext", "StmtExec"},
           NEW out \in Plain!Outcomes, Call(fn, out), recordQuery(given, out), Answer(out)
    PROVE  Trail'
<1> DEFINE call == [fn |-> fn, out |-> out]
           crumb == [scope |-> IF given /\ setting.flow # "none" THEN "flow" ELSE "global",
                     level |-> IF out = "ok" THEN "info" ELSE "error",
                     span  |-> given /\ setting.flow = "span"]
<1>1. calls' = Append(calls, call) /\ crumbs' = Append(crumbs, crumb)
    BY DEF Call, recordQuery, Plain!Outcomes
<1>2. given \in BOOLEAN
    BY SettingFacts
<1>3. call \in DriverCall /\ (call \in Failures <=> out # "ok")
    <2>1. call.fn = fn /\ call.out = out
        OBVIOUS
    <2>2. out # "skip"
        BY DEF Plain!Outcomes
    <2>3. call \in DriverCall
        BY DEF DriverCall, Plain!Outcomes
    <2> HIDE DEF call
    <2>4. Ran(call)
        BY <2>1, <2>2 DEF Ran
    <2> QED
        BY <2>1, <2>3, <2>4 DEF Failures
<1>4. /\ crumb \in Crumb
      /\ (crumb \in Successes <=> out = "ok") /\ (crumb \in Errors <=> out # "ok")
      /\ crumb.span = (given /\ setting.flow = "span")
      /\ crumb.scope = IF given /\ setting.flow # "none" THEN "flow" ELSE "global"
    BY <1>2 DEF Crumb, Successes, Errors
<1> HIDE DEF call, crumb
<1>5. /\ pc' \in {"release", "idle"} /\ result' = "ok" <=> out = "ok"
      /\ pc' \in {"release", "idle", "conn"}
    BY DEF Answer, Plain!Outcomes
<1>6. crumbs \in Seq(Crumb) /\ calls \in Seq(DriverCall)
    BY DEF Trail
<1>7. crumbs' \in Seq(Crumb) /\ calls' \in Seq(DriverCall)
    BY <1>1, <1>3, <1>4, <1>6
<1>8. RightPlace'
    BY <1>5 DEF Trail, RightPlace
<1>9. Tells'
    <2>1. /\ Cardinality(Hits(crumbs, Successes)) \in Nat
          /\ Cardinality(Hits(crumbs', Successes))
                = Cardinality(Hits(crumbs, Successes)) + IF crumb \in Successes THEN 1 ELSE 0
        BY <1>1, <1>4, <1>6, HitsAppend
    <2>2. /\ Cardinality(Hits(crumbs, Errors)) \in Nat
          /\ Cardinality(Hits(crumbs', Errors))
                = Cardinality(Hits(crumbs, Errors)) + IF crumb \in Errors THEN 1 ELSE 0
        BY <1>1, <1>4, <1>6, HitsAppend
    <2>3. Cardinality(Hits(calls', Failures))
                = Cardinality(Hits(calls, Failures)) + IF call \in Failures THEN 1 ELSE 0
        BY <1>1, <1>3, <1>6, HitsAppend
    <2>4. /\ Cardinality(Hits(crumbs, Successes)) = 0
          /\ Cardinality(Hits(crumbs, Errors)) = Cardinality(Hits(calls, Failures))
        BY DEF Trail, Tells, Succeeded
    <2>5. Cardinality(Hits(crumbs', Successes)) = IF out = "ok" THEN 1 ELSE 0
        BY <1>4, <2>1, <2>4
    <2>6. Cardinality(Hits(crumbs', Errors)) = Cardinality(Hits(calls', Failures))
        BY <1>3, <1>4, <2>2, <2>3, <2>4
    <2> QED
        BY <1>5, <2>5, <2>6 DEF Tells, Succeeded
<1>10. OnTheFlow'
    <2> SUFFICES ASSUME setting.flow # "none", setting.stmtCtx, NEW i \in DOMAIN crumbs'
                 PROVE  crumbs'[i].scope = "flow" /\ crumbs'[i].span = (setting.flow = "span")
        BY DEF OnTheFlow
    <2>1. given /\ crumb.scope = "flow" /\ crumb.span = (setting.flow = "span")
        BY <1>4
    <2>2. crumbs'[i] = crumb \/ (i \in DOMAIN crumbs /\ crumbs'[i] = crumbs[i])
        BY <1>1, <1>6
    <2> QED
        BY <2>1, <2>2 DEF Trail, OnTheFlow
<1> QED
    BY <1>7, <1>8, <1>9, <1>10 DEF Trail

\* Every step keeps the trail.
LEMMA StepTrail == IInv /\ Trail /\ [Next]_vars => Trail'
<1> SUFFICES ASSUME IInv, Trail, [Next]_vars PROVE Trail'
    OBVIOUS
<1> USE DEF RightPlace, NoCall, GoTo
<1>0. RightPlace
    BY DEF Trail
<1>1. ASSUME NEW o \in Plain!Operations, Start(o) PROVE Trail'
    <2>1. /\ crumbs' = <<>> /\ calls' = <<>> /\ op' \in Plain!Operations /\ pc' = "conn"
        BY <1>1 DEF Start
    <2>2. Hits(<<>>, Successes) = {} /\ Hits(<<>>, Errors) = {} /\ Hits(<<>>, Failures) = {}
        BY DEF Hits
    <2>3. Tells'
        BY <2>1, <2>2, FS_EmptySet DEF Tells, Succeeded
    <2>4. RightPlace' /\ OnTheFlow'
        BY <2>1 DEF OnTheFlow
    <2> QED
        BY <2>1, <2>3, <2>4 DEF Trail
<1>2. CASE Cancel \/ GiveUp
    <2>1. RightPlace' /\ Unheard /\ UNCHANGED <<setting, crumbs>>
        BY <1>0, <1>2 DEF Cancel, GiveUp, Unheard
    <2>2. Succeeded' = Succeeded
        BY <1>2 DEF Cancel, GiveUp, Succeeded
    <2> QED
        BY <2>1, <2>2, Silent
<1>3. CASE Reuse \/ Open
    <2>0. ASSUME NEW fn \in {"ResetSession", "Open"}, NEW out \in Plain!Outcomes, Call(fn, out)
          PROVE  Unheard
        BY <2>0, CallUnheard DEF DriverCall, Plain!Outcomes
    <2>1. Unheard /\ UNCHANGED <<setting, crumbs, op>> /\ pc = "conn"
        BY <1>3, <2>0 DEF Reuse, Reuses, Open, Unheard
    <2>2. \/ pc' = First
          \/ pc' = "idle" /\ result' = "error"
          \/ Answer("badconn")
        BY <1>3 DEF Reuse, Open, Plain!Outcomes
    <2>3. RightPlace' /\ Succeeded' = Succeeded
        BY <1>0, <2>1, <2>2 DEF First, Answer, Succeeded,
            Plain!Operations, Plain!Statements, Plain!Begins
    <2> QED
        BY <2>1, <2>3, Silent
<1>4. CASE ExecContext
    <2>1. pc = "direct" /\ op' = op /\ UNCHANGED setting
        BY <1>4 DEF ExecContext
    <2>2. CASE UNCHANGED <<crumbs, calls>> /\ (Answer("error") \/ GoTo("prepare"))
        <3>1. RightPlace' /\ Succeeded' = Succeeded
            BY <1>0, <2>1, <2>2 DEF Answer, Succeeded
        <3> QED
            BY <2>1, <2>2, <3>1, Silent DEF Unheard
    <2>3. CASE Call("ExecContext", "skip") /\ recordQuery(TRUE, "skip") /\ GoTo("prepare")
        <3>1. RightPlace' /\ Succeeded' = Succeeded
            BY <1>0, <2>1, <2>3 DEF Succeeded
        <3>2. Unheard
            BY <2>3, CallUnheard DEF DriverCall
        <3> QED
            BY <2>1, <2>3, <3>1, <3>2, Silent DEF recordQuery
    <2>4. ASSUME NEW out \in Plain!Outcomes,
                 Call("ExecContext", out), recordQuery(TRUE, out), Answer(out)
          PROVE  Trail'
        BY <1>0, <2>1, <2>4, Recorded
    <2> QED
        BY <1>4, <2>2, <2>3, <2>4 DEF ExecContext, Plain!Outcomes
<1>5. CASE StmtExecContext
    <2>1. pc = "stmt" /\ op' = op /\ UNCHANGED setting
        BY <1>5 DEF StmtExecContext
    <2>2. CASE UNCHANGED <<crumbs, calls>> /\ Answer("error")
        <3>1. RightPlace' /\ Succeeded' = Succeeded
            BY <1>0, <2>1, <2>2 DEF Answer, Succeeded
        <3> QED
            BY <2>1, <2>2, <3>1, Silent DEF Unheard
    <2>3. ASSUME NEW out \in Plain!Outcomes, NEW fn \in {"StmtExecContext", "StmtExec"},
                 Call(fn, out), recordQuery(setting.stmtCtx, out), Answer(out)
          PROVE  Trail'
        BY <1>0, <2>1, <2>3, Recorded
    <2> QED
        BY <1>5, <2>2, <2>3 DEF StmtExecContext
<1>6. CASE PrepareContext \/ BeginTx \/ Ping
    <2>0. ASSUME NEW fn \in {"PrepareContext", "Prepare", "BeginTx", "Begin", "Ping"},
                 NEW out \in Plain!Outcomes, Call(fn, out)
          PROVE  Unheard
        BY <2>0, CallUnheard DEF DriverCall, Plain!Outcomes
    <2>1. Unheard /\ UNCHANGED <<setting, crumbs, op>> /\ pc \in {"prepare", "begin", "ping"}
        BY <1>6, <2>0 DEF PrepareContext, BeginTx, Ping, Unheard
    <2>2. \/ pc = "prepare" /\ (GoTo("stmt") \/ Answer("error") \/ Answer("badconn"))
          \/ pc # "prepare" /\ (Answer("ok") \/ Answer("error") \/ Answer("badconn"))
        BY <1>6 DEF PrepareContext, BeginTx, Ping, Plain!Outcomes
    <2>3. RightPlace'
        BY <1>0, <2>1, <2>2 DEF Answer
    <2>4. Succeeded' = Succeeded
        BY <1>0, <2>1, <2>2 DEF Answer, Succeeded, Plain!Statements, Plain!Begins
    <2> QED
        BY <2>1, <2>3, <2>4, Silent
<1>7. CASE Release
    <2>0. ASSUME NEW out \in {"ok", "invalid"}, Call("IsValid", out) PROVE Unheard
        BY <2>0, CallUnheard DEF DriverCall
    <2>1. Unheard /\ UNCHANGED <<setting, crumbs>>
        BY <1>7, <2>0 DEF Release, Unheard
    <2>2. RightPlace' /\ Succeeded' = Succeeded
        BY <1>0, <1>7 DEF Release, Succeeded
    <2> QED
        BY <2>1, <2>2, Silent
<1>8. CASE UNCHANGED vars
    BY <1>8 DEF vars, Trail, Tells, OnTheFlow, Succeeded
<1> QED
    BY <1>1, <1>2, <1>3, <1>4, <1>5, <1>6, <1>7, <1>8 DEF Next

\* The trail tells what the application was told, for every set of faithful settings
\* and any number of retries.
THEOREM TrailTells == Spec => []TrailTellsTheResult
<1>1. Init => Trail
    BY InitTrail
<1>2. IInv /\ Trail /\ [Next]_vars => Trail'
    BY StepTrail
<1>3. Trail => TrailTellsTheResult
    <2> SUFFICES ASSUME Trail, pc = "idle", result # "none" PROVE TrailTellsTheResult
        BY DEF TrailTellsTheResult
    <2>1. DOMAIN crumbs = 1..Len(crumbs) /\ DOMAIN calls = 1..Len(calls)
        BY DEF Trail
    <2>2. /\ {i \in DOMAIN crumbs : crumbs[i].level = "info"} = Hits(crumbs, Successes)
          /\ {i \in DOMAIN crumbs : crumbs[i].level = "error"} = Hits(crumbs, Errors)
        BY <2>1 DEF Trail, Hits, Successes, Errors
    <2>3. {i \in DOMAIN calls : Ran(calls[i]) /\ calls[i].out # "ok"} = Hits(calls, Failures)
        BY <2>1 DEF Trail, Hits, Failures
    <2> QED
        BY <2>2, <2>3 DEF Trail, Tells, OnTheFlow, Succeeded, TrailTellsTheResult, Count
<1> QED
    BY <1>1, <1>2, <1>3, Settled, PTL DEF Spec

-----------------------------------------------------------------------------
(* Scopes: the chain of one.                                                *)

\* One scope further up, unless the chain has reached the global one.
Up(par, x) == IF x[Len(x)] = Global THEN x ELSE Append(x, par[x[Len(x)]])

\* Scope's Chain with the parents as an argument: the scopes met after 0..n steps up.
Climbs(par, s, n, up) == up = [i \in 0..n |-> IF i = 0 THEN <<s>> ELSE Up(par, up[i - 1])]
Climb(par, s, n) == CHOOSE up : Climbs(par, s, n, up)
ChainOf(par, s) == Climb(par, s, Cardinality(Scopes))[Cardinality(Scopes)]

LEMMA ChainIs == ASSUME NEW s PROVE Chain(s) = ChainOf(parent, s)
<1> DEFINE N == Cardinality(Scopes)
<1>1. Chain(s) = Climb(parent, s, N)[N]
    BY DEF Chain, Climb, Climbs, Up
<1> QED
    BY <1>1 DEF ChainOf, N

\* There is such a function for any number of steps.
LEMMA ClimbExists ==
    ASSUME NEW par, NEW s, NEW N \in Nat
    PROVE  Climbs(par, s, N, Climb(par, s, N))
<1> DEFINE Bad == {n \in Nat : ~\E up : Climbs(par, s, n, up)}
<1>1. ASSUME Bad # {} PROVE FALSE
    <2>1. PICK n \in Bad : \A m \in Bad : n <= m
        <3>1. Bad \subseteq Nat
            OBVIOUS
        <3> HIDE DEF Bad
        <3> QED BY <1>1, <3>1, SmallestNumber
    <2>2. n # 0
        <3>1. \A u : u = [i \in 0..0 |-> <<s>>] =>
                 [i \in 0..0 |-> IF i = 0 THEN <<s>> ELSE Up(par, u[i - 1])] = u
            OBVIOUS
        <3>2. Climbs(par, s, 0, [i \in 0..0 |-> <<s>>])
            BY <3>1 DEF Climbs
        <3> QED
            BY <3>2
    <2>3. n \in Nat /\ n - 1 \in Nat /\ n - 1 \notin Bad
        <3>1. n \in Nat
            BY <2>1
        <3> HIDE DEF Bad
        <3> QED BY <2>1, <2>2, <3>1
    <2>4. PICK u : Climbs(par, s, n - 1, u)
        BY <2>3
    <2> HIDE DEF Bad
    <2>5. \A i \in 0..(n - 1) : u[i] = IF i = 0 THEN <<s>> ELSE Up(par, u[i - 1])
        BY <2>4 DEF Climbs
    <2> DEFINE v == [i \in 0..n |-> IF i = n THEN Up(par, u[n - 1]) ELSE u[i]]
    <2>6. \A i \in 0..(n - 1) : v[i] = u[i]
        BY <2>3
    <2>7. v[n] = Up(par, u[n - 1])
        BY <2>3
    <2>8. DOMAIN v = 0..n /\ v = [i \in 0..n |-> v[i]]
        OBVIOUS
    <2> HIDE DEF v
    <2>9. ASSUME NEW i \in 0..n PROVE v[i] = IF i = 0 THEN <<s>> ELSE Up(par, v[i - 1])
        <3>1. CASE i = n
            <4>1. i # 0 /\ i - 1 = n - 1 /\ n - 1 \in 0..(n - 1)
                BY <2>2, <2>3, <3>1
            <4> QED BY <2>6, <2>7, <3>1, <4>1
        <3>2. CASE i # n
            <4>1. i \in 0..(n - 1) /\ (i # 0 => i - 1 \in 0..(n - 1))
                BY <2>3, <3>2
            <4> QED BY <2>5, <2>6, <4>1
        <3> QED
            BY <3>1, <3>2
    <2>10. Climbs(par, s, n, v)
        BY <2>8, <2>9 DEF Climbs
    <2> QED
        BY <2>1, <2>10 DEF Bad
<1>2. \E up : Climbs(par, s, N, up)
    BY <1>1
<1> QED
    BY <1>2 DEF Climb

\* The scopes L know their parents, and each was made later than its own: rank tells.
\* Every scope of L but the global one has its parent in L, at a lower rank.
Lineage(par, L, rank) ==
    \A s \in L \ {Global} : par[s] \in L /\ rank[par[s]] < rank[s]

\* x climbs from s, always to a lower rank, and stops where it meets the global scope.
Linked(L, rank, s, x) ==
    /\ x \in Seq(L) /\ Len(x) >= 1 /\ x[1] = s
    /\ \A k \in 1..(Len(x) - 1) : x[k] # Global
    /\ \A j, k \in 1..Len(x) : j < k => rank[x[k]] < rank[x[j]]

LEMMA UpLinked ==
    ASSUME NEW par, NEW L, NEW rank, \A s \in L : rank[s] \in Nat, Lineage(par, L, rank),
           NEW s, NEW x, Linked(L, rank, s, x)
    PROVE  Linked(L, rank, s, Up(par, x)) /\ x[Len(x)] \in L
<1> DEFINE last == x[Len(x)]
<1>1. /\ x \in Seq(L) /\ Len(x) \in Nat /\ Len(x) >= 1 /\ x[1] = s /\ last \in L
      /\ \A k \in 1..(Len(x) - 1) : x[k] # Global
      /\ \A j, k \in 1..Len(x) : j < k => rank[x[k]] < rank[x[j]]
      /\ \A k \in 1..Len(x) : x[k] \in L
    BY DEF Linked
<1>2. CASE last = Global
    BY <1>1, <1>2 DEF Up
<1>3. CASE last # Global
    <2> DEFINE p == par[last]
               y == Append(x, p)
    <2>1. p \in L /\ rank[p] < rank[last]
        BY <1>1, <1>3 DEF Lineage
    <2> HIDE DEF p, last
    <2>2. /\ y \in Seq(L) /\ Len(y) = Len(x) + 1 /\ y[Len(x) + 1] = p
          /\ \A k \in 1..Len(x) : y[k] = x[k]
        BY <1>1, <2>1
    <2> HIDE DEF y
    <2>3. y[1] = s /\ Len(y) >= 1
        BY <1>1, <2>2
    <2>4. \A k \in 1..(Len(y) - 1) : y[k] # Global
        <3>1. \A k \in 1..(Len(y) - 1) : k \in 1..Len(x) /\ (k = Len(x) \/ k \in 1..(Len(x) - 1))
            BY <1>1, <2>2
        <3> QED
            BY <1>1, <1>3, <2>2, <3>1 DEF last
    <2>5. ASSUME NEW j \in 1..Len(y), NEW k \in 1..Len(y), j < k
          PROVE  rank[y[k]] < rank[y[j]]
        <3>1. j \in 1..Len(x)
            BY <1>1, <2>2, <2>5
        <3>2. CASE k \in 1..Len(x)
            BY <1>1, <2>2, <2>5, <3>1, <3>2
        <3>3. CASE k = Len(x) + 1
            <4>1. j = Len(x) \/ rank[last] < rank[x[j]]
                BY <1>1, <3>1 DEF last
            <4>2. rank[p] \in Nat /\ rank[last] \in Nat /\ rank[x[j]] \in Nat
                BY <1>1, <2>1, <3>1
            <4>3. j = Len(x) => x[j] = last
                BY DEF last
            <4>4. rank[p] < rank[x[j]]
                BY <2>1, <4>1, <4>2, <4>3
            <4> QED
                BY <2>2, <3>1, <3>3, <4>4
        <3> QED
            BY <1>1, <2>2, <3>2, <3>3
    <2>6. Up(par, x) = y
        BY <1>3 DEF Up, y, p, last
    <2> QED
        BY <1>1, <2>2, <2>3, <2>4, <2>5, <2>6 DEF Linked, last
<1> QED
    BY <1>2, <1>3

\* A chain leads from scope to scope, each older than the one before and the global one
\* only at the end; it depends on the parents of its scopes alone.
LEMMA ChainFacts ==
    ASSUME IsFiniteSet(Scopes), NEW par, NEW L, NEW rank, \A s \in L : rank[s] \in Nat,
           Lineage(par, L, rank), NEW s \in L,
           NEW other, \A t \in L : other[t] = par[t]
    PROVE  Linked(L, rank, s, ChainOf(par, s)) /\ ChainOf(other, s) = ChainOf(par, s)
<1> DEFINE N == Cardinality(Scopes)
           u == Climb(par, s, N)
           v == Climb(other, s, N)
           Fine(i) == Linked(L, rank, s, u[i]) /\ v[i] = u[i]
           Bad == {i \in 0..N : ~Fine(i)}
<1>1. N \in Nat
    BY FS_CardinalityType
<1>2. Climbs(par, s, N, u) /\ Climbs(other, s, N, v)
    BY <1>1, ClimbExists
<1>3. ChainOf(par, s) = u[N] /\ ChainOf(other, s) = v[N]
    BY DEF ChainOf
<1> HIDE DEF N, u, v
<1>4. \A i \in 0..N : /\ u[i] = IF i = 0 THEN <<s>> ELSE Up(par, u[i - 1])
                      /\ v[i] = IF i = 0 THEN <<s>> ELSE Up(other, v[i - 1])
    BY <1>2 DEF Climbs
<1>5. ASSUME Bad # {} PROVE FALSE
    <2>1. PICK i \in Bad : \A m \in Bad : i <= m
        <3>1. Bad \subseteq Nat
            BY <1>1
        <3> HIDE DEF Bad
        <3> QED BY <1>5, <3>1, SmallestNumber
    <2>2. i \in 0..N /\ ~Fine(i)
        BY <2>1
    <2>3. i # 0
        <3>1. ASSUME i = 0 PROVE Fine(i)
            <4>1. u[i] = <<s>> /\ v[i] = <<s>>
                BY <1>4, <2>2, <3>1
            <4>2. Linked(L, rank, s, <<s>>)
                BY DEF Linked
            <4> QED
                BY <4>1, <4>2
        <3> QED
            BY <2>2, <3>1
    <2>4. i - 1 \in 0..N /\ Fine(i - 1)
        <3>1. i - 1 \in 0..N /\ i - 1 < i
            BY <1>1, <2>2, <2>3
        <3>2. i - 1 \notin Bad
            <4> HIDE DEF Bad
            <4> QED BY <1>1, <2>1, <2>2, <3>1
        <3> QED
            BY <3>1, <3>2
    <2>5. Linked(L, rank, s, Up(par, u[i - 1])) /\ Up(other, v[i - 1]) = Up(par, u[i - 1])
        <3>1. Linked(L, rank, s, u[i - 1]) /\ v[i - 1] = u[i - 1]
            BY <2>4
        <3>2. Linked(L, rank, s, Up(par, u[i - 1])) /\ u[i - 1][Len(u[i - 1])] \in L
            BY <3>1, UpLinked
        <3> QED
            BY <3>1, <3>2 DEF Up
    <2>6. Fine(i)
        BY <1>4, <2>2, <2>3, <2>5
    <2> QED
        BY <2>2, <2>6
<1>6. N \in 0..N /\ N \notin Bad
    <2> HIDE DEF Bad
    <2> QED BY <1>1, <1>5
<1>7. Fine(N)
    BY <1>6
<1> QED
    BY <1>3, <1>7

\* What is left of it for the breadcrumbs: no scope twice, and the global one only for
\* its own events.
LEMMA InheritedFacts ==
    ASSUME NEW L, NEW rank, \A t \in L : rank[t] \in Nat, NEW s, NEW x, Linked(L, rank, s, x)
    PROVE  /\ Inherited(x) \in Seq(L) /\ Injective(Inherited(x))
           /\ Elements(Inherited(x)) \subseteq Elements(x)
           /\ Global \in Elements(Inherited(x)) => s = Global
<1> DEFINE y == Inherited(x)
<1>1. /\ x \in Seq(L) /\ Len(x) \in Nat /\ Len(x) >= 1 /\ x[1] = s
      /\ \A k \in 1..(Len(x) - 1) : x[k] # Global
      /\ \A j, k \in 1..Len(x) : j < k => rank[x[k]] < rank[x[j]]
      /\ \A k \in 1..Len(x) : x[k] \in L
    BY DEF Linked
<1>2. /\ y \in Seq(L) /\ Len(y) <= Len(x) /\ Len(y) \in Nat
      /\ \A k \in 1..Len(y) : y[k] = x[k]
      /\ Len(x) = 1 \/ Len(y) = Len(x) - 1
    <2>1. CASE Len(x) = 1
        <3>1. y = x
            BY <2>1 DEF Inherited
        <3> HIDE DEF y
        <3> QED BY <1>1, <2>1, <3>1
    <2>2. CASE Len(x) # 1
        <3>1. y = SubSeq(x, 1, Len(x) - 1)
            BY <2>2 DEF Inherited, Front
        <3> HIDE DEF y
        <3> DEFINE n == Len(x) - 1
        <3>2. n \in Nat /\ 1 <= n /\ n <= Len(x) /\ n # 0
            <4>1. \A m \in Nat : m >= 1 /\ m # 1 =>
                      m - 1 \in Nat /\ 1 <= m - 1 /\ m - 1 <= m /\ m - 1 # 0
                OBVIOUS
            <4>2. Len(x) \in Nat /\ Len(x) >= 1 /\ Len(x) # 1
                BY <1>1, <2>2
            <4> QED BY <4>1, <4>2
        <3>3. \A k \in 1..n : k \in 1..Len(x)
            BY <1>1, <3>2
        <3>4. \A k \in 1..n : x[k] \in L
            <4> HIDE DEF n
            <4> QED BY <1>1, <3>3
        <3> HIDE DEF n
        <3>5. y \in Seq(L) /\ Len(y) = n - 1 + 1 /\ \A k \in 1..(n - 1 + 1) : y[k] = x[1 + k - 1]
            <4>1. y = SubSeq(x, 1, n)
                BY <3>1 DEF n
            <4>2. 1 \in Int /\ n \in Int
                BY <3>2
            <4> QED
                BY <3>2, <3>4, <4>1, <4>2, SubSeqProperties
        <3>6. n - 1 + 1 = n /\ \A k \in 1..n : 1 + k - 1 = k
            BY <3>2
        <3>7. Len(y) = n /\ \A k \in 1..n : y[k] = x[k]
            BY <3>5, <3>6
        <3>8. n = Len(x) - 1
            BY DEF n
        <3> QED
            BY <3>2, <3>5, <3>7, <3>8
    <2> QED
        BY <2>1, <2>2
<1> HIDE DEF y
<1>3. Injective(y)
    <2> SUFFICES ASSUME NEW i \in 1..Len(y), NEW j \in 1..Len(y), y[i] = y[j], i # j
                 PROVE  FALSE
        BY DEF Injective
    <2>1. i \in 1..Len(x) /\ j \in 1..Len(x) /\ x[i] = x[j] /\ (i < j \/ j < i)
        BY <1>1, <1>2
    <2> QED
        BY <1>1, <2>1
<1>4. Elements(y) \subseteq Elements(x)
    BY <1>1, <1>2 DEF Elements
<1>5. ASSUME Global \in Elements(y) PROVE s = Global
    <2>1. PICK k \in 1..Len(y) : y[k] = Global
        BY <1>5 DEF Elements
    <2>2. CASE Len(x) = 1
        BY <1>1, <1>2, <2>1, <2>2
    <2>3. CASE Len(y) = Len(x) - 1
        BY <1>1, <1>2, <2>1, <2>3
    <2> QED
        BY <1>2, <2>2, <2>3
<1> QED
    BY <1>2, <1>3, <1>4, <1>5 DEF y

-----------------------------------------------------------------------------
(* Steps by time.                                                           *)

\* The order of the breadcrumbs of a list: the newest first, and as they are where the times
\* are the same.
Before(list, i, j) == \/ at[list[i]] > at[list[j]]
                      \/ at[list[i]] = at[list[j]] /\ i < j

\* q has the places T of the list, in that order.
Sorts(list, T, q) ==
    /\ q \in Seq(T) /\ Elements(q) = T /\ Len(q) = Cardinality(T)
    /\ \A i, j \in 1..Len(q) : i < j => Before(list, q[i], q[j])

Times == at \in [Crumbs -> 0..MaxTime] /\ MaxTime \in Nat

\* One place comes before all others.
LEMMA FirstPlace ==
    ASSUME Times, NEW list \in Seq(Crumbs), NEW T, T \subseteq 1..Len(list), T # {}
    PROVE  \E m \in T : \A k \in T \ {m} : Before(list, m, k)
<1> DEFINE ages == {at[list[k]] : k \in T}
<1>1. /\ Len(list) \in Nat /\ MaxTime \in Nat
      /\ \A k \in T : k \in Nat /\ at[list[k]] \in 0..MaxTime
    BY DEF Times
<1>2. ages \subseteq 0..MaxTime /\ ages # {}
    BY <1>1
<1>3. PICK t \in ages : \A r \in ages : r <= t
    <2> HIDE DEF ages
    <2> QED BY <1>1, <1>2, LargestNumber
<1> DEFINE N == {k \in T : at[list[k]] = t}
<1>4. N \subseteq Nat /\ N # {}
    BY <1>1, <1>3
<1>5. PICK m \in N : \A k \in N : m <= k
    <2> HIDE DEF N
    <2> QED BY <1>4, SmallestNumber
<1>6. m \in T /\ at[list[m]] = t /\ t \in 0..MaxTime
    BY <1>1, <1>5
<1>7. ASSUME NEW k \in T \ {m} PROVE Before(list, m, k)
    <2>1. at[list[k]] <= t /\ at[list[k]] \in 0..MaxTime /\ k \in Nat /\ m \in Nat /\ k # m
        BY <1>1, <1>3, <1>6
    <2>2. at[list[k]] = t => m <= k
        BY <1>5
    <2> QED
        BY <1>6, <2>1, <2>2 DEF Before
<1> QED
    BY <1>6, <1>7

\* So every set of places can be sorted: a smallest that cannot loses its first.
LEMMA SortExists ==
    ASSUME Times, NEW list \in Seq(Crumbs)
    PROVE  \E q : Sorts(list, 1..Len(list), q)
<1> DEFINE D == 1..Len(list)
           Bad == {T \in SUBSET D : ~\E q : Sorts(list, T, q)}
<1>1. Len(list) \in Nat /\ IsFiniteSet(D)
    <2>1. Len(list) \in Nat /\ 1 \in Int /\ Len(list) \in Int
        OBVIOUS
    <2> QED
        BY <2>1, FS_Interval
<1>2. ASSUME Bad # {} PROVE FALSE
    <2>1. PICK T \in Bad : \A R \in Bad : R \subseteq T => R = T
        <3>1. Bad \subseteq SUBSET D
            OBVIOUS
        <3> HIDE DEF Bad, D
        <3> QED BY <1>1, <1>2, <3>1, SmallestSubset
    <2>2. T \in SUBSET D /\ IsFiniteSet(T) /\ Cardinality(T) \in Nat
        <3>1. T \in SUBSET D
            BY <2>1
        <3> HIDE DEF D, Bad
        <3> QED BY <1>1, <3>1, FS_Subset, FS_CardinalityType
    <2>3. T # {}
        <3>1. Sorts(list, {}, <<>>)
            <4>1. Elements(<<>>) = {}
                BY DEF Elements
            <4> QED
                BY <4>1, FS_EmptySet DEF Sorts
        <3> QED
            BY <2>1, <3>1
    <2>4. PICK m \in T : \A k \in T \ {m} : Before(list, m, k)
        BY <2>2, <2>3, FirstPlace
    <2> DEFINE R == T \ {m}
    <2>5. R \in SUBSET D /\ R \subseteq T /\ R # T
        BY <2>2, <2>4
    <2>6. R \notin Bad
        <3> HIDE DEF Bad, R
        <3> QED BY <2>1, <2>5
    <2>7. PICK q : Sorts(list, R, q)
        BY <2>5, <2>6
    <2>8. Cardinality(R) = Cardinality(T) - 1
        BY <2>2, <2>4, FS_RemoveElement
    <2> HIDE DEF R, D, Bad
    <2>9. /\ q \in Seq(R) /\ Elements(q) = R /\ Len(q) = Cardinality(T) - 1
          /\ \A i, j \in 1..Len(q) : i < j => Before(list, q[i], q[j])
        BY <2>7, <2>8 DEF Sorts
    <2> DEFINE p == <<m>> \o q
    <2>10. /\ q \in Seq(T) /\ Len(q) \in Nat
           /\ p \in Seq(T) /\ Len(p) = Len(q) + 1 /\ p[1] = m
           /\ \A i \in 1..Len(q) : p[i + 1] = q[i]
        BY <2>4, <2>5, <2>9
    <2>11. Elements(p) = Elements(q) \cup {m}
        BY <2>4, <2>10, HeldFirst
    <2> HIDE DEF p
    <2>12. ASSUME NEW i \in 1..Len(p), NEW j \in 1..Len(p), i < j
           PROVE  Before(list, p[i], p[j])
        <3>1. j - 1 \in 1..Len(q) /\ p[j] = q[j - 1]
            <4>1. j - 1 \in 1..Len(q) /\ (j - 1) + 1 = j
                BY <2>10, <2>12
            <4> QED BY <2>10, <4>1
        <3>2. CASE i = 1
            <4>1. q[j - 1] \in R
                BY <2>9, <3>1 DEF Elements
            <4> QED
                BY <2>4, <2>10, <3>1, <3>2, <4>1 DEF R
        <3>3. CASE i # 1
            <4>1. i - 1 \in 1..Len(q) /\ (i - 1) + 1 = i /\ i - 1 < j - 1
                BY <2>10, <2>12, <3>3
            <4> QED
                BY <2>9, <2>10, <3>1, <4>1
        <3> QED
            BY <3>2, <3>3
    <2>13. Elements(p) = T
        BY <2>4, <2>9, <2>11 DEF R
    <2>14. Len(p) = Cardinality(T)
        BY <2>2, <2>9, <2>10
    <2>15. Sorts(list, T, p)
        BY <2>10, <2>12, <2>13, <2>14 DEF Sorts
    <2> QED
        BY <2>1, <2>15 DEF Bad
<1>3. D \notin Bad
    BY <1>2
<1> QED
    BY <1>3

\* NewestFirst has the breadcrumbs of the list, by time.
LEMMA NewestFirstFacts ==
    ASSUME Times, NEW list \in Seq(Crumbs), Injective(list)
    PROVE  LET new == NewestFirst(list)
           IN  /\ new \in Seq(Crumbs) /\ Len(new) = Len(list) /\ Injective(new)
               /\ Elements(new) = Elements(list)
               /\ \A i, j \in 1..Len(new) : i < j => at[new[i]] >= at[new[j]]
<1> DEFINE D == 1..Len(list)
           Order(p) == \A i, j \in D : i < j => Before(list, p[i], p[j])
           order == CHOOSE p \in Bijection(D, D) : Order(p)
           new == NewestFirst(list)
<1>1. Len(list) \in Nat /\ DOMAIN list = D /\ \A i \in D : list[i] \in Crumbs
    OBVIOUS
<1>2. new = [i \in D |-> list[order[i]]]
    BY <1>1 DEF NewestFirst, Before
<1>3. \E p \in Bijection(D, D) : Order(p)
    <2>1. PICK q : Sorts(list, D, q)
        BY SortExists
    <2>2. Cardinality(D) = Len(list)
        <3>1. 1 \in Int /\ Len(list) \in Int /\ Len(list) >= 0
            BY <1>1
        <3> QED BY <3>1, FS_Interval
    <2>3. /\ q \in Seq(D) /\ Elements(q) = D /\ Len(q) = Len(list) /\ DOMAIN q = D
          /\ \A i, j \in D : i < j => Before(list, q[i], q[j])
        BY <2>1, <2>2 DEF Sorts
    <2>4. q \in [D -> D]
        BY <2>3
    <2>5. \A i, j \in D : q[i] = q[j] => i = j
        <3> SUFFICES ASSUME NEW i \in D, NEW j \in D, q[i] = q[j], i # j PROVE FALSE
            OBVIOUS
        <3>1. Before(list, q[i], q[j]) \/ Before(list, q[j], q[i])
            <4>1. i < j \/ j < i
                BY <1>1
            <4> QED BY <2>3, <4>1
        <3>2. q[i] \in D /\ at[list[q[i]]] \in 0..MaxTime
            BY <1>1, <2>4 DEF Times
        <3> QED
            BY <3>1, <3>2 DEF Before, Times
    <2>6. \A t \in D : \E i \in D : q[i] = t
        <3> HIDE DEF D
        <3>1. Elements(q) = {q[i] : i \in D}
            BY <2>3 DEF Elements, D
        <3> QED BY <2>3, <3>1
    <2> HIDE DEF D, Order
    <2>7. q \in Bijection(D, D)
        BY <2>3, <2>4, <2>5, <2>6
           DEF Bijection, Injection, Surjection, IsInjective
    <2> QED
        BY <2>3, <2>7 DEF Order
<1>4. order \in Bijection(D, D) /\ Order(order)
    <2> HIDE DEF D, Order
    <2> QED BY <1>3
<1> HIDE DEF order, new
<1>5. /\ order \in [D -> D] /\ (\A i, j \in D : order[i] = order[j] => i = j)
      /\ \A t \in D : \E i \in D : order[i] = t
    <2> HIDE DEF D, Order
    <2> QED BY <1>4 DEF Bijection, Injection, Surjection, IsInjective
<1>6. new \in Seq(Crumbs) /\ Len(new) = Len(list) /\ \A i \in D : new[i] = list[order[i]]
    BY <1>1, <1>2, <1>5
<1>7. Injective(new)
    <2> SUFFICES ASSUME NEW i \in D, NEW j \in D, new[i] = new[j] PROVE i = j
        BY <1>6 DEF Injective
    <2>1. order[i] \in D /\ order[j] \in D /\ list[order[i]] = list[order[j]]
        BY <1>5, <1>6
    <2>2. order[i] = order[j]
        BY <2>1 DEF Injective
    <2> QED
        BY <1>5, <2>2
<1>8. Elements(new) = Elements(list)
    <2>1. Elements(new) = {list[order[i]] : i \in D} /\ Elements(list) = {list[i] : i \in D}
        BY <1>6 DEF Elements
    <2> HIDE DEF D
    <2> QED
        BY <1>5, <2>1
<1>9. ASSUME NEW i \in D, NEW j \in D, i < j PROVE at[new[i]] >= at[new[j]]
    <2>1. Before(list, order[i], order[j])
        BY <1>4, <1>9
    <2>2. /\ at[list[order[i]]] \in 0..MaxTime /\ at[list[order[j]]] \in 0..MaxTime
          /\ new[i] = list[order[i]] /\ new[j] = list[order[j]]
        BY <1>1, <1>5, <1>6 DEF Times
    <2> QED
        BY <2>1, <2>2 DEF Before, Times
<1> QED
    BY <1>6, <1>7, <1>8, <1>9 DEF new

-----------------------------------------------------------------------------
(* The breadcrumbs of an event.                                             *)

\* A list of breadcrumbs from T that left one out only for want of room, and none that is
\* newer than those it has.
Good(M, T) ==
    /\ M \in Seq(Crumbs) /\ Injective(M) /\ Len(M) <= Limit /\ Elements(M) \subseteq T
    /\ \A c \in T \ Elements(M) : /\ Len(M) = Limit
                                  /\ \A d \in Elements(M) : at[d] >= at[c]

\* Two sequences without common elements, one after the other.
LEMMA Joined ==
    ASSUME NEW S, NEW p \in Seq(S), NEW q \in Seq(S), Injective(p), Injective(q),
           Elements(p) \cap Elements(q) = {}
    PROVE  /\ p \o q \in Seq(S) /\ Len(p \o q) = Len(p) + Len(q) /\ Injective(p \o q)
           /\ Elements(p \o q) = Elements(p) \cup Elements(q)
<1> DEFINE r == p \o q
<1>1. /\ r \in Seq(S) /\ Len(r) = Len(p) + Len(q) /\ Len(p) \in Nat /\ Len(q) \in Nat
      /\ \A i \in 1..Len(p) : r[i] = p[i]
      /\ \A i \in 1..Len(q) : r[Len(p) + i] = q[i]
    OBVIOUS
<1> HIDE DEF r
<1>2. \A i \in 1..Len(r) : \/ i \in 1..Len(p) /\ r[i] = p[i]
                           \/ i - Len(p) \in 1..Len(q) /\ r[i] = q[i - Len(p)]
    <2> SUFFICES ASSUME NEW i \in 1..Len(r), i \notin 1..Len(p)
                 PROVE  i - Len(p) \in 1..Len(q) /\ r[i] = q[i - Len(p)]
        BY <1>1
    <2>1. i - Len(p) \in 1..Len(q) /\ Len(p) + (i - Len(p)) = i
        BY <1>1
    <2> QED
        BY <1>1, <2>1
<1>3. ASSUME NEW i \in 1..Len(r), NEW j \in 1..Len(r), r[i] = r[j] PROVE i = j
    <2>1. CASE i \in 1..Len(p) /\ j \in 1..Len(p)
        BY <1>1, <1>3, <2>1 DEF Injective
    <2>2. CASE /\ i - Len(p) \in 1..Len(q) /\ j - Len(p) \in 1..Len(q)
               /\ i \notin 1..Len(p) /\ j \notin 1..Len(p)
        <3>1. q[i - Len(p)] = q[j - Len(p)]
            BY <1>2, <1>3, <2>2
        <3>2. i - Len(p) = j - Len(p)
            BY <2>2, <3>1 DEF Injective
        <3> QED
            BY <1>1, <3>2
    <2>3. ASSUME NEW k \in 1..Len(p), NEW l \in 1..Len(q), p[k] = q[l] PROVE FALSE
        <3>1. p[k] \in Elements(p) /\ q[l] \in Elements(q)
            BY DEF Elements
        <3> QED
            BY <2>3, <3>1
    <2>4. CASE i \in 1..Len(p) /\ j \notin 1..Len(p)
        BY <1>2, <1>3, <2>3, <2>4
    <2>5. CASE i \notin 1..Len(p) /\ j \in 1..Len(p)
        BY <1>2, <1>3, <2>3, <2>5
    <2> QED
        BY <1>2, <2>1, <2>2, <2>4, <2>5
<1>4. Elements(r) \subseteq Elements(p) \cup Elements(q)
    BY <1>2 DEF Elements
<1>5. ASSUME NEW x \in Elements(p) \cup Elements(q) PROVE x \in Elements(r)
    <2>1. CASE x \in Elements(p)
        <3>1. PICK i \in 1..Len(p) : x = p[i]
            BY <2>1 DEF Elements
        <3>2. i \in 1..Len(r)
            BY <1>1
        <3> QED
            BY <1>1, <3>1, <3>2 DEF Elements
    <2>2. CASE x \in Elements(q)
        <3>1. PICK i \in 1..Len(q) : x = q[i]
            BY <2>2 DEF Elements
        <3>2. Len(p) + i \in 1..Len(r)
            BY <1>1
        <3> QED
            BY <1>1, <3>1, <3>2 DEF Elements
    <2> QED
        BY <2>1, <2>2
<1> QED
    BY <1>1, <1>3, <1>4, <1>5 DEF Injective, r

\* The beginning of a sequence.
LEMMA CutFacts ==
    ASSUME NEW S, NEW p \in Seq(S), NEW m \in Nat, m <= Len(p)
    PROVE  /\ SubSeq(p, 1, m) \in Seq(S) /\ Len(SubSeq(p, 1, m)) = m
           /\ \A i \in 1..m : SubSeq(p, 1, m)[i] = p[i]
<1>1. \A i \in 1..m : p[i] \in S /\ 1 + i - 1 = i
    OBVIOUS
<1>2. 1 \in Int /\ m \in Int /\ m - 1 + 1 = m
    OBVIOUS
<1>3. CASE m = 0
    <2>1. SubSeq(p, 1, m) = <<>>
        BY <1>3
    <2> QED BY <1>3, <2>1
<1>4. CASE m # 0
    <2>1. SubSeq(p, 1, m) \in Seq(S) /\ Len(SubSeq(p, 1, m)) = m - 1 + 1
        BY <1>1, <1>2, <1>4, SubSeqProperties
    <2>2. \A i \in 1..(m - 1 + 1) : SubSeq(p, 1, m)[i] = p[1 + i - 1]
        BY <1>1, <1>2, <1>4, SubSeqProperties
    <2> QED
        BY <1>1, <1>2, <2>1, <2>2
<1> QED
    BY <1>3, <1>4

\* A scope's breadcrumbs with those inherited: a full event has the oldest cut off.
LEMMA MergeGood ==
    ASSUME Times, Limit \in Nat \ {0},
           NEW own, NEW U, Good(own, U), U = Elements(own),
           NEW inh, NEW T \in SUBSET Crumbs, Good(inh, T), U \cap T = {}
    PROVE  Good(Merge(own, inh), U \cup T)
<1>1. /\ own \in Seq(Crumbs) /\ Injective(own) /\ Len(own) <= Limit /\ Len(own) \in Nat
      /\ inh \in Seq(Crumbs) /\ Injective(inh) /\ Len(inh) <= Limit /\ Len(inh) \in Nat
      /\ Elements(inh) \subseteq T
      /\ \A c \in T \ Elements(inh) : /\ Len(inh) = Limit
                                      /\ \A d \in Elements(inh) : at[d] >= at[c]
    BY DEF Good
<1>2. CASE inh = <<>>
    <2>1. Len(inh) = 0 /\ Limit # 0
        BY <1>2
    <2>2. T = {}
        <3>1. Elements(inh) = {}
            BY <2>1 DEF Elements
        <3> QED
            BY <1>1, <2>1, <3>1
    <2>3. Merge(own, inh) = own
        BY <1>2 DEF Merge
    <2> QED
        BY <2>2, <2>3
<1>3. CASE inh # <<>>
    <2> DEFINE both == own \o inh
               new == NewestFirst(both)
               m == IF Len(new) > Limit THEN Limit ELSE Len(new)
               M == SubSeq(new, 1, m)
    <2>1. Merge(own, inh) = M
        BY <1>3 DEF Merge
    <2>2. /\ both \in Seq(Crumbs) /\ Len(both) = Len(own) + Len(inh) /\ Injective(both)
          /\ Elements(both) = Elements(own) \cup Elements(inh)
        <3>1. Elements(own) \cap Elements(inh) = {}
            BY <1>1
        <3> QED
            BY <1>1, <3>1, Joined
    <2>3. /\ new \in Seq(Crumbs) /\ Len(new) = Len(both) /\ Injective(new)
          /\ Elements(new) = Elements(both)
          /\ \A i, j \in 1..Len(new) : i < j => at[new[i]] >= at[new[j]]
        <3> HIDE DEF both
        <3> QED BY <2>2, NewestFirstFacts
    <2> HIDE DEF new, both
    <2>4. Len(new) \in Nat /\ m \in Nat /\ m <= Len(new) /\ m <= Limit
          /\ (m = Limit \/ m = Len(new))
        BY <2>3
    <2>5. M \in Seq(Crumbs) /\ Len(M) = m /\ \A i \in 1..m : M[i] = new[i]
        <3> HIDE DEF m
        <3> QED BY <2>3, <2>4, CutFacts
    <2> HIDE DEF M, m
    <2>6. \A i \in 1..m : i \in 1..Len(new)
        BY <2>4
    <2>7. Injective(M)
        BY <2>3, <2>5, <2>6 DEF Injective
    <2>8. Elements(M) \subseteq Elements(new)
        BY <2>5, <2>6 DEF Elements
    <2>9. Elements(M) \subseteq U \cup T
        BY <1>1, <2>2, <2>3, <2>8
    <2>10. \A d \in Crumbs : at[d] \in Nat
        BY DEF Times
    <2>11. ASSUME NEW c \in (U \cup T) \ Elements(M)
           PROVE  Len(M) = Limit /\ \A d \in Elements(M) : at[d] >= at[c]
        <3>1. ASSUME NEW k \in 1..Len(new), \E b : b = new[k] /\ b \notin Elements(M)
              PROVE  m = Limit /\ \A i \in 1..m : i < k
            <4>1. k \notin 1..m
                BY <2>5, <3>1 DEF Elements
            <4> QED
                BY <2>4, <4>1
        <3>2. CASE c \in Elements(new)
            <4>1. PICK k \in 1..Len(new) : c = new[k]
                BY <3>2 DEF Elements
            <4>2. m = Limit /\ \A i \in 1..m : i < k
                BY <3>1, <4>1
            <4>3. ASSUME NEW d \in Elements(M) PROVE at[d] >= at[c]
                <5>1. PICK i \in 1..m : d = new[i]
                    BY <2>5 DEF Elements
                <5> QED
                    BY <2>3, <2>6, <4>1, <4>2, <5>1
            <4> QED
                BY <2>5, <4>2, <4>3
        <3>3. CASE c \notin Elements(new)
            <4>1. c \in T \ Elements(inh)
                BY <2>2, <2>3, <3>3
            <4>2. Len(inh) = Limit /\ \A d \in Elements(inh) : at[d] >= at[c]
                BY <1>1, <4>1
            <4>3. m = Limit
                BY <1>1, <2>2, <2>3, <2>4, <4>2
            <4>4. ASSUME NEW j \in 1..m PROVE \E k \in j..Len(new) : new[k] \in Elements(inh)
                <5>1. SUFFICES ASSUME \A k \in j..Len(new) : new[k] \notin Elements(inh)
                               PROVE  FALSE
                    OBVIOUS
                <5>2. \A i \in 1..Limit : \E k \in 1..(j - 1) : new[k] = inh[i]
                    <6> SUFFICES ASSUME NEW i \in 1..Limit
                                 PROVE  \E k \in 1..(j - 1) : new[k] = inh[i]
                        OBVIOUS
                    <6>1. inh[i] \in Elements(inh)
                        BY <4>2 DEF Elements
                    <6>2. inh[i] \in Elements(new)
                        BY <2>2, <2>3, <6>1
                    <6>3. PICK k \in 1..Len(new) : new[k] = inh[i]
                        BY <6>2 DEF Elements
                    <6>4. k \notin j..Len(new)
                        BY <5>1, <6>1, <6>3
                    <6>5. k \in 1..(j - 1)
                        BY <2>4, <6>4
                    <6> QED
                        BY <6>3, <6>5
                <5> DEFINE P == 1..Limit
                           Q == 1..(j - 1)
                           f == [i \in P |-> CHOOSE k \in Q : new[k] = inh[i]]
                <5>3. f \in [P -> Q] /\ \A i \in P : new[f[i]] = inh[i]
                    BY <5>2
                <5>4. IsFiniteSet(P) /\ IsFiniteSet(Q)
                    <6>1. 1 \in Int /\ Limit \in Int /\ j - 1 \in Int
                        BY <2>4
                    <6> QED BY <6>1, FS_Interval
                <5>5. Cardinality(P) = Limit /\ Cardinality(Q) = j - 1
                    <6>1. /\ 1 \in Int /\ Limit \in Int /\ j - 1 \in Int
                          /\ Limit >= 1 /\ j - 1 >= 0
                        BY <2>4
                    <6>2. Cardinality(P) = IF 1 > Limit THEN 0 ELSE Limit - 1 + 1
                        BY <6>1, FS_Interval
                    <6>3. Cardinality(Q) = IF 1 > j - 1 THEN 0 ELSE (j - 1) - 1 + 1
                        BY <6>1, FS_Interval
                    <6> HIDE DEF P, Q
                    <6> QED BY <6>1, <6>2, <6>3
                <5>6. Cardinality(Q) < Cardinality(P)
                    <6> HIDE DEF P, Q
                    <6> QED BY <2>4, <4>3, <5>5
                <5>7. \E i, l \in P : i # l /\ f[i] = f[l]
                    <6> HIDE DEF P, Q, f
                    <6> QED BY <5>3, <5>4, <5>6, FS_PigeonHole
                <5>8. PICK i \in P, l \in P : i # l /\ inh[i] = inh[l]
                    <6> HIDE DEF P, Q, f
                    <6> QED BY <5>3, <5>7
                <5> QED
                    BY <1>1, <4>2, <5>8 DEF Injective
            <4>5. ASSUME NEW d \in Elements(M) PROVE at[d] >= at[c]
                <5>1. PICK j \in 1..m : d = new[j]
                    BY <2>5 DEF Elements
                <5>2. PICK k \in j..Len(new) : new[k] \in Elements(inh)
                    BY <4>4
                <5>3. j \in 1..Len(new) /\ k \in 1..Len(new) /\ (j = k \/ j < k)
                    BY <2>4, <2>6, <5>2
                <5>4. at[d] >= at[new[k]]
                    <6>1. d \in Crumbs
                        BY <2>3, <5>1, <5>3
                    <6> QED BY <2>3, <2>10, <5>1, <5>3, <6>1
                <5>5. at[new[k]] >= at[c]
                    BY <4>2, <5>2
                <5>6. d \in Crumbs /\ new[k] \in Crumbs
                    BY <2>3, <5>1, <5>3
                <5>7. at[d] \in Nat /\ at[new[k]] \in Nat /\ at[c] \in Nat
                    BY <2>10, <4>1, <5>6
                <5> QED
                    BY <5>4, <5>5, <5>7
            <4> QED
                BY <2>5, <4>3, <4>5
        <3> QED
            BY <3>2, <3>3
    <2>12. Good(M, U \cup T)
        BY <2>4, <2>5, <2>7, <2>9, <2>11 DEF Good
    <2> QED
        BY <2>1, <2>12
<1> QED
    BY <1>2, <1>3

\* The merge of several lists, from the last one back.
FirstOf(s) == Min(s)
\* iter has, for each set of lists, what Scope's fold over them computes.
Merges(iter, lists, S) ==
    iter = [s \in SUBSET S |-> IF s = {} THEN <<>>
                               ELSE Merge(lists[FirstOf(s)], iter[s \ {FirstOf(s)}])]
Merging(lists, S) == CHOOSE iter : Merges(iter, lists, S)

\* Scope's MergeBreadcrumbs is this fold.
LEMMA FoldIs ==
    ASSUME NEW lists
    PROVE  FoldRight(Merge, lists, <<>>) = Merging(lists, DOMAIN lists)[DOMAIN lists]
BY DEF FoldRight, MapThenFoldSet, Merging, Merges, FirstOf

LEMMA FirstIn ==
    ASSUME NEW s, s \subseteq Nat, s # {}
    PROVE  FirstOf(s) \in s /\ s \ {FirstOf(s)} \subseteq s /\ s \ {FirstOf(s)} # s
<1>1. \E m \in s : \A k \in s : m <= k
    BY SmallestNumber
<1> QED
    BY <1>1 DEF FirstOf, Min

\* What the fold gives for a set does not depend on the lists beyond it.
LEMMA MergesOnce ==
    ASSUME NEW S, IsFiniteSet(S), S \subseteq Nat, NEW T \in SUBSET S, NEW lists,
           Merges(Merging(lists, S), lists, S), Merges(Merging(lists, T), lists, T)
    PROVE  Merging(lists, S)[T] = Merging(lists, T)[T]
<1> DEFINE g == Merging(lists, S)
           h == Merging(lists, T)
<1>0. Merges(g, lists, S) /\ Merges(h, lists, T)
    OBVIOUS
<1> HIDE DEF g, h
<1> DEFINE Differ == {s \in SUBSET T : g[s] # h[s]}
<1>1. SUFFICES ASSUME Differ # {} PROVE FALSE
    BY DEF g, h
<1>2. IsFiniteSet(T) /\ Differ \subseteq SUBSET T
    BY FS_Subset
<1>3. PICK s \in Differ : \A r \in Differ : r \subseteq s => r = s
    <2>1. Differ # {}
        BY <1>1
    <2> HIDE DEF Differ
    <2> QED BY ONLY <2>1, <1>2, SmallestSubset
<1>4. s \in SUBSET S /\ s \in SUBSET T
    OBVIOUS
<1>5. s # {}
    BY <1>0, <1>4 DEF Merges
<1> DEFINE r == s \ {FirstOf(s)}
<1>6. r \in SUBSET S /\ r \in SUBSET T /\ g[r] = h[r]
    BY <1>3, <1>4, <1>5, FirstIn
<1>7. g[s] = Merge(lists[FirstOf(s)], g[r]) /\ h[s] = Merge(lists[FirstOf(s)], h[r])
    BY <1>0, <1>4, <1>5 DEF Merges
<1> QED
    BY <1>6, <1>7

\* There is such a function over any finite set of lists.
LEMMA MergesExists ==
    ASSUME NEW S, IsFiniteSet(S), S \subseteq Nat, NEW lists
    PROVE  Merges(Merging(lists, S), lists, S)
<1> DEFINE Bad == {s \in SUBSET S : ~Merges(Merging(lists, s), lists, s)}
<1>1. SUFFICES ASSUME Bad # {} PROVE FALSE
    OBVIOUS
<1>2. PICK t \in Bad : \A r \in Bad : r \subseteq t => r = t
    <2>1. Bad \subseteq SUBSET S /\ IsFiniteSet(S) /\ Bad # {}
        BY <1>1
    <2> HIDE DEF Bad
    <2> QED BY ONLY <2>1, SmallestSubset
<1>3. \A r \in SUBSET t : r # t => Merges(Merging(lists, r), lists, r)
    BY <1>2
<1>4. \A r \in SUBSET t : IsFiniteSet(r) /\ r \subseteq Nat
    BY FS_Subset
<1> DEFINE Rest(r) == r \ {FirstOf(r)}
           V(r) == Merging(lists, r)[r]
           W(r) == IF r = {} THEN <<>> ELSE Merge(lists[FirstOf(r)], V(Rest(r)))
           G == [r \in SUBSET t |-> W(r)]
<1>5. ASSUME NEW r \in SUBSET t, r # t PROVE V(r) = W(r)
    <2>1. V(r) = IF r = {} THEN <<>>
                 ELSE Merge(lists[FirstOf(r)], Merging(lists, r)[Rest(r)])
        BY <1>3, <1>5 DEF Merges
    <2>2. CASE r # {}
        <3>1. Rest(r) \in SUBSET t /\ Rest(r) # t /\ Rest(r) \subseteq r
            BY <1>4, <1>5, <2>2, FirstIn
        <3>2. /\ Merges(Merging(lists, Rest(r)), lists, Rest(r))
              /\ Merges(Merging(lists, r), lists, r) /\ IsFiniteSet(r) /\ r \subseteq Nat
            BY <3>1, <1>3, <1>4, <1>5
        <3>3. Merging(lists, r)[Rest(r)] = V(Rest(r))
            <4> DEFINE o == Rest(r)
            <4>1. /\ Merges(Merging(lists, r), lists, r) /\ Merges(Merging(lists, o), lists, o)
                  /\ IsFiniteSet(r) /\ r \subseteq Nat /\ o \in SUBSET r
                BY <3>1, <3>2
            <4> HIDE DEF o
            <4>2. Merging(lists, r)[o] = Merging(lists, o)[o]
                BY ONLY <4>1, MergesOnce
            <4> QED
                BY <4>2 DEF o
        <3> QED
            BY <2>1, <2>2, <3>3
    <2> QED
        BY <2>1, <2>2
<1>6. ASSUME NEW r \in SUBSET t, r # {} PROVE V(Rest(r)) = G[Rest(r)]
    <2>1. Rest(r) \in SUBSET t /\ Rest(r) # t
        BY <1>4, <1>6, FirstIn
    <2> QED
        BY <1>5, <2>1
<1>7. \A r \in SUBSET t : W(r) = IF r = {} THEN <<>>
                                 ELSE Merge(lists[FirstOf(r)], G[Rest(r)])
    <2> HIDE DEF V, G, Rest
    <2> QED BY <1>6
<1>8. Merges(G, lists, t)
    <2> HIDE DEF W
    <2> QED BY <1>7 DEF Merges
<1>9. Merges(Merging(lists, t), lists, t)
    <2> HIDE DEF G
    <2> QED BY <1>8 DEF Merging
<1> QED
    BY <1>9

\* So the breadcrumbs of an event are the newest of all that was read of its scopes.
LEMMA FoldGood ==
    ASSUME Times, Limit \in Nat \ {0}, NEW lists \in Seq(Seq(Crumbs)),
           \A i \in 1..Len(lists) : Injective(lists[i]) /\ Len(lists[i]) <= Limit,
           \A i, j \in 1..Len(lists) : i # j => Elements(lists[i]) \cap Elements(lists[j]) = {}
    PROVE  Good(FoldRight(Merge, lists, <<>>),
                UNION {Elements(lists[i]) : i \in 1..Len(lists)})
<1> DEFINE D == 1..Len(lists)
           iter == Merging(lists, D)
           All(s) == UNION {Elements(lists[i]) : i \in s}
           Bad == {s \in SUBSET D : ~Good(iter[s], All(s))}
<1>1. /\ IsFiniteSet(D) /\ D \subseteq Nat /\ DOMAIN lists = D
      /\ \A i \in D : lists[i] \in Seq(Crumbs)
    <2>1. Len(lists) \in Nat /\ 1 \in Int /\ Len(lists) \in Int /\ DOMAIN lists = D
        OBVIOUS
    <2>2. D \subseteq Nat /\ \A i \in D : lists[i] \in Seq(Crumbs)
        OBVIOUS
    <2>3. IsFiniteSet(D)
        BY ONLY <2>1, FS_Interval
    <2> QED
        BY <2>1, <2>2, <2>3
<1>2. FoldRight(Merge, lists, <<>>) = iter[D]
    BY <1>1, FoldIs
<1>3. Merges(iter, lists, D)
    <2> HIDE DEF D
    <2> QED BY <1>1, MergesExists
<1>4. \A i \in D : Injective(lists[i]) /\ Len(lists[i]) <= Limit
    OBVIOUS
<1>5. \A i, j \in D : i # j => Elements(lists[i]) \cap Elements(lists[j]) = {}
    OBVIOUS
<1>6. ASSUME Bad # {} PROVE FALSE
    <2>1. PICK s \in Bad : \A r \in Bad : r \subseteq s => r = s
        <3>1. Bad \subseteq SUBSET D /\ IsFiniteSet(D) /\ Bad # {}
            BY <1>1, <1>6
        <3> HIDE DEF Bad, D
        <3> QED BY ONLY <3>1, SmallestSubset
    <2>2. s \in SUBSET D /\ ~Good(iter[s], All(s))
        BY <2>1
    <2> HIDE DEF iter, D
    <2>3. iter[s] = IF s = {} THEN <<>>
                    ELSE Merge(lists[FirstOf(s)], iter[s \ {FirstOf(s)}])
        BY <1>3, <2>2 DEF Merges
    <2>4. s # {}
        <3>1. ASSUME s = {} PROVE Good(iter[s], All(s))
            <4>1. iter[s] = <<>> /\ All(s) = {}
                BY <2>3, <3>1
            <4>2. Good(<<>>, {})
                BY DEF Good, Injective, Elements
            <4> QED
                BY <4>1, <4>2
        <3> QED
            BY <2>2, <3>1
    <2> DEFINE k == FirstOf(s)
               r == s \ {k}
    <2>5. k \in s /\ r \subseteq s /\ r # s /\ r \in SUBSET D
        <3>1. s \subseteq Nat
            BY <1>1, <2>2
        <3> QED
            BY <2>2, <2>4, <3>1, FirstIn
    <2>6. Good(iter[r], All(r))
        <3>1. r \notin Bad
            <4> HIDE DEF Bad, r
            <4> QED BY <2>1, <2>5
        <3> QED
            BY <2>5, <3>1
    <2>7. lists[k] \in Seq(Crumbs) /\ Injective(lists[k]) /\ Len(lists[k]) <= Limit
        BY <1>1, <1>4, <2>2, <2>5
    <2>8. Good(lists[k], Elements(lists[k]))
        BY <2>7 DEF Good
    <2>9. Elements(lists[k]) \cap All(r) = {}
        BY <1>5, <2>2, <2>5
    <2>10. All(s) = Elements(lists[k]) \cup All(r)
        BY <2>5
    <2>11. All(r) \in SUBSET Crumbs
        BY <1>1, <2>5 DEF Elements
    <2>12. iter[s] = Merge(lists[k], iter[r])
        BY <2>3, <2>4
    <2> HIDE DEF k, r, All
    <2>13. Good(iter[s], All(s))
        BY <2>6, <2>8, <2>9, <2>10, <2>11, <2>12, MergeGood
    <2> QED
        BY <2>2, <2>13
<1>7. D \notin Bad
    BY <1>6
<1>8. Good(iter[D], All(D))
    <2> HIDE DEF D, iter, All
    <2> QED BY <1>7
<1> QED
    BY <1>2, <1>8

-----------------------------------------------------------------------------
(* Events and the scopes they are built from.                               *)

\* The assumptions of Scope on its constants.
FlowLimits == /\ IsFiniteSet(Scopes) /\ Global \notin Scopes /\ None \notin Scopes \cup {Global}
              /\ Settable \subseteq Scopes \cup {Global}
              /\ Limit \in Nat \ {0} /\ MaxTime \in Nat

LEMMA FlowHasLimits == FlowLimits
BY ScopesAssumption, SettableAssumption, LimitAssumption DEF FlowLimits

\* All scopes there can be, and those there are.
Everyone  == Scopes \cup {Global}
Live(par) == {Global} \cup {s \in Scopes : par[s] # None}

\* The chain of the event being built, and what of it its breadcrumbs come from.
MyChain  == ChainOf(parent, capture.scope)
MyScopes == Inherited(MyChain)

\* The values of capture and early, given the parents of the scopes.
Captures(par) ==
    [pc : {"idle", "breadcrumbs", "tags", "user", "done"}, scope : Live(par),
     left : Seq(Everyone), lists : Seq(Seq(Crumbs)),
     tag : Everyone \cup {None}, user : Everyone \cup {None}]
Demands == [crumbs : SUBSET Crumbs, tag : BOOLEAN, user : BOOLEAN]

\* Types, with tags, users and captures on live scopes only.
Typed ==
    /\ now \in 0..MaxTime
    /\ parent \in [Everyone -> Everyone \cup {None}] /\ parent[Global] = None
    /\ trail \in [Everyone -> Seq(Crumbs)]
    /\ hasTag \subseteq Live(parent) /\ hasUser \subseteq Live(parent)
    /\ crumbPc \in [Crumbs -> {"idle", "timed", "added"}]
    /\ scopeOf \in [Crumbs -> Live(parent)] /\ at \in [Crumbs -> 0..MaxTime]
    /\ capture \in Captures(parent)
    /\ early \in Demands

\* Every scope that was made goes back to the global one.
Rooted == \E rank : /\ \A s \in Live(parent) : rank[s] \in Nat
                    /\ Lineage(parent, Live(parent), rank)

\* A step is stored on its own scope, once.
Stored == \A s \in Everyone :
    /\ Injective(trail[s]) /\ Len(trail[s]) <= Limit
    /\ \A c \in Elements(trail[s]) : crumbPc[c] = "added" /\ scopeOf[c] = s

\* What the event has to respect is still so.
Respected ==
    /\ \A c \in early.crumbs : crumbPc[c] = "added"
    /\ early.tag => capture.scope \in hasTag
    /\ early.user => capture.scope \in hasUser

\* The lists read so far are those of the first scopes, the others are left.
Collecting == capture.pc = "breadcrumbs" =>
    /\ Len(capture.lists) + Len(capture.left) = Len(MyScopes)
    /\ \A k \in 1..Len(capture.left) : capture.left[k] = MyScopes[Len(capture.lists) + k]
    /\ \A k \in 1..Len(capture.lists) :
          /\ Injective(capture.lists[k]) /\ Len(capture.lists[k]) <= Limit
          /\ \A c \in Elements(capture.lists[k]) : crumbPc[c] = "added" /\ scopeOf[c] = MyScopes[k]
          /\ early.crumbs \cap Elements(trail[MyScopes[k]]) \subseteq Elements(capture.lists[k])

\* The list of the event has those there was room for.
Collected == capture.pc \in {"tags", "user", "done"} =>
    /\ Len(capture.lists) = 1
    /\ Injective(capture.lists[1]) /\ Len(capture.lists[1]) <= Limit
    /\ \A c \in Elements(capture.lists[1]) :
          crumbPc[c] = "added" /\ scopeOf[c] \in Elements(MyScopes)
    /\ \A s \in Elements(MyScopes) :
          \A c \in (early.crumbs \cap Elements(trail[s])) \ Elements(capture.lists[1]) :
             /\ Len(capture.lists[1]) = Limit
             /\ \A d \in Elements(capture.lists[1]) : at[d] >= at[c]

\* Tag and user are of the chain, whose scopes are read.
Within ==
    /\ {capture.tag, capture.user} \subseteq Elements(MyChain) \cup {None}
    /\ capture.pc \in {"tags", "user"} => Elements(capture.left) \subseteq Elements(MyChain)

\* The own scope is the last that is asked for a tag ...
TagIsOwn == early.tag =>
    /\ capture.pc = "tags" =>
          /\ capture.left = <<>> => capture.tag = capture.scope
          /\ capture.left # <<>> => capture.left[Len(capture.left)] = capture.scope
    /\ capture.pc \in {"user", "done"} => capture.tag = capture.scope

\* ... and the first that is asked for a user.
UserIsOwn == early.user =>
    /\ capture.pc = "user" =>
          /\ capture.left = <<>> => capture.user = capture.scope
          /\ capture.left # <<>> => capture.left[1] = capture.scope
    /\ capture.pc = "done" => capture.user = capture.scope

\* The inductive invariant: what an event being built has of breadcrumbs, and of context.
Kept == Collecting /\ Collected
Own  == Within /\ TagIsOwn /\ UserIsOwn
FlowInv == /\ FlowLimits /\ Typed /\ Rooted /\ Stored /\ Respected /\ Kept /\ Own
           /\ capture.pc = "idle" => capture = NoCapture /\ early = Nothing

LEMMA LiveIs == live = Live(parent) /\ AllScopes = Everyone
BY DEF live, Live, AllScopes, Everyone

LEMMA LiveIn == ASSUME NEW par PROVE Live(par) \subseteq Everyone /\ Global \in Live(par)
BY DEF Live, Everyone

\* The chain of a scope, and that it stays.
LEMMA ChainHere ==
    ASSUME FlowLimits, Rooted, NEW s \in Live(parent)
    PROVE  LET x == ChainOf(parent, s)
               y == Inherited(x)
           IN  /\ x \in Seq(Live(parent)) /\ Len(x) >= 1 /\ x[1] = s
               /\ y \in Seq(Live(parent)) /\ Injective(y) /\ Elements(y) \subseteq Elements(x)
               /\ Global \in Elements(y) => s = Global
<1>1. PICK rank : /\ \A t \in Live(parent) : rank[t] \in Nat
                  /\ Lineage(parent, Live(parent), rank)
    BY DEF Rooted
<1> DEFINE L == Live(parent)
           x == ChainOf(parent, s)
<1>2. IsFiniteSet(Scopes) /\ s \in L
    BY DEF FlowLimits
<1>3. \A t \in L : parent[t] = parent[t]
    OBVIOUS
<1> HIDE DEF L
<1>4. Linked(L, rank, s, x)
    BY <1>1, <1>2, <1>3, ChainFacts DEF L
<1> HIDE DEF x
<1>5. /\ Inherited(x) \in Seq(L) /\ Injective(Inherited(x))
      /\ Elements(Inherited(x)) \subseteq Elements(x)
      /\ Global \in Elements(Inherited(x)) => s = Global
    BY <1>1, <1>4, InheritedFacts DEF L
<1> QED
    BY <1>4, <1>5 DEF Linked, L, x

LEMMA ChainStays ==
    ASSUME FlowLimits, Rooted, NEW other, \A t \in Live(parent) : other[t] = parent[t],
           NEW s \in Live(parent)
    PROVE  ChainOf(other, s) = ChainOf(parent, s)
<1>1. PICK rank : /\ \A t \in Live(parent) : rank[t] \in Nat
                  /\ Lineage(parent, Live(parent), rank)
    BY DEF Rooted
<1> DEFINE L == Live(parent)
<1>2. IsFiniteSet(Scopes) /\ s \in L /\ \A t \in L : other[t] = parent[t]
    BY DEF FlowLimits
<1> HIDE DEF L
<1> QED
    BY <1>1, <1>2, ChainFacts DEF L

LEMMA InitFlow == FlowLimits /\ ScopeInit => FlowInv
<1> SUFFICES ASSUME FlowLimits, ScopeInit PROVE FlowInv
    OBVIOUS
<1> USE DEF ScopeInit, NoCapture, Nothing
<1>1. Live(parent) = {Global} /\ AllScopes = Everyone
    BY DEF Live, AllScopes, Everyone
<1>2. <<>> \in Seq(Crumbs) /\ <<>> \in Seq(Everyone) /\ <<>> \in Seq(Seq(Crumbs)) /\ Len(<<>>) = 0
    OBVIOUS
<1>3. Typed
    <2>1. Global \in Everyone
        BY DEF Everyone
    <2> QED
        BY <1>1, <1>2, <2>1 DEF Typed, FlowLimits, Captures, Demands
<1>4. Rooted
    <2>1. \A s \in {Global} : [r \in {Global} |-> 0][s] \in Nat
        OBVIOUS
    <2> QED
        BY <1>1, <2>1 DEF Rooted, Lineage
<1>5. Stored
    <2>1. Injective(<<>>) /\ Elements(<<>>) = {}
        BY DEF Injective, Elements
    <2> QED
        BY <1>1, <1>2, <2>1 DEF Stored, FlowLimits
<1>6. Respected /\ Kept /\ Own
    BY DEF Respected, Kept, Collecting, Collected, Own, Within, TagIsOwn, UserIsOwn
<1> QED
    BY <1>3, <1>4, <1>5, <1>6 DEF FlowInv

-----------------------------------------------------------------------------
(* Steps of the application: the event goes on from what it has.            *)

\* What was collected stays good while breadcrumbs are only added, and cleared or pushed out.
LEMMA AsideStep ==
    ASSUME FlowInv, Typed', capture' = capture, early'.crumbs = early.crumbs, MyChain' = MyChain,
           \A c \in Crumbs : crumbPc[c] = "added" =>
              crumbPc'[c] = "added" /\ scopeOf'[c] = scopeOf[c] /\ at'[c] = at[c],
           \A s \in Everyone : early.crumbs \cap Elements(trail'[s]) \subseteq Elements(trail[s])
    PROVE  Kept' /\ Within'
<1>1. MyScopes' = MyScopes
    BY DEF MyScopes
<1>2. /\ MyScopes \in Seq(Everyone) /\ Len(MyScopes) \in Nat
      /\ Elements(MyScopes) \subseteq Everyone
      /\ \A k \in 1..Len(MyScopes) : MyScopes[k] \in Everyone
    <2>1. capture.scope \in Live(parent)
        BY DEF FlowInv, Typed, Captures
    <2>2. MyScopes \in Seq(Live(parent))
        BY <2>1, ChainHere DEF FlowInv, MyScopes, MyChain
    <2>3. \A k \in 1..Len(MyScopes) : MyScopes[k] \in Everyone
        BY <2>2, LiveIn
    <2> QED
        BY <2>2, <2>3, LiveIn DEF Elements
<1>3. /\ capture.lists \in Seq(Seq(Crumbs)) /\ early.crumbs \subseteq Crumbs
      /\ \A k \in 1..Len(capture.lists) : Elements(capture.lists[k]) \subseteq Crumbs
    <2>1. capture.lists \in Seq(Seq(Crumbs)) /\ early.crumbs \subseteq Crumbs
        BY DEF FlowInv, Typed, Captures, Demands
    <2>2. \A k \in 1..Len(capture.lists) : capture.lists[k] \in Seq(Crumbs)
        BY <2>1
    <2>3. \A q \in Seq(Crumbs) : Elements(q) \subseteq Crumbs
        BY DEF Elements
    <2> QED
        BY <2>1, <2>2, <2>3
<1>4. Collecting'
    <2> SUFFICES ASSUME capture.pc = "breadcrumbs" PROVE Collecting'
        BY DEF Collecting
    <2>1. /\ Len(capture.lists) + Len(capture.left) = Len(MyScopes)
          /\ \A k \in 1..Len(capture.left) : capture.left[k] = MyScopes[Len(capture.lists) + k]
          /\ \A k \in 1..Len(capture.lists) :
                /\ Injective(capture.lists[k]) /\ Len(capture.lists[k]) <= Limit
                /\ \A c \in Elements(capture.lists[k]) :
                      crumbPc[c] = "added" /\ scopeOf[c] = MyScopes[k]
                /\ early.crumbs \cap Elements(trail[MyScopes[k]])
                      \subseteq Elements(capture.lists[k])
        BY DEF FlowInv, Kept, Collecting
    <2>2. ASSUME NEW k \in 1..Len(capture.lists)
          PROVE  /\ \A c \in Elements(capture.lists[k]) :
                       crumbPc'[c] = "added" /\ scopeOf'[c] = MyScopes[k]
                 /\ early.crumbs \cap Elements(trail'[MyScopes[k]])
                       \subseteq Elements(capture.lists[k])
        <3>1. k \in 1..Len(MyScopes)
            <4>1. Len(capture.left) \in Nat /\ Len(capture.lists) \in Nat
                BY DEF FlowInv, Typed
            <4>2. Len(capture.lists) + Len(capture.left) = Len(MyScopes)
                BY <2>1
            <4>3. \A m, n, l \in Nat : m + n = l => \A i \in 1..m : i \in 1..l
                OBVIOUS
            <4> QED
                BY <1>2, <4>1, <4>2, <4>3
        <3>2. MyScopes[k] \in Everyone
            BY <1>2, <3>1
        <3> QED
            BY <1>3, <2>1, <3>2
    <2> QED
        BY <1>1, <2>1, <2>2 DEF Collecting
<1>5. Collected'
    <2> SUFFICES ASSUME capture.pc \in {"tags", "user", "done"} PROVE Collected'
        BY DEF Collected
    <2> DEFINE M == capture.lists[1]
    <2>1. /\ Len(capture.lists) = 1
          /\ Injective(M) /\ Len(M) <= Limit
          /\ \A c \in Elements(M) : crumbPc[c] = "added" /\ scopeOf[c] \in Elements(MyScopes)
          /\ \A s \in Elements(MyScopes) :
                \A c \in (early.crumbs \cap Elements(trail[s])) \ Elements(M) :
                Len(M) = Limit /\ \A d \in Elements(M) : at[d] >= at[c]
        BY DEF FlowInv, Kept, Collected
    <2>2. Elements(M) \subseteq Crumbs
        BY <1>3, <2>1
    <2>3. \A c \in Elements(M) : crumbPc'[c] = "added" /\ scopeOf'[c] \in Elements(MyScopes)
        BY <2>1, <2>2
    <2>4. ASSUME NEW s \in Elements(MyScopes),
                 NEW c \in (early.crumbs \cap Elements(trail'[s])) \ Elements(M)
          PROVE  Len(M) = Limit /\ \A d \in Elements(M) : at'[d] >= at'[c]
        <3>1. s \in Everyone /\ c \in (early.crumbs \cap Elements(trail[s])) \ Elements(M)
            BY <1>2
        <3>2. Len(M) = Limit /\ \A d \in Elements(M) : at[d] >= at[c]
            BY <2>1, <3>1
        <3>3. at'[c] = at[c]
            <4>1. crumbPc[c] = "added" /\ c \in Crumbs
                BY <1>3, <3>1 DEF FlowInv, Respected
            <4> QED BY <4>1
        <3>4. \A d \in Elements(M) : at'[d] = at[d]
            BY <2>1, <2>2
        <3> QED
            BY <3>2, <3>3, <3>4
    <2> HIDE DEF M
    <2>5. /\ Len(capture'.lists) = 1 /\ M = capture'.lists[1]
        BY <2>1 DEF M
    <2> QED
        BY <1>1, <2>1, <2>3, <2>4, <2>5 DEF Collected
<1>6. Within'
    BY DEF FlowInv, Own, Within
<1> QED
    BY <1>4, <1>5, <1>6 DEF Kept

\* A step of the application leaves the event's own tag and user alone.
LEMMA AsideOwn ==
    ASSUME FlowInv, capture' = capture, early'.tag => early.tag, early'.user => early.user
    PROVE  TagIsOwn' /\ UserIsOwn'
BY DEF FlowInv, Own, TagIsOwn, UserIsOwn

\* A new scope: those there were keep their chains.
LEMMA ContextStep ==
    ASSUME FlowInv, NEW s \in Everyone, ContextWithScope(s)
    PROVE  FlowInv'
<1> USE DEF FlowInv
<1>1. /\ s \in Scopes /\ s \notin Live(parent) /\ s # Global
      /\ UNCHANGED <<now, trail, hasTag, hasUser, crumbPc, scopeOf, at, capture, early>>
    BY LiveIs, LiveIn
       DEF ContextWithScope, crumbVars, captureVars, FlowLimits
<1>2. PICK from \in Live(parent) : parent' = [parent EXCEPT ![s] = from]
    BY LiveIs DEF ContextWithScope
<1>3. from \in Everyone /\ from # None /\ None \notin Everyone
    BY LiveIn DEF FlowLimits, Everyone
<1>4. /\ parent' \in [Everyone -> Everyone \cup {None}] /\ parent'[s] = from
      /\ \A t \in Everyone \ {s} : parent'[t] = parent[t]
    BY <1>2, <1>3 DEF Typed
<1>5. Live(parent') = Live(parent) \cup {s}
    BY <1>1, <1>3, <1>4 DEF Live, Everyone
<1>6. \A t \in Live(parent) : parent'[t] = parent[t]
    BY <1>1, <1>4, LiveIn
<1>7. Typed'
    BY <1>1, <1>4, <1>5, LiveIn DEF Typed, FlowLimits, Captures, Demands
<1>8. Rooted'
    <2>1. PICK rank : /\ \A t \in Live(parent) : rank[t] \in Nat
                      /\ Lineage(parent, Live(parent), rank)
        BY DEF Rooted
    <2> DEFINE r == [t \in Everyone |-> IF t = s THEN rank[from] + 1 ELSE rank[t]]
    <2>2. \A t \in Live(parent) : r[t] = rank[t] /\ t \in Everyone
        BY <1>1, LiveIn
    <2>3. r[s] = rank[from] + 1 /\ rank[from] \in Nat
        BY <2>1
    <2> HIDE DEF r
    <2>4. \A t \in Live(parent') : r[t] \in Nat
        BY <1>5, <2>1, <2>2, <2>3
    <2>5. Lineage(parent', Live(parent'), r)
        <3> SUFFICES ASSUME NEW t \in Live(parent') \ {Global}
                     PROVE  parent'[t] \in Live(parent') /\ r[parent'[t]] < r[t]
            BY DEF Lineage
        <3>1. CASE t = s
            BY <1>4, <1>5, <2>2, <2>3, <3>1
        <3>2. CASE t # s
            <4>1. t \in Live(parent) \ {Global}
                BY <1>5, <3>2
            <4>2. parent[t] \in Live(parent) /\ rank[parent[t]] < rank[t]
                BY <2>1, <4>1 DEF Lineage
            <4> QED
                BY <1>5, <1>6, <2>2, <4>1, <4>2
        <3> QED
            BY <3>1, <3>2
    <2> QED
        BY <2>4, <2>5 DEF Rooted
<1>9. MyChain' = MyChain
    <2>1. capture.scope \in Live(parent)
        BY DEF Typed, Captures
    <2> QED
        BY <1>1, <1>6, <2>1, ChainStays DEF MyChain
<1>10. Stored' /\ Respected'
    BY <1>1 DEF Stored, Respected
<1>11. Kept' /\ Within'
    BY <1>1, <1>7, <1>9, AsideStep
<1>12. TagIsOwn' /\ UserIsOwn'
    BY <1>1, AsideOwn
<1>13. FlowLimits'
    BY DEF FlowLimits
<1> QED
    BY <1>1, <1>7, <1>8, <1>10, <1>11, <1>12, <1>13 DEF Own, NoCapture, Nothing

\* A step that says no more than the event already has to respect.
LEMMA SettingStep ==
    ASSUME FlowInv, NEW s \in Everyone, SetTag(s) \/ SetUser(s)
    PROVE  FlowInv'
<1> USE DEF FlowInv
<1>1. /\ s \in Live(parent)
      /\ UNCHANGED <<now, parent, trail, crumbPc, scopeOf, at, capture, early>>
      /\ hasTag' \subseteq hasTag \cup {s} /\ hasTag \subseteq hasTag'
      /\ hasUser' \subseteq hasUser \cup {s} /\ hasUser \subseteq hasUser'
    BY LiveIs DEF SetTag, SetUser, crumbVars, captureVars
<1>2. Typed'
    BY <1>1 DEF Typed
<1>3. MyChain' = MyChain
    BY <1>1 DEF MyChain
<1>4. Kept' /\ Within'
    BY <1>1, <1>2, <1>3, AsideStep
<1>5. TagIsOwn' /\ UserIsOwn'
    BY <1>1, AsideOwn
<1>6. Stored' /\ Respected' /\ Rooted' /\ FlowLimits'
    BY <1>1 DEF Stored, Respected, Rooted, FlowLimits
<1> QED
    BY <1>1, <1>2, <1>4, <1>5, <1>6 DEF Own, NoCapture, Nothing

LEMMA ClearStep ==
    ASSUME FlowInv, NEW s \in Everyone, Clear(s)
    PROVE  FlowInv'
<1> USE DEF FlowInv
<1>1. /\ UNCHANGED <<now, parent, crumbPc, scopeOf, at, capture>>
      /\ trail' = [trail EXCEPT ![s] = <<>>]
      /\ hasTag' = hasTag \ {s} /\ hasUser' = hasUser \ {s}
      /\ early' = IF s = capture.scope
                  THEN [early EXCEPT !.tag = FALSE, !.user = FALSE] ELSE early
    BY DEF Clear, crumbVars
<1>2. /\ early' \in Demands
      /\ early'.crumbs = early.crumbs
      /\ early'.tag => early.tag /\ s # capture.scope
      /\ early'.user => early.user /\ s # capture.scope
    BY <1>1 DEF Typed, Captures, Demands
<1>3. /\ trail' \in [Everyone -> Seq(Crumbs)] /\ trail'[s] = <<>>
      /\ \A r \in Everyone \ {s} : trail'[r] = trail[r]
    BY <1>1 DEF Typed
<1>4. Typed'
    BY <1>1, <1>2, <1>3 DEF Typed
<1>5. MyChain' = MyChain
    BY <1>1 DEF MyChain
<1>6. Injective(<<>>) /\ Elements(<<>>) = {} /\ Len(<<>>) = 0
    BY DEF Injective, Elements
<1>7. Kept' /\ Within'
    <2>1. \A r \in Everyone : early.crumbs \cap Elements(trail'[r]) \subseteq Elements(trail[r])
        BY <1>3, <1>6
    <2> QED
        BY <1>1, <1>2, <1>4, <1>5, <2>1, AsideStep
<1>8. TagIsOwn' /\ UserIsOwn'
    BY <1>1, <1>2, AsideOwn
<1>9. Stored'
    BY <1>1, <1>3, <1>6 DEF Stored, FlowLimits
<1>10. Respected' /\ Rooted' /\ FlowLimits'
    BY <1>1, <1>2 DEF Respected, Rooted, FlowLimits
<1>11. capture'.pc = "idle" => capture' = NoCapture' /\ early' = Nothing'
    <2> SUFFICES ASSUME capture.pc = "idle" PROVE early' = early
        BY <1>1 DEF NoCapture, Nothing
    <2>1. early = [crumbs |-> {}, tag |-> FALSE, user |-> FALSE]
        BY DEF Nothing
    <2> DEFINE R == [crumbs : SUBSET Crumbs, tag : BOOLEAN, user : BOOLEAN]
    <2>2. \A d, e \in R : d.crumbs = e.crumbs /\ d.tag = e.tag /\ d.user = e.user => d = e
        OBVIOUS
    <2>3. early' \in R /\ early \in R /\ early'.crumbs = early.crumbs
        BY <1>2 DEF Typed, Demands
    <2>4. early.tag = FALSE /\ early.user = FALSE
        BY <2>1
    <2>5. early'.tag = FALSE /\ early'.user = FALSE
        BY <1>2, <2>3, <2>4
    <2> HIDE DEF R
    <2> QED
        BY <2>2, <2>3, <2>4, <2>5
<1> QED
    BY <1>4, <1>7, <1>8, <1>9, <1>10, <1>11 DEF Own

LEMMA TickStep ==
    ASSUME FlowInv, Tick
    PROVE  FlowInv'
<1> USE DEF FlowInv
<1>1. /\ UNCHANGED <<parent, trail, hasTag, hasUser, crumbPc, scopeOf, at, capture, early>>
      /\ now < MaxTime /\ now' = now + 1
    BY DEF Tick, scopeVars, crumbVars, captureVars
<1>2. Typed'
    BY <1>1 DEF Typed, FlowLimits
<1>3. MyChain' = MyChain
    BY <1>1 DEF MyChain
<1>4. Kept' /\ Within'
    BY <1>1, <1>2, <1>3, AsideStep
<1>5. TagIsOwn' /\ UserIsOwn'
    BY <1>1, AsideOwn
<1>6. Stored' /\ Respected' /\ Rooted' /\ FlowLimits'
    BY <1>1 DEF Stored, Respected, Rooted, FlowLimits
<1> QED
    BY <1>1, <1>2, <1>4, <1>5, <1>6 DEF Own, NoCapture, Nothing

LEMMA ClockStep ==
    ASSUME FlowInv, NEW c \in Crumbs, ReadClock(c)
    PROVE  FlowInv'
<1> USE DEF FlowInv
<1>1. /\ crumbPc[c] = "idle" /\ crumbPc' = [crumbPc EXCEPT ![c] = "timed"]
      /\ at' = [at EXCEPT ![c] = now]
      /\ UNCHANGED <<now, parent, trail, hasTag, hasUser, capture, early>>
    BY DEF ReadClock, scopeVars, captureVars
<1>2. PICK from \in Live(parent) : scopeOf' = [scopeOf EXCEPT ![c] = from]
    BY LiveIs DEF ReadClock
<1>3. Typed'
    BY <1>1, <1>2 DEF Typed
<1>4. \A d \in Crumbs : crumbPc[d] = "added" =>
         crumbPc'[d] = "added" /\ scopeOf'[d] = scopeOf[d] /\ at'[d] = at[d]
    BY <1>1, <1>2 DEF Typed
<1>5. MyChain' = MyChain
    BY <1>1 DEF MyChain
<1>6. Kept' /\ Within'
    BY <1>1, <1>3, <1>4, <1>5, AsideStep
<1>7. TagIsOwn' /\ UserIsOwn'
    BY <1>1, AsideOwn
<1>8. Stored'
    <2>1. \A s \in Everyone : Elements(trail[s]) \subseteq Crumbs
        BY DEF Typed, Elements
    <2> QED
        BY <1>1, <1>4, <2>1 DEF Stored
<1>9. Respected' /\ Rooted' /\ FlowLimits'
    <2>1. early.crumbs \subseteq Crumbs
        BY DEF Typed, Demands
    <2> QED
        BY <1>1, <1>4, <2>1 DEF Respected, Rooted, FlowLimits
<1> QED
    BY <1>1, <1>3, <1>6, <1>7, <1>8, <1>9 DEF Own, NoCapture, Nothing

\* The newest of a list.
LEMMA TrimFacts ==
    ASSUME Limit \in Nat \ {0}, NEW p \in Seq(Crumbs), Injective(p)
    PROVE  LET q == Trim(p)
           IN  /\ q \in Seq(Crumbs) /\ Len(q) <= Limit /\ Injective(q)
               /\ Elements(q) \subseteq Elements(p)
<1> DEFINE q == Trim(p)
           n == Len(p)
           m == n - Limit + 1
<1>1. n \in Nat /\ Limit \in Nat /\ \A i \in 1..n : p[i] \in Crumbs
    OBVIOUS
<1>2. CASE n <= Limit
    <2>1. q = p
        BY <1>1, <1>2 DEF Trim
    <2> HIDE DEF q
    <2> QED
        BY <1>2, <2>1 DEF q
<1>3. CASE n > Limit
    <2>1. q = SubSeq(p, m, n)
        BY <1>3 DEF Trim
    <2> HIDE DEF q, n
    <2>2. m \in Int /\ n \in Int /\ m >= 1 /\ m <= n /\ n - m + 1 = Limit
        BY <1>1, <1>3
    <2> HIDE DEF m
    <2>3. \A i \in m..n : p[i] \in Crumbs
        BY <1>1, <2>2
    <2>4. q \in Seq(Crumbs) /\ Len(q) = n - m + 1
        BY <2>1, <2>2, <2>3, SubSeqProperties
    <2>5. \A i \in 1..(n - m + 1) : q[i] = p[m + i - 1]
        BY <2>1, <2>2, <2>3, SubSeqProperties
    <2>6. \A i \in 1..Limit : q[i] = p[m + i - 1] /\ m + i - 1 \in 1..n
        BY <1>1, <2>2, <2>5
    <2>7. Len(q) = Limit
        BY <2>2, <2>4
    <2>8. Elements(q) \subseteq Elements(p)
        BY <2>6, <2>7 DEF Elements, n
    <2>9. Injective(q)
        <3> SUFFICES ASSUME NEW i \in 1..Limit, NEW j \in 1..Limit, q[i] = q[j] PROVE i = j
            BY <2>7 DEF Injective
        <3>1. m + i - 1 = m + j - 1
            BY <2>6 DEF Injective, n
        <3> QED
            BY <2>2, <3>1
    <2> QED
        BY <1>1, <2>4, <2>7, <2>8, <2>9 DEF q
<1> QED
    BY <1>1, <1>2, <1>3

LEMMA AddStep ==
    ASSUME FlowInv, NEW c \in Crumbs, AddBreadcrumb(c)
    PROVE  FlowInv'
<1> USE DEF FlowInv
<1> DEFINE home == scopeOf[c]
           p == Append(trail[home], c)
<1>1. /\ crumbPc[c] = "timed" /\ crumbPc' = [crumbPc EXCEPT ![c] = "added"]
      /\ trail' = [trail EXCEPT ![home] = Trim(p)]
      /\ UNCHANGED <<now, parent, hasTag, hasUser, scopeOf, at, capture, early>>
    BY DEF AddBreadcrumb, captureVars
<1>2. home \in Everyone /\ trail[home] \in Seq(Crumbs)
    BY LiveIn DEF Typed
<1>3. c \notin Elements(trail[home]) /\ Injective(trail[home])
    BY <1>1, <1>2 DEF Stored
<1>4. p \in Seq(Crumbs) /\ Injective(p) /\ Elements(p) = Elements(trail[home]) \cup {c}
    BY <1>2, <1>3, AppendNew
<1> DEFINE q == Trim(p)
<1>5. /\ q \in Seq(Crumbs) /\ Len(q) <= Limit /\ Injective(q)
      /\ Elements(q) \subseteq Elements(p)
    <2> HIDE DEF p
    <2> QED BY <1>4, TrimFacts DEF FlowLimits
<1> HIDE DEF p, q
<1>6. /\ trail' \in [Everyone -> Seq(Crumbs)] /\ trail'[home] = q
      /\ \A r \in Everyone \ {home} : trail'[r] = trail[r]
    BY <1>1, <1>2, <1>5 DEF Typed, q
<1>7. /\ crumbPc' \in [Crumbs -> {"idle", "timed", "added"}] /\ crumbPc'[c] = "added"
      /\ \A d \in Crumbs \ {c} : crumbPc'[d] = crumbPc[d]
    BY <1>1 DEF Typed
<1>8. Typed'
    BY <1>1, <1>6, <1>7 DEF Typed
<1>9. MyChain' = MyChain
    BY <1>1 DEF MyChain
<1>10. early.crumbs \subseteq Crumbs /\ c \notin early.crumbs
    BY <1>1 DEF Typed, Respected, Demands
<1>11. Kept' /\ Within'
    <2>1. \A r \in Everyone : early.crumbs \cap Elements(trail'[r]) \subseteq Elements(trail[r])
        BY <1>4, <1>5, <1>6, <1>10
    <2> QED
        BY <1>1, <1>7, <1>8, <1>9, <2>1, AsideStep
<1>12. TagIsOwn' /\ UserIsOwn'
    BY <1>1, AsideOwn
<1>13. Stored'
    <2> SUFFICES ASSUME NEW r \in Everyone
                 PROVE  /\ Injective(trail'[r]) /\ Len(trail'[r]) <= Limit
                        /\ \A d \in Elements(trail'[r]) : crumbPc'[d] = "added" /\ scopeOf'[d] = r
        BY DEF Stored
    <2>1. /\ Injective(trail[r]) /\ Len(trail[r]) <= Limit
          /\ \A d \in Elements(trail[r]) : crumbPc[d] = "added" /\ scopeOf[d] = r
        BY DEF Stored
    <2>2. Elements(trail[r]) \subseteq Crumbs
        BY DEF Typed, Elements
    <2>3. \A d \in Elements(trail[r]) : crumbPc'[d] = "added" /\ scopeOf'[d] = r
        BY <1>1, <1>7, <2>1, <2>2
    <2>4. CASE r = home
        <3>1. \A d \in Elements(q) : d = c \/ d \in Elements(trail[r])
            BY <1>4, <1>5, <2>4
        <3>2. scopeOf'[c] = r
            BY <1>1, <2>4
        <3> HIDE DEF home
        <3> QED
            BY <1>5, <1>6, <1>7, <2>3, <2>4, <3>1, <3>2
    <2>5. CASE r # home
        BY <1>6, <2>1, <2>3, <2>5
    <2> QED
        BY <2>4, <2>5
<1>14. Respected' /\ Rooted' /\ FlowLimits'
    BY <1>1, <1>7, <1>10 DEF Respected, Rooted, FlowLimits
<1> QED
    BY <1>1, <1>8, <1>11, <1>12, <1>13, <1>14 DEF Own, NoCapture, Nothing

-----------------------------------------------------------------------------
(* Steps of the capture.                                                    *)

LEMMA ReverseFacts ==
    ASSUME NEW S, NEW p \in Seq(S)
    PROVE  LET q == Reverse(p)
           IN  /\ q \in Seq(S) /\ Len(q) = Len(p) /\ Elements(q) = Elements(p)
               /\ Injective(p) => Injective(q)
               /\ Len(p) >= 1 => q[Len(q)] = p[1]
<1> DEFINE q == Reverse(p)
           n == Len(p)
<1>1. n \in Nat /\ \A i \in 1..n : p[i] \in S
    OBVIOUS
<1>2. \A i \in 1..n : n - i + 1 \in 1..n /\ n - (n - i + 1) + 1 = i
    <2> HIDE DEF n
    <2> QED BY <1>1
<1>3. q = [i \in 1..n |-> p[(n - i) + 1]]
    BY DEF Reverse
<1> HIDE DEF q
<1>4. q \in Seq(S) /\ Len(q) = n /\ \A i \in 1..n : q[i] = p[n - i + 1]
    <2>1. \A i \in 1..n : p[(n - i) + 1] \in S
        BY <1>1, <1>2
    <2> HIDE DEF n
    <2> QED BY <1>1, <1>3, <2>1
<1>5. Elements(q) \subseteq Elements(p)
    BY <1>2, <1>4 DEF Elements
<1>6. ASSUME NEW x \in Elements(p) PROVE x \in Elements(q)
    <2>1. PICK i \in 1..n : x = p[i]
        BY DEF Elements
    <2>2. n - i + 1 \in 1..n /\ n - (n - i + 1) + 1 = i
        BY <1>2
    <2> DEFINE j == n - i + 1
    <2>3. j \in 1..n /\ n - j + 1 = i
        BY <2>2
    <2> HIDE DEF j, n
    <2>4. q[j] = x
        BY <1>4, <2>1, <2>3
    <2> QED
        BY <1>4, <2>3, <2>4 DEF Elements
<1>7. ASSUME Injective(p) PROVE Injective(q)
    <2> SUFFICES ASSUME NEW i \in 1..n, NEW j \in 1..n, q[i] = q[j] PROVE i = j
        BY <1>4 DEF Injective
    <2>1. p[n - i + 1] = p[n - j + 1]
        BY <1>4
    <2>2. n - i + 1 = n - j + 1
        BY <1>2, <1>7, <2>1 DEF Injective
    <2> HIDE DEF n
    <2> QED
        BY <1>1, <2>2
<1>8. n >= 1 => q[n] = p[1]
    <2>1. n >= 1 => n \in 1..n /\ n - n + 1 = 1
        BY <1>1
    <2> HIDE DEF n
    <2> QED BY <1>4, <2>1
<1> QED
    BY <1>4, <1>5, <1>6, <1>7, <1>8 DEF q

\* What a step of the capture leaves as it is.
LEMMA CaptureFrame ==
    ASSUME FlowInv, UNCHANGED <<now, parent, trail, hasTag, hasUser, crumbPc, scopeOf, at>>,
           capture' \in Captures(parent),
           early' \in Demands,
           capture'.pc # "idle", Respected', Kept', Own'
    PROVE  FlowInv'
<1> USE DEF FlowInv
<1>1. Typed'
    BY DEF Typed
<1>2. Stored' /\ Rooted' /\ FlowLimits'
    BY DEF Stored, Rooted, FlowLimits
<1> QED
    BY <1>1, <1>2

LEMMA BeginStep ==
    ASSUME FlowInv, NEW s \in Everyone, BeginCapture(s)
    PROVE  FlowInv'
<1> DEFINE x == ChainOf(parent, s)
           y == Inherited(x)
<1>1. /\ s \in Live(parent)
      /\ UNCHANGED <<now, parent, trail, hasTag, hasUser, crumbPc, scopeOf, at>>
    BY LiveIs DEF BeginCapture, scopeVars, crumbVars
<1>2. capture' = [pc |-> "breadcrumbs", scope |-> s, left |-> y, lists |-> <<>>,
                  tag |-> None, user |-> None]
    <2>1. capture' = [NoCapture EXCEPT !.pc = "breadcrumbs", !.scope = s,
                                            !.left = Inherited(Chain(s))]
        BY DEF BeginCapture
    <2>2. Chain(s) = x
        BY ChainIs
    <2> HIDE DEF x
    <2> QED
        BY <2>1, <2>2 DEF NoCapture
<1>3. early' = [crumbs |-> UNION {Steps(r) : r \in Range(x)},
                tag |-> s \in hasTag, user |-> s \in hasUser]
    <2>1. Chain(s) = x
        BY ChainIs
    <2> HIDE DEF x
    <2> QED
        BY <2>1 DEF BeginCapture
<1>4. /\ x \in Seq(Live(parent)) /\ Len(x) >= 1 /\ x[1] = s
      /\ y \in Seq(Live(parent)) /\ Injective(y) /\ Elements(y) \subseteq Elements(x)
      /\ Global \in Elements(y) => s = Global
    BY <1>1, ChainHere DEF FlowInv
<1>5. MyChain' = x /\ MyScopes' = y
    BY <1>1, <1>2 DEF MyChain, MyScopes
<1> HIDE DEF x, y
<1>6. y \in Seq(Everyone)
    BY <1>4, LiveIn
<1>7. \A c \in early'.crumbs : c \in Crumbs /\ crumbPc[c] = "added"
    <2> SUFFICES ASSUME NEW r \in Range(x), NEW c \in Steps(r)
                 PROVE  c \in Crumbs /\ crumbPc[c] = "added"
        BY <1>3
    <2>1. r \in Everyone
        BY <1>4, LiveIn DEF Range
    <2>2. trail[r] \in Seq(Crumbs)
        BY <2>1 DEF FlowInv, Typed
    <2>3. DOMAIN trail[r] = 1..Len(trail[r])
        BY <2>2
    <2>4. c \in Crumbs /\ c \in Elements(trail[r])
        BY <2>3 DEF Steps, Elements
    <2> QED
        BY <2>1, <2>4 DEF FlowInv, Stored
<1>8. /\ early' \in Demands
      /\ early'.tag = (s \in hasTag) /\ early'.user = (s \in hasUser)
    BY <1>3, <1>7 DEF Demands
<1>9. capture' \in Captures(parent)
    <2>1. <<>> \in Seq(Seq(Crumbs))
        OBVIOUS
    <2> QED
        BY <1>1, <1>2, <1>6, <2>1 DEF Captures, Demands
<1>10. /\ capture'.pc = "breadcrumbs" /\ capture'.scope = s /\ capture'.left = y
       /\ capture'.lists = <<>> /\ capture'.tag = None /\ capture'.user = None
    BY <1>2
<1>11. Respected'
    BY <1>1, <1>7, <1>8, <1>10 DEF Respected
<1>12. Kept'
    <2>1. Len(<<>>) = 0 /\ 1..0 = {} /\ Len(y) \in Nat
        BY <1>6
    <2>2. \A k \in 1..Len(y) : y[k] = y[0 + k]
        BY <2>1
    <2> QED
        BY <1>5, <1>10, <2>1, <2>2 DEF Kept, Collecting, Collected
<1>13. Own'
    BY <1>10 DEF Own, Within, TagIsOwn, UserIsOwn
<1> QED
    BY <1>1, <1>8, <1>9, <1>10, <1>11, <1>12, <1>13, CaptureFrame

\* One more list.
LEMMA ReadStep ==
    ASSUME FlowInv, ReadBreadcrumbs
    PROVE  FlowInv'
<1> DEFINE lists == capture.lists
           left == capture.left
           r == left[1]
           new == Reverse(trail[r])
           n == Len(lists) + 1
<1>1. /\ capture.pc = "breadcrumbs" /\ left # <<>>
      /\ capture' = [capture EXCEPT !.left = Tail(@), !.lists = Append(@, new)]
      /\ UNCHANGED <<now, parent, trail, hasTag, hasUser, crumbPc, scopeOf, at, early>>
    BY DEF ReadBreadcrumbs, scopeVars, crumbVars
<1>2. /\ lists \in Seq(Seq(Crumbs)) /\ left \in Seq(Everyone)
      /\ trail \in [Everyone -> Seq(Crumbs)]
    BY DEF FlowInv, Typed, Captures
<1>3. /\ r \in Everyone /\ Len(left) \in Nat /\ Len(left) >= 1 /\ Tail(left) \in Seq(Everyone)
      /\ Len(Tail(left)) = Len(left) - 1
      /\ \A k \in 1..(Len(left) - 1) : Tail(left)[k] = left[k + 1]
    BY <1>1, <1>2
<1>4. trail[r] \in Seq(Crumbs)
    BY <1>2, <1>3
<1>5. /\ new \in Seq(Crumbs) /\ Len(new) = Len(trail[r]) /\ Elements(new) = Elements(trail[r])
      /\ Injective(trail[r]) => Injective(new)
    <2> HIDE DEF r
    <2> QED BY <1>4, ReverseFacts
<1> HIDE DEF new
<1>6. /\ Append(lists, new) \in Seq(Seq(Crumbs)) /\ Len(Append(lists, new)) = n
      /\ Len(lists) \in Nat /\ n \in Nat /\ Append(lists, new)[n] = new
      /\ \A k \in 1..Len(lists) : Append(lists, new)[k] = lists[k]
    BY <1>2, <1>5
<1>7. /\ capture' \in Captures(parent)
      /\ capture'.pc = "breadcrumbs" /\ capture'.scope = capture.scope
      /\ capture'.left = Tail(left) /\ capture'.lists = Append(lists, new)
      /\ capture'.tag = capture.tag /\ capture'.user = capture.user
    BY <1>1, <1>3, <1>6 DEF FlowInv, Typed, Captures
<1>8. MyChain' = MyChain /\ MyScopes' = MyScopes
    BY <1>1, <1>7 DEF MyChain, MyScopes
<1>9. /\ Len(lists) + Len(left) = Len(MyScopes)
      /\ \A k \in 1..Len(left) : left[k] = MyScopes[Len(lists) + k]
      /\ \A k \in 1..Len(lists) :
            /\ Injective(lists[k]) /\ Len(lists[k]) <= Limit
            /\ \A c \in Elements(lists[k]) : crumbPc[c] = "added" /\ scopeOf[c] = MyScopes[k]
            /\ early.crumbs \cap Elements(trail[MyScopes[k]]) \subseteq Elements(lists[k])
    BY <1>1 DEF FlowInv, Kept, Collecting
<1>10. r = MyScopes[n]
    <2>1. 1 \in 1..Len(left)
        BY <1>3
    <2> QED
        BY <1>9, <2>1
<1>11. /\ Injective(new) /\ Len(new) <= Limit
       /\ \A c \in Elements(new) : crumbPc[c] = "added" /\ scopeOf[c] = MyScopes[n]
       /\ early.crumbs \cap Elements(trail[MyScopes[n]]) \subseteq Elements(new)
    <2>1. /\ Injective(trail[r]) /\ Len(trail[r]) <= Limit
          /\ \A c \in Elements(trail[r]) : crumbPc[c] = "added" /\ scopeOf[c] = r
        BY <1>3 DEF FlowInv, Stored
    <2> HIDE DEF r
    <2> QED
        BY <1>5, <1>10, <2>1
<1>12. Kept'
    <2> DEFINE all == Append(lists, new)
               rest == Tail(left)
    <2>1. n + Len(rest) = Len(MyScopes)
        <3>1. \A a, b, c \in Nat : b >= 1 /\ c = b - 1 => (a + 1) + c = a + b
            OBVIOUS
        <3>2. Len(rest) = Len(left) - 1 /\ Len(rest) \in Nat /\ Len(lists) \in Nat
            BY <1>3, <1>6
        <3> QED
            BY <1>3, <1>9, <3>1, <3>2
    <2>2. ASSUME NEW k \in 1..Len(rest) PROVE rest[k] = MyScopes[n + k]
        <3>1. k \in 1..(Len(left) - 1) /\ k + 1 \in 1..Len(left) /\ Len(lists) + (k + 1) = n + k
            <4>1. \A a, b \in Nat : \A i \in 1..(b - 1) :
                     i + 1 \in 1..b /\ a + (i + 1) = (a + 1) + i
                OBVIOUS
            <4>2. k \in 1..(Len(left) - 1) /\ Len(left) \in Nat /\ Len(lists) \in Nat
                BY <1>3, <1>6
            <4> QED
                BY <4>1, <4>2
        <3>2. rest[k] = left[k + 1]
            BY <1>3, <3>1
        <3>3. left[k + 1] = MyScopes[Len(lists) + (k + 1)]
            BY <1>9, <3>1
        <3> QED
            BY <3>1, <3>2, <3>3
    <2>3. ASSUME NEW k \in 1..n
          PROVE  /\ Injective(all[k]) /\ Len(all[k]) <= Limit
                 /\ \A c \in Elements(all[k]) : crumbPc[c] = "added" /\ scopeOf[c] = MyScopes[k]
                 /\ early.crumbs \cap Elements(trail[MyScopes[k]]) \subseteq Elements(all[k])
        <3>1. CASE k = n
            BY <1>6, <1>11, <3>1
        <3>2. CASE k # n
            <4>1. k \in 1..Len(lists)
                BY <1>6, <3>2
            <4>2. all[k] = lists[k]
                BY <1>6, <4>1
            <4> HIDE DEF all
            <4> QED
                BY <1>9, <4>1, <4>2
        <3> QED
            BY <3>1, <3>2
    <2>4. Len(all) = n
        BY <1>6
    <2> HIDE DEF all, rest, n
    <2>5. capture'.pc = "breadcrumbs" /\ capture'.lists = all /\ capture'.left = rest
        BY <1>7 DEF all, rest
    <2>6. UNCHANGED <<trail, crumbPc, scopeOf, early>>
        BY <1>1
    <2> QED
        BY <2>6, <1>8, <2>1, <2>2, <2>3, <2>4, <2>5 DEF Kept, Collecting, Collected
<1>13. Own'
    BY <1>1, <1>7, <1>8 DEF FlowInv, Own, Within, TagIsOwn, UserIsOwn
<1>14. Respected'
    BY <1>1, <1>7 DEF FlowInv, Respected
<1>15. early' \in Demands
    BY <1>1 DEF FlowInv, Typed
<1> QED
    BY <1>1, <1>7, <1>12, <1>13, <1>14, <1>15, CaptureFrame

\* The lists become the event's, which is full of the newest if it lacks one.
LEMMA MergeStep ==
    ASSUME FlowInv, MergeBreadcrumbs
    PROVE  FlowInv'
<1> DEFINE lists == capture.lists
           M == FoldRight(Merge, lists, <<>>)
           T == UNION {Elements(lists[k]) : k \in 1..Len(lists)}
           back == Reverse(MyChain)
<1>1. /\ capture.pc = "breadcrumbs" /\ capture.left = <<>>
      /\ UNCHANGED <<now, parent, trail, hasTag, hasUser, crumbPc, scopeOf, at, early>>
    BY DEF MergeBreadcrumbs, scopeVars, crumbVars
<1>2. capture' = [capture EXCEPT !.pc = "tags", !.left = back, !.lists = <<M>>]
    <2>1. Chain(capture.scope) = MyChain
        BY ChainIs DEF MyChain
    <2> QED
        BY <2>1 DEF MergeBreadcrumbs
<1>3. lists \in Seq(Seq(Crumbs)) /\ Len(lists) \in Nat /\ capture.scope \in Live(parent)
    BY DEF FlowInv, Typed, Captures
<1>4. /\ Len(lists) = Len(MyScopes)
      /\ \A k \in 1..Len(lists) :
            /\ Injective(lists[k]) /\ Len(lists[k]) <= Limit
            /\ \A c \in Elements(lists[k]) : crumbPc[c] = "added" /\ scopeOf[c] = MyScopes[k]
            /\ early.crumbs \cap Elements(trail[MyScopes[k]]) \subseteq Elements(lists[k])
    <2>1. Len(<<>>) = 0
        OBVIOUS
    <2>2. Len(lists) + 0 = Len(MyScopes)
        BY <1>1, <2>1 DEF FlowInv, Kept, Collecting
    <2> QED
        BY <1>1, <1>3, <2>2 DEF FlowInv, Kept, Collecting
<1>5. /\ MyChain \in Seq(Live(parent)) /\ Len(MyChain) >= 1 /\ MyChain[1] = capture.scope
      /\ MyScopes \in Seq(Live(parent)) /\ Injective(MyScopes)
    <2>1. FlowLimits /\ Rooted
        BY DEF FlowInv
    <2> QED
        BY <1>3, <2>1, ChainHere DEF MyScopes, MyChain
<1>6. Good(M, T)
    <2>1. Times /\ Limit \in Nat \ {0}
        BY DEF FlowInv, Typed, FlowLimits, Times
    <2>2. ASSUME NEW i \in 1..Len(lists), NEW j \in 1..Len(lists), i # j
          PROVE  Elements(lists[i]) \cap Elements(lists[j]) = {}
        <3>1. MyScopes[i] # MyScopes[j]
            BY <1>4, <1>5, <2>2 DEF Injective
        <3> QED
            BY <1>4, <3>1
    <2>3. \A i \in 1..Len(lists) : Injective(lists[i]) /\ Len(lists[i]) <= Limit
        BY <1>4
    <2> HIDE DEF lists
    <2> QED
        BY <1>3, <2>1, <2>2, <2>3, FoldGood DEF M, T
<1>7. back \in Seq(Live(parent)) /\ Elements(back) = Elements(MyChain)
      /\ back # <<>> /\ back[Len(back)] = capture.scope
    <2>1. /\ back \in Seq(Live(parent)) /\ Len(back) = Len(MyChain)
          /\ Elements(back) = Elements(MyChain)
        BY <1>5, ReverseFacts
    <2>2. back[Len(back)] = MyChain[1]
        BY <1>5, ReverseFacts
    <2> HIDE DEF back
    <2> QED
        BY <1>5, <2>1, <2>2
<1> HIDE DEF back, M
<1>8. back \in Seq(Everyone)
    BY <1>7, LiveIn
<1>9. /\ M \in Seq(Crumbs) /\ Injective(M) /\ Len(M) <= Limit /\ Elements(M) \subseteq T
      /\ \A c \in T \ Elements(M) : Len(M) = Limit /\ \A d \in Elements(M) : at[d] >= at[c]
    BY <1>6 DEF Good
<1>10. <<M>> \in Seq(Seq(Crumbs)) /\ Len(<<M>>) = 1 /\ <<M>>[1] = M
    BY <1>9
<1>11. /\ capture' \in Captures(parent)
      /\ capture'.pc = "tags" /\ capture'.scope = capture.scope
      /\ capture'.left = back /\ capture'.lists = <<M>>
      /\ capture'.tag = capture.tag /\ capture'.user = capture.user
    BY <1>2, <1>8, <1>10 DEF FlowInv, Typed, Captures
<1>12. MyChain' = MyChain /\ MyScopes' = MyScopes
    BY <1>1, <1>11 DEF MyChain, MyScopes
<1>13. \A c \in T : crumbPc[c] = "added" /\ scopeOf[c] \in Elements(MyScopes)
    BY <1>4 DEF Elements
<1>14. ASSUME NEW s \in Elements(MyScopes), NEW c \in early.crumbs \cap Elements(trail[s])
       PROVE  c \in T
    <2>1. PICK k \in 1..Len(lists) : s = MyScopes[k]
        BY <1>4 DEF Elements
    <2> QED
        BY <1>4, <2>1
<1> HIDE DEF T
<1>15. Kept'
    <2>1. UNCHANGED <<trail, crumbPc, scopeOf, at, early>>
        BY <1>1
    <2>2. \A c \in Elements(M) : crumbPc[c] = "added" /\ scopeOf[c] \in Elements(MyScopes)
        BY <1>9, <1>13
    <2>3. \A s \in Elements(MyScopes) :
             \A c \in (early.crumbs \cap Elements(trail[s])) \ Elements(M) :
             Len(M) = Limit /\ \A d \in Elements(M) : at[d] >= at[c]
        BY <1>9, <1>14
    <2>4. capture'.pc = "tags" /\ capture'.lists[1] = M /\ Len(capture'.lists) = 1
        BY <1>10, <1>11
    <2> QED
        BY <2>1, <2>2, <2>3, <2>4, <1>9, <1>12 DEF Kept, Collecting, Collected
<1>16. Own'
    <2>1. early' = early
        BY <1>1
    <2> QED
        BY <2>1, <1>7, <1>11, <1>12 DEF FlowInv, Own, Within, TagIsOwn, UserIsOwn
<1>17. Respected'
    BY <1>1, <1>11 DEF FlowInv, Respected
<1>18. early' \in Demands
    BY <1>1 DEF FlowInv, Typed
<1> QED
    BY <1>1, <1>11, <1>15, <1>16, <1>17, <1>18, CaptureFrame

\* The list of the event is read no more.
LEMMA CollectedFrame ==
    ASSUME FlowInv, UNCHANGED <<now, parent, trail, hasTag, hasUser, crumbPc, scopeOf, at, early>>,
           capture.pc \in {"tags", "user"}, capture'.pc \in {"tags", "user", "done"},
           capture'.scope = capture.scope, capture'.lists = capture.lists,
           capture' \in Captures(parent),
           Own'
    PROVE  FlowInv'
<1>1. MyChain' = MyChain /\ MyScopes' = MyScopes
    BY DEF MyChain, MyScopes
<1>2. Kept'
    BY <1>1 DEF FlowInv, Kept, Collecting, Collected
<1>3. Respected'
    BY DEF FlowInv, Respected
<1>4. early' \in Demands
    BY DEF FlowInv, Typed
<1> QED
    BY <1>2, <1>3, <1>4, CaptureFrame

\* The next of a sequence that is not empty.
LEMMA NextOf ==
    ASSUME NEW S, NEW p \in Seq(S), p # <<>>
    PROVE  /\ p[1] \in S /\ p[1] \in Elements(p) /\ Head(p) = p[1]
           /\ Tail(p) \in Seq(S) /\ Elements(Tail(p)) \subseteq Elements(p)
           /\ Tail(p) = <<>> => p[Len(p)] = p[1]
           /\ Tail(p) # <<>> => Tail(p)[Len(Tail(p))] = p[Len(p)]
<1>1. /\ Len(p) \in Nat /\ Len(p) >= 1 /\ Tail(p) \in Seq(S) /\ Len(Tail(p)) = Len(p) - 1
      /\ \A k \in 1..(Len(p) - 1) : Tail(p)[k] = p[k + 1]
      /\ 1 \in 1..Len(p) /\ p[1] \in S /\ Head(p) = p[1]
    OBVIOUS
<1> DEFINE n == Len(p)
           q == Tail(p)
<1>2. /\ n \in Nat /\ n >= 1 /\ Len(q) = n - 1
      /\ \A k \in 1..(n - 1) : q[k] = p[k + 1] /\ k + 1 \in 1..n
    BY <1>1
<1>3. Elements(q) \subseteq Elements(p)
    BY <1>2 DEF Elements
<1>4. q = <<>> => Len(q) = 0
    <2>1. Len(<<>>) = 0
        OBVIOUS
    <2> HIDE DEF q
    <2> QED BY <2>1
<1>5. q # <<>> => Len(q) >= 1
    BY <1>1
<1> HIDE DEF n, q
<1>6. q = <<>> => n = 1
    BY <1>2, <1>4
<1>7. q # <<>> => n - 1 \in 1..(n - 1) /\ (n - 1) + 1 = n
    BY <1>2, <1>5
<1>8. q # <<>> => q[Len(q)] = p[n]
    BY <1>2, <1>7
<1> QED
    BY <1>1, <1>3, <1>6, <1>8 DEF Elements, n, q

LEMMA TagsStep ==
    ASSUME FlowInv, ReadTags
    PROVE  FlowInv'
<1> DEFINE left == capture.left
           r == left[1]
<1>1. /\ capture.pc = "tags" /\ left # <<>>
      /\ UNCHANGED <<now, parent, trail, hasTag, hasUser, crumbPc, scopeOf, at, early>>
      /\ left \in Seq(Everyone)
    BY DEF ReadTags, scopeVars, crumbVars, FlowInv, Typed, Captures, Demands
<1>2. /\ r \in Everyone /\ r \in Elements(left) /\ Head(left) = r
      /\ Tail(left) \in Seq(Everyone) /\ Elements(Tail(left)) \subseteq Elements(left)
      /\ Tail(left) = <<>> => left[Len(left)] = r
      /\ Tail(left) # <<>> => Tail(left)[Len(Tail(left))] = left[Len(left)]
    <2> HIDE DEF left
    <2> QED BY <1>1, NextOf
<1>3. capture' = [capture EXCEPT !.left = Tail(left),
                                 !.tag = IF r \in hasTag THEN r ELSE capture.tag]
    BY <1>2 DEF ReadTags
<1>4. /\ capture' \in Captures(parent)
      /\ capture'.pc = "tags" /\ capture'.scope = capture.scope /\ capture'.lists = capture.lists
      /\ capture'.left = Tail(left) /\ capture'.user = capture.user
      /\ capture'.tag = IF r \in hasTag THEN r ELSE capture.tag
    BY <1>1, <1>2, <1>3 DEF FlowInv, Typed, Captures
<1>5. MyChain' = MyChain
    BY <1>1, <1>4 DEF MyChain
<1>6. early.tag => capture.scope \in hasTag /\ left[Len(left)] = capture.scope
    BY <1>1 DEF FlowInv, Respected, Own, TagIsOwn
<1>7. Own'
    <2>1. Within'
        BY <1>1, <1>2, <1>4, <1>5 DEF FlowInv, Own, Within
    <2>2. TagIsOwn'
        BY <1>1, <1>2, <1>4, <1>6 DEF TagIsOwn
    <2>3. UserIsOwn'
        BY <1>4 DEF UserIsOwn
    <2> QED
        BY <2>1, <2>2, <2>3 DEF Own
<1> QED
    BY <1>1, <1>4, <1>7, CollectedFrame

LEMMA BeginUserStep ==
    ASSUME FlowInv, BeginUser
    PROVE  FlowInv'
<1>1. /\ capture.pc = "tags" /\ capture.left = <<>>
      /\ UNCHANGED <<now, parent, trail, hasTag, hasUser, crumbPc, scopeOf, at, early>>
    BY DEF BeginUser, scopeVars, crumbVars
<1>2. capture' = [capture EXCEPT !.pc = "user", !.left = MyChain]
    <2>1. Chain(capture.scope) = MyChain
        BY ChainIs DEF MyChain
    <2> QED
        BY <2>1 DEF BeginUser
<1>3. MyChain \in Seq(Live(parent)) /\ Len(MyChain) >= 1 /\ MyChain[1] = capture.scope
    <2>1. capture.scope \in Live(parent) /\ FlowLimits /\ Rooted
        BY DEF FlowInv, Typed, Captures
    <2> QED
        BY <2>1, ChainHere DEF MyChain
<1>4. MyChain \in Seq(Everyone) /\ MyChain # <<>>
    BY <1>3, LiveIn
<1>5. /\ capture' \in Captures(parent)
      /\ capture'.pc = "user" /\ capture'.scope = capture.scope /\ capture'.lists = capture.lists
      /\ capture'.left = MyChain /\ capture'.user = capture.user /\ capture'.tag = capture.tag
    BY <1>2, <1>4 DEF FlowInv, Typed, Captures
<1>6. MyChain' = MyChain
    BY <1>1, <1>5 DEF MyChain
<1>7. Own'
    BY <1>1, <1>3, <1>4, <1>5, <1>6 DEF FlowInv, Own, Within, TagIsOwn, UserIsOwn
<1> QED
    BY <1>1, <1>5, <1>7, CollectedFrame

LEMMA UserStep ==
    ASSUME FlowInv, ReadUser
    PROVE  FlowInv'
<1> DEFINE left == capture.left
           r == left[1]
           rest == IF r \in hasUser THEN <<>> ELSE Tail(left)
<1>1. /\ capture.pc = "user" /\ left # <<>>
      /\ UNCHANGED <<now, parent, trail, hasTag, hasUser, crumbPc, scopeOf, at, early>>
      /\ left \in Seq(Everyone)
    BY DEF ReadUser, scopeVars, crumbVars, FlowInv, Typed, Captures, Demands
<1>2. /\ r \in Everyone /\ r \in Elements(left) /\ Head(left) = r
      /\ Tail(left) \in Seq(Everyone) /\ Elements(Tail(left)) \subseteq Elements(left)
    <2> HIDE DEF left
    <2> QED BY <1>1, NextOf
<1>3. rest \in Seq(Everyone) /\ Elements(rest) \subseteq Elements(left)
      /\ (r \in hasUser => rest = <<>>)
    <2>1. <<>> \in Seq(Everyone) /\ Elements(<<>>) = {}
        BY DEF Elements
    <2> QED
        BY <1>2, <2>1
<1>4. capture' = IF r \in hasUser THEN [capture EXCEPT !.left = <<>>, !.user = r]
                 ELSE [capture EXCEPT !.left = Tail(left)]
    BY <1>2 DEF ReadUser
<1>5. /\ capture' \in Captures(parent)
      /\ capture'.pc = "user" /\ capture'.scope = capture.scope /\ capture'.lists = capture.lists
      /\ capture'.left = rest /\ capture'.tag = capture.tag
      /\ capture'.user = IF r \in hasUser THEN r ELSE capture.user
    BY <1>1, <1>2, <1>3, <1>4 DEF FlowInv, Typed, Captures
<1>6. MyChain' = MyChain
    BY <1>1, <1>5 DEF MyChain
<1>7. early.user => capture.scope \in hasUser /\ r = capture.scope
    BY <1>1 DEF FlowInv, Respected, Own, UserIsOwn
<1> HIDE DEF rest
<1>8. Own'
    <2>1. Within'
        BY <1>1, <1>2, <1>3, <1>5, <1>6 DEF FlowInv, Own, Within
    <2>2. TagIsOwn'
        BY <1>1, <1>5 DEF FlowInv, Own, TagIsOwn
    <2>3. UserIsOwn'
        BY <1>1, <1>3, <1>5, <1>7 DEF UserIsOwn
    <2> QED
        BY <2>1, <2>2, <2>3 DEF Own
<1> QED
    BY <1>1, <1>5, <1>8, CollectedFrame

LEMMA EndStep ==
    ASSUME FlowInv, EndCapture
    PROVE  FlowInv'
<1>1. /\ capture.pc = "user" /\ capture.left = <<>>
      /\ UNCHANGED <<now, parent, trail, hasTag, hasUser, crumbPc, scopeOf, at, early>>
      /\ capture' = [capture EXCEPT !.pc = "done"]
    BY DEF EndCapture, scopeVars, crumbVars
<1>2. /\ capture' \in Captures(parent)
      /\ capture'.pc = "done" /\ capture'.scope = capture.scope /\ capture'.lists = capture.lists
      /\ capture'.left = capture.left /\ capture'.user = capture.user /\ capture'.tag = capture.tag
    BY <1>1 DEF FlowInv, Typed, Captures
<1>3. MyChain' = MyChain
    BY <1>1, <1>2 DEF MyChain
<1>4. Own'
    BY <1>1, <1>2, <1>3 DEF FlowInv, Own, Within, TagIsOwn, UserIsOwn
<1> QED
    BY <1>1, <1>2, <1>4, CollectedFrame

\* Every step of Scope keeps the invariant.
LEMMA StepFlow == FlowInv /\ [ScopeNext]_(eventVars) => FlowInv'
<1> SUFFICES ASSUME FlowInv, [ScopeNext]_(eventVars) PROVE FlowInv'
    OBVIOUS
<1>1. CASE UNCHANGED eventVars
    <2>1. UNCHANGED <<now, parent, trail, hasTag, hasUser, crumbPc, scopeOf, at, capture, early>>
        BY <1>1 DEF eventVars
    <2>2. Typed' /\ MyChain' = MyChain
        BY <2>1 DEF FlowInv, Typed, MyChain
    <2>3. Kept' /\ Within'
        BY <2>1, <2>2, AsideStep
    <2>4. TagIsOwn' /\ UserIsOwn'
        BY <2>1, AsideOwn
    <2> QED
        BY <2>1, <2>2, <2>3, <2>4
           DEF FlowInv, Stored, Rooted, Respected, FlowLimits, Own, NoCapture, Nothing
<1>2. ASSUME NEW s \in Everyone,
             \/ ContextWithScope(s) \/ Clear(s)
             \/ SetTag(s) \/ SetUser(s) \/ BeginCapture(s)
      PROVE  FlowInv'
    BY <1>2, ContextStep, ClearStep, SettingStep, BeginStep
<1>3. ASSUME NEW c \in Crumbs, ReadClock(c) \/ AddBreadcrumb(c) PROVE FlowInv'
    BY <1>3, ClockStep, AddStep
<1>4. CASE Capturing
    BY <1>4, ReadStep, MergeStep, TagsStep, BeginUserStep, UserStep, EndStep DEF Capturing
<1>5. CASE Tick
    BY <1>5, TickStep
<1> QED
    BY <1>1, <1>2, <1>3, <1>4, <1>5, LiveIs DEF ScopeNext

LEMMA FlowInductive == ScopeSpec => []FlowInv
BY FlowHasLimits, InitFlow, StepFlow, PTL DEF ScopeSpec

\* An event carries nothing of another flow, and all that its own scope says: tag and user
\* come from the chain of its scope, its own before the inherited ones, and its breadcrumbs
\* from there as well, those of the global scope only into its own events.
THEOREM EventsOfTheFlow == ScopeSpec => []FlowIsItsOwn
<1>1. ASSUME FlowInv PROVE FlowIsItsOwn
    <2> SUFFICES ASSUME capture.pc = "done" PROVE NothingLeaks /\ OwnContextWins
        BY DEF FlowIsItsOwn, NothingLeaks, OwnContextWins, Finished
    <2> USE <1>1
    <2> DEFINE M == capture.lists[1]
    <2>1. Chain(capture.scope) = MyChain
        BY ChainIs DEF MyChain
    <2>2. Event.tag = capture.tag /\ Event.user = capture.user /\ Event.crumbs = M
        BY DEF Event, Finished
    <2>3. /\ MyChain \in Seq(Live(parent)) /\ Elements(MyScopes) \subseteq Elements(MyChain)
          /\ Global \in Elements(MyScopes) => capture.scope = Global
        <3>1. capture.scope \in Live(parent) /\ FlowLimits /\ Rooted
            BY DEF FlowInv, Typed, Captures
        <3> QED
            BY <3>1, ChainHere DEF MyChain, MyScopes
    <2>4. Range(MyChain) = Elements(MyChain)
        <3>1. DOMAIN MyChain = 1..Len(MyChain)
            BY <2>3
        <3> QED
            BY <3>1 DEF Range, Elements
    <2>5. M \in Seq(Crumbs) /\ \A c \in Elements(M) : scopeOf[c] \in Elements(MyScopes)
        <3>1. Len(capture.lists) = 1 /\ \A c \in Elements(M) : scopeOf[c] \in Elements(MyScopes)
            BY DEF FlowInv, Kept, Collected
        <3>2. capture.lists \in Seq(Seq(Crumbs))
            BY DEF FlowInv, Typed, Captures
        <3> QED
            BY <3>1, <3>2
    <2>6. Range(M) = Elements(M)
        <3>1. DOMAIN M = 1..Len(M)
            BY <2>5
        <3> QED
            BY <3>1 DEF Range, Elements
    <2> HIDE DEF M
    <2>7. NothingLeaks
        <3>1. {capture.tag, capture.user} \subseteq Elements(MyChain) \cup {None}
            BY DEF FlowInv, Own, Within
        <3>2. \A c \in Elements(M) :
                 scopeOf[c] \in Elements(MyChain) /\ (scopeOf[c] = Global => capture.scope = Global)
            BY <2>3, <2>5
        <3> QED
            BY <2>1, <2>2, <2>4, <2>6, <3>1, <3>2 DEF NothingLeaks
    <2>8. OwnContextWins
        BY <2>2 DEF OwnContextWins, FlowInv, Own, TagIsOwn, UserIsOwn
    <2> QED
        BY <2>7, <2>8
<1> QED
    BY <1>1, FlowInductive, PTL

\* No breadcrumb of the event's scopes gets lost but for want of room: one that was there
\* before the capture and still is after it is in the event, or the event is full of ones
\* that are no older; none is in it twice.
THEOREM EventsAreComplete == ScopeSpec => []StepsAreKept
<1>1. ASSUME FlowInv PROVE ScopeTypeOK
    BY <1>1, LiveIs, LiveIn DEF FlowInv, Typed, Stored, ScopeTypeOK, Captures, Demands
<1>2. ASSUME FlowInv, Finished
      PROVE  /\ \A s \in Range(Inherited(Chain(capture.scope))) :
                   \A c \in (early.crumbs \cap Steps(s)) \ Range(Event.crumbs) :
                      /\ Len(Event.crumbs) = Limit
                      /\ \A d \in Range(Event.crumbs) : at[d] >= at[c]
             /\ IsInjective(Event.crumbs) /\ Len(Event.crumbs) <= Limit
    <2> USE <1>2
    <2> DEFINE M == capture.lists[1]
    <2>1. Inherited(Chain(capture.scope)) = MyScopes
        BY ChainIs DEF MyChain, MyScopes
    <2>2. Event.crumbs = M
        BY DEF Event
    <2>3. MyScopes \in Seq(Live(parent))
        <3>1. capture.scope \in Live(parent) /\ FlowLimits /\ Rooted
            BY DEF FlowInv, Typed, Captures
        <3> QED
            BY <3>1, ChainHere DEF MyChain, MyScopes
    <2>4. Range(MyScopes) = Elements(MyScopes)
        <3>1. DOMAIN MyScopes = 1..Len(MyScopes)
            BY <2>3
        <3> QED
            BY <3>1 DEF Range, Elements
    <2>5. /\ Len(capture.lists) = 1 /\ Injective(M) /\ Len(M) <= Limit
          /\ \A s \in Elements(MyScopes) :
                \A c \in (early.crumbs \cap Elements(trail[s])) \ Elements(M) :
                Len(M) = Limit /\ \A d \in Elements(M) : at[d] >= at[c]
        BY DEF FlowInv, Kept, Collected, Finished
    <2>6. M \in Seq(Crumbs)
        <3>1. capture.lists \in Seq(Seq(Crumbs))
            BY DEF FlowInv, Typed, Captures
        <3> QED
            BY <2>5, <3>1
    <2>7. DOMAIN M = 1..Len(M)
        BY <2>6
    <2> HIDE DEF M
    <2>8. Range(M) = Elements(M) /\ IsInjective(M)
        BY <2>5, <2>7 DEF Range, IsInjective, Elements, Injective
    <2>9. ASSUME NEW s \in Elements(MyScopes) PROVE Steps(s) \subseteq Elements(trail[s])
        <3>1. s \in Everyone
            BY <2>3, LiveIn DEF Elements
        <3>2. trail[s] \in Seq(Crumbs)
            BY <3>1 DEF FlowInv, Typed
        <3>3. DOMAIN trail[s] = 1..Len(trail[s])
            BY <3>2
        <3> QED
            BY <3>3 DEF Steps, Elements
    <2> QED
        BY <2>1, <2>2, <2>4, <2>5, <2>8, <2>9
<1>3. FlowInv => StepsAreKept
    BY <1>1, <1>2 DEF StepsAreKept
<1> QED
    BY <1>3, FlowInductive, PTL
=============================================================================
