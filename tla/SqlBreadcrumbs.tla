--------------------------- MODULE SqlBreadcrumbs ----------------------------
(***************************************************************************)
(* database/sql on a connection that WrapDriver or WrapConnector wrapped   *)
(* (sql-breadcrumbs.go).  The wrapper has every optional interface but     *)
(* ColumnConverter, so database/sql always takes its newest path; the      *)
(* wrapper asks the driver for what it has, and leaves a breadcrumb and a  *)
(* span of each statement the driver ran.  DatabaseSql is the same without *)
(* the wrapper; for which drivers there is no difference, Faithful says.   *)
(*                                                                         *)
(* A setting also has "flow": what the call's context carries, "none", a   *)
(* "scope", or a "span" of a transaction (which comes with a scope).       *)
(***************************************************************************)
EXTENDS Naturals, Sequences, FiniteSets

CONSTANTS Settings, MaxRetries

VARIABLES setting, op, pc, tries, pool, cancelled, calls, result,
          crumbs    \* breadcrumbs of the running call, oldest first

plainVars == <<setting, op, pc, tries, pool, cancelled, calls, result>>
vars == <<setting, op, pc, tries, pool, cancelled, calls, result, crumbs>>

\* What database/sql is about to do, as it would be without the wrapper: where the
\* driver has no Execer of either kind or no Pinger, the wrapper is only passed through.
PassesThrough(step) == \/ step = "direct" /\ ~setting.execer /\ ~setting.legacy
                       \/ step = "ping" /\ ~setting.pinger
PlainPc == IF ~PassesThrough(pc) THEN pc
           ELSE IF pc = "direct" THEN "prepare" ELSE "release"
PlainResult == IF PassesThrough(pc) /\ pc = "ping" THEN "ok" ELSE result

Plain == INSTANCE DatabaseSql WITH pc <- PlainPc, result <- PlainResult

Init == /\ setting \in Settings
        /\ op = "ping"
        /\ pc = "idle"
        /\ tries = 0
        /\ pool = "empty"
        /\ cancelled = FALSE
        /\ calls = <<>>
        /\ result = "none"
        /\ crumbs = <<>>

Call(fn, out) == calls' = Append(calls, [fn |-> fn, out |-> out])
NoCall == UNCHANGED calls

\* database/sql itself is DatabaseSql; what it does with an answer is the same.
Answer(out) ==
    IF out = "badconn"
    THEN /\ pc' = IF tries < MaxRetries THEN "conn" ELSE "idle"
         /\ tries' = IF tries < MaxRetries THEN tries + 1 ELSE tries
         /\ result' = IF tries < MaxRetries THEN "none" ELSE "badconn"
    ELSE /\ pc' = "release"
         /\ result' = out
         /\ UNCHANGED tries

GoTo(next) == pc' = next /\ UNCHANGED <<tries, result>>

First == IF op \in Plain!Begins THEN "begin"
         ELSE IF op = "ping" THEN "ping"
         ELSE IF op = "exec" THEN "direct"
         ELSE "prepare"

\* A slip: an ErrSkip is a failed query.
recordQuery_KeepsSkips(given, out) ==
    crumbs' = Append(crumbs,
        [scope |-> IF given /\ setting.flow # "none" THEN "flow" ELSE "global",
         level |-> IF out = "ok" THEN "info" ELSE "error",
         span  |-> given /\ setting.flow = "span"])

\* recordQuery: the breadcrumb, on the context's scope or the global one, and
\* the span inside a transaction.  A context the driver was not given is
\* context.Background().  An ErrSkip leaves nothing.
recordQuery(given, out) ==
    IF out = "skip" THEN UNCHANGED crumbs
    ELSE crumbs' = Append(crumbs,
            [scope |-> IF given /\ setting.flow # "none" THEN "flow" ELSE "global",
             level |-> IF out = "ok" THEN "info" ELSE "error",
             span  |-> given /\ setting.flow = "span"])

Start(o) == /\ pc = "idle"
            /\ op' = o
            /\ pc' = "conn"
            /\ tries' = 0
            /\ cancelled' = FALSE
            /\ calls' = <<>>
            /\ result' = "none"
            /\ crumbs' = <<>>
            /\ UNCHANGED <<setting, pool>>

Cancel == /\ setting.cancels
          /\ pc # "idle"
          /\ cancelled' = TRUE
          /\ UNCHANGED <<setting, op, pc, tries, pool, calls, result, crumbs>>

GiveUp == /\ pc = "conn"
          /\ cancelled
          /\ pc' = "idle"
          /\ result' = "cancelled"
          /\ UNCHANGED <<setting, op, tries, pool, cancelled, calls, crumbs>>

Reuses == pc = "conn" /\ ~cancelled /\ pool = "idle" /\ tries < MaxRetries

\* sqlConn.ResetSession: nothing to do, and no error, without a SessionResetter.
Reuse == /\ Reuses
         /\ pool' = "empty"
         /\ IF setting.resetter
            THEN \E out \in Plain!Outcomes :
                    /\ Call("ResetSession", out)
                    /\ IF out = "badconn" THEN Answer(out) ELSE GoTo(First)
            ELSE GoTo(First) /\ NoCall
         /\ UNCHANGED <<setting, op, cancelled, crumbs>>

\* sqlDriver.Open and sqlConnector.Connect wrap the connection they are given.
Open == /\ pc = "conn"
        /\ ~cancelled
        /\ ~Reuses
        /\ \E out \in Plain!Outcomes :
              /\ Call("Open", out)
              /\ IF out = "ok" THEN GoTo(First)
                 ELSE IF out = "badconn" THEN Answer(out)
                 ELSE pc' = "idle" /\ result' = out /\ UNCHANGED tries
        /\ UNCHANGED <<setting, op, pool, cancelled, crumbs>>

\* CheckNamedValue of the wrapper decides for each of connection and statement:
\* a statement's ErrSkip does not come back to the connection's, and the wrapper
\* hides a statement's ColumnConverter.
Refused(checked) == setting.args = "custom" /\ ~checked

\* A slip: a driver that cannot execute answers an error instead of ErrSkip.
ExecContext_NoErrSkip ==
    /\ pc = "direct"
    /\ IF Refused(setting.connCheck) \/ ~setting.execer
       THEN Answer("error") /\ NoCall /\ UNCHANGED crumbs
       ELSE \E out \in Plain!Outcomes \cup {"skip"} :
               /\ Call("ExecContext", out)
               /\ recordQuery(TRUE, out)
               /\ IF out = "skip" THEN GoTo("prepare") ELSE Answer(out)
    /\ UNCHANGED <<setting, op, pool, cancelled>>

\* sqlConn.ExecContext and QueryContext.
ExecContext ==
    /\ pc = "direct"
    /\ IF Refused(setting.connCheck) THEN Answer("error") /\ NoCall /\ UNCHANGED crumbs
       ELSE IF ~setting.execer THEN GoTo("prepare") /\ NoCall /\ UNCHANGED crumbs
       ELSE \E out \in Plain!Outcomes \cup {"skip"} :
               /\ Call("ExecContext", out)
               /\ recordQuery(TRUE, out)
               /\ IF out = "skip" THEN GoTo("prepare") ELSE Answer(out)
    /\ UNCHANGED <<setting, op, pool, cancelled>>

\* sqlConn.PrepareContext: nobody looks at the context for a driver without one.
PrepareContext ==
    /\ pc = "prepare"
    /\ \E out \in Plain!Outcomes :
          /\ Call(IF setting.prepCtx THEN "PrepareContext" ELSE "Prepare", out)
          /\ IF out = "ok" THEN GoTo("stmt") ELSE Answer(out)
    /\ UNCHANGED <<setting, op, pool, cancelled, crumbs>>

\* sqlStmt.ExecContext and QueryContext; plainValues refuses named parameters.
StmtExecContext ==
    /\ pc = "stmt"
    /\ IF Refused(setting.stmtCheck) \/ (~setting.stmtCtx /\ setting.args = "named")
       THEN Answer("error") /\ NoCall /\ UNCHANGED crumbs
       ELSE \E out \in Plain!Outcomes :
               /\ Call(IF setting.stmtCtx THEN "StmtExecContext" ELSE "StmtExec", out)
               /\ recordQuery(setting.stmtCtx, out)
               /\ Answer(out)
    /\ UNCHANGED <<setting, op, pool, cancelled>>

\* A slip: the options of a transaction are forgotten where there is no BeginTx.
BeginTx_ForgetsOptions ==
    /\ pc = "begin"
    /\ \E out \in Plain!Outcomes :
          /\ Call(IF setting.beginCtx THEN "BeginTx" ELSE "Begin", out)
          /\ Answer(out)
    /\ UNCHANGED <<setting, op, pool, cancelled, crumbs>>

\* sqlConn.BeginTx.
BeginTx ==
    /\ pc = "begin"
    /\ IF ~setting.beginCtx /\ op = "isolated"
       THEN Answer("error") /\ NoCall
       ELSE \E out \in Plain!Outcomes :
               /\ Call(IF setting.beginCtx THEN "BeginTx" ELSE "Begin", out)
               /\ Answer(out)
    /\ UNCHANGED <<setting, op, pool, cancelled, crumbs>>

\* sqlConn.Ping: a driver without a Pinger is alive.
Ping == /\ pc = "ping"
        /\ IF setting.pinger
           THEN \E out \in Plain!Outcomes : Call("Ping", out) /\ Answer(out)
           ELSE Answer("ok") /\ NoCall
        /\ UNCHANGED <<setting, op, pool, cancelled, crumbs>>

\* sqlConn.IsValid: a driver without a Validator has valid connections.
Release ==
    /\ pc = "release"
    /\ pc' = "idle"
    /\ IF setting.validator
       THEN \E out \in {"ok", "invalid"} :
               /\ Call("IsValid", out)
               /\ pool' = IF out = "ok" THEN "idle" ELSE "empty"
       ELSE pool' = "idle" /\ NoCall
    /\ UNCHANGED <<setting, op, tries, cancelled, result, crumbs>>

Next == \/ \E o \in Plain!Operations : Start(o)
        \/ Cancel \/ GiveUp \/ Reuse \/ Open
        \/ ExecContext \/ PrepareContext \/ StmtExecContext \/ BeginTx \/ Ping \/ Release

Spec == Init /\ [][Next]_vars

-----------------------------------------------------------------------------
SettingTypes ==
    [execer : BOOLEAN, legacy : BOOLEAN, prepCtx : BOOLEAN, stmtCtx : BOOLEAN,
     beginCtx : BOOLEAN, resetter : BOOLEAN, validator : BOOLEAN, pinger : BOOLEAN,
     connCheck : BOOLEAN, stmtCheck : BOOLEAN, converter : BOOLEAN,
     args : {"plain", "named", "custom"},
     cancels : BOOLEAN, flow : {"none", "scope", "span"}]

ASSUME SettingsAssumption == Settings \subseteq SettingTypes
ASSUME MaxRetriesAssumption == MaxRetries \in Nat

-----------------------------------------------------------------------------
Count(level) == Cardinality({i \in DOMAIN crumbs : crumbs[i].level = level})

\* What the driver was asked to run, whatever it answered but ErrSkip.
Ran(call) == call.fn \in {"ExecContext", "StmtExecContext", "StmtExec"} /\ call.out # "skip"

\* The trail of a finished call tells what the application was told: a statement
\* answered without an error left exactly one breadcrumb of success, any other
\* call none, whatever was retried before; each failed attempt is there as one
\* (recordQuery, sql-breadcrumbs.go:41); and nothing of a flow whose driver takes
\* contexts is found on the global scope or missing from its transaction.
TrailTellsTheResult ==
    pc = "idle" /\ result # "none" =>
        /\ Count("info") = IF result = "ok" /\ op \in Plain!Statements THEN 1 ELSE 0
        /\ Count("error") = Cardinality({i \in DOMAIN calls : Ran(calls[i]) /\ calls[i].out # "ok"})
        /\ setting.flow # "none" /\ setting.stmtCtx =>
              \A i \in DOMAIN crumbs : /\ crumbs[i].scope = "flow"
                                       /\ crumbs[i].span = (setting.flow = "span")

-----------------------------------------------------------------------------
\* "Usage, with any driver" (sql-breadcrumbs.go:15), and "driver.ErrSkip sends
\* database/sql down the path it would have taken without the wrapper" (125): the
\* driver gets the calls, in the order, and the application the answers, of
\* DatabaseSql alone.  That does not hold of every setting.
TakesThePlainPath == Plain!Spec

\* The settings of which it holds.
Faithful(s) ==
    \* no Execer or Queryer that database/sql would have preferred to preparing
    /\ s.legacy => s.execer
    \* arguments only the driver can check: the wrapper's connection checks before it
    \* says that it cannot execute, and its statements neither fall back on the
    \* connection's checker nor convert columns
    /\ s.args = "custom" => /\ s.execer \/ s.connCheck
                            /\ s.stmtCheck \/ (~s.connCheck /\ ~s.converter)
    \* the wrapper does not look at the context for a driver that takes none
    /\ s.cancels => s.prepCtx /\ s.stmtCtx /\ s.beginCtx

\* With a faithful setting every call of the driver and every answer to the
\* application is the one DatabaseSql alone would have made then: the first state is
\* one of its own, and each step is a step of its or, where the wrapper answers
\* ErrSkip or for a Pinger, none.
FaithfulTakesThePlainPath ==
    /\ Faithful(setting) => Plain!Init
    /\ [][Faithful(setting) => Plain!Next \/ UNCHANGED Plain!vars]_vars
=============================================================================
