---------------------------- MODULE DatabaseSql ------------------------------
(***************************************************************************)
(* What package database/sql does with a driver's connection when nothing  *)
(* is wrapped around it: which of the driver's functions it calls, in      *)
(* which order, and what the application is answered.  It is the           *)
(* specification SqlBreadcrumbs implements: sql-breadcrumbs.go promises    *)
(* "the path it would have taken without the wrapper".                     *)
(*                                                                         *)
(* A setting says which optional interfaces the driver has, what the       *)
(* application passes as arguments and whether its context may end:        *)
(*   execer     ExecerContext and QueryerContext on the connection         *)
(*   legacy     Execer and Queryer on the connection                       *)
(*   prepCtx, stmtCtx, beginCtx, resetter, validator, pinger               *)
(*   connCheck, stmtCheck    NamedValueChecker on connection, statement    *)
(*   converter  ColumnConverter on the statement                           *)
(*   args       "plain", "named", or "custom": a type that only a driver's *)
(*              own NamedValueChecker or ColumnConverter accepts           *)
(*   cancels    the context may be cancelled while the call runs           *)
(***************************************************************************)
EXTENDS Naturals, Sequences

CONSTANTS
    Settings,   \* the drivers and calls considered
    MaxRetries  \* maxBadConnRetries: attempts on pooled connections

VARIABLES
    setting,
    op,         \* "exec" (or a query), "prepared", "begin", "isolated", "ping"
    pc,         \* "idle", "conn", "direct", "prepare", "stmt", "begin", "ping", "release"
    tries,      \* attempts that met a bad connection
    pool,       \* "empty", or "idle": a connection waits to be used again
    cancelled,  \* the call's context has ended
    calls,      \* what the driver was called with, and what it answered
    result      \* what the application is answered

vars == <<setting, op, pc, tries, pool, cancelled, calls, result>>

Statements == {"exec", "prepared"}
Begins     == {"begin", "isolated"}    \* default options, and any others
Operations == Statements \cup Begins \cup {"ping"}
Outcomes   == {"ok", "error", "badconn"}

Init == /\ setting \in Settings
        /\ op = "ping"
        /\ pc = "idle"
        /\ tries = 0
        /\ pool = "empty"
        /\ cancelled = FALSE
        /\ calls = <<>>
        /\ result = "none"

Call(fn, out) == calls' = Append(calls, [fn |-> fn, out |-> out])

Start(o) == /\ pc = "idle"
            /\ op' = o
            /\ pc' = "conn"
            /\ tries' = 0
            /\ cancelled' = FALSE
            /\ calls' = <<>>
            /\ result' = "none"
            /\ UNCHANGED <<setting, pool>>

Cancel == /\ setting.cancels
          /\ pc # "idle"
          /\ cancelled' = TRUE
          /\ UNCHANGED <<setting, op, pc, tries, pool, calls, result>>

\* DB.retry: a bad connection is replaced, the last time by a new one; every
\* other answer ends the call, after the connection is put back.
Answer(out) ==
    IF out = "badconn"
    THEN /\ pc' = IF tries < MaxRetries THEN "conn" ELSE "idle"
         /\ tries' = IF tries < MaxRetries THEN tries + 1 ELSE tries
         /\ result' = IF tries < MaxRetries THEN "none" ELSE "badconn"
    ELSE /\ pc' = "release"
         /\ result' = out
         /\ UNCHANGED tries

GoTo(next) == pc' = next /\ UNCHANGED <<tries, result>>

First == IF op \in Begins THEN "begin"
         ELSE IF op = "ping" THEN IF setting.pinger THEN "ping" ELSE "release"
         ELSE IF op = "exec" /\ (setting.execer \/ setting.legacy) THEN "direct"
         ELSE "prepare"

Reach == IF First = "release" THEN Answer("ok") ELSE GoTo(First)

\* DB.conn gives up on an ended context before it looks for a connection.
GiveUp == /\ pc = "conn"
          /\ cancelled
          /\ pc' = "idle"
          /\ result' = "cancelled"
          /\ UNCHANGED <<setting, op, tries, pool, cancelled, calls>>

Reuses == pc = "conn" /\ ~cancelled /\ pool = "idle" /\ tries < MaxRetries

\* A pooled connection is reset before it is used; only a bad one is refused.
Reuse == /\ Reuses
         /\ pool' = "empty"
         /\ IF setting.resetter
            THEN \E out \in Outcomes :
                    /\ Call("ResetSession", out)
                    /\ IF out = "badconn" THEN Answer(out) ELSE Reach
            ELSE Reach /\ UNCHANGED calls
         /\ UNCHANGED <<setting, op, cancelled>>

Open == /\ pc = "conn"
        /\ ~cancelled
        /\ ~Reuses
        /\ \E out \in Outcomes :
              /\ Call("Open", out)
              /\ IF out = "ok" THEN Reach
                 ELSE IF out = "badconn" THEN Answer(out)
                 ELSE pc' = "idle" /\ result' = out /\ UNCHANGED tries
        /\ UNCHANGED <<setting, op, pool, cancelled>>

\* driverArgsConnLocked: without a statement the connection's checker decides,
\* with one the statement's, or the connection's where that has none, and where
\* neither is there the statement's converter.
Refused(checked) == setting.args = "custom" /\ ~checked
ConnRefuses == Refused(setting.connCheck)
StmtRefuses == Refused(setting.stmtCheck \/ setting.connCheck \/ setting.converter)

\* The connection runs the statement itself, or answers ErrSkip.
Direct ==
    /\ pc = "direct"
    /\ IF ConnRefuses \/ (~setting.execer /\ setting.args = "named")
       THEN Answer("error") /\ UNCHANGED calls
       ELSE IF ~setting.execer /\ cancelled
       THEN Answer("cancelled") /\ UNCHANGED calls
       ELSE \E out \in Outcomes \cup {"skip"} :
               /\ Call(IF setting.execer THEN "ExecContext" ELSE "Exec", out)
               /\ IF out = "skip" THEN GoTo("prepare") ELSE Answer(out)
    /\ UNCHANGED <<setting, op, pool, cancelled>>

\* ctxDriverPrepare: for a driver without contexts database/sql looks itself
\* whether the context has ended.
Prepare ==
    /\ pc = "prepare"
    /\ \E out \in Outcomes :
          /\ Call(IF setting.prepCtx THEN "PrepareContext" ELSE "Prepare", out)
          /\ IF out # "ok" THEN Answer(out)
             ELSE IF cancelled /\ ~setting.prepCtx THEN Answer("cancelled")
             ELSE GoTo("stmt")
    /\ UNCHANGED <<setting, op, pool, cancelled>>

\* ctxDriverStmtExec and ctxDriverStmtQuery.
Stmt ==
    /\ pc = "stmt"
    /\ IF StmtRefuses \/ (~setting.stmtCtx /\ setting.args = "named")
       THEN Answer("error") /\ UNCHANGED calls
       ELSE IF ~setting.stmtCtx /\ cancelled
       THEN Answer("cancelled") /\ UNCHANGED calls
       ELSE \E out \in Outcomes :
               /\ Call(IF setting.stmtCtx THEN "StmtExecContext" ELSE "StmtExec", out)
               /\ Answer(out)
    /\ UNCHANGED <<setting, op, pool, cancelled>>

\* ctxDriverBegin.
Begin ==
    /\ pc = "begin"
    /\ IF ~setting.beginCtx /\ op = "isolated"
       THEN Answer("error") /\ UNCHANGED calls
       ELSE \E out \in Outcomes :
               /\ Call(IF setting.beginCtx THEN "BeginTx" ELSE "Begin", out)
               /\ IF out = "ok" /\ cancelled /\ ~setting.beginCtx
                  THEN Answer("cancelled")
                  ELSE Answer(out)
    /\ UNCHANGED <<setting, op, pool, cancelled>>

Ping == /\ pc = "ping"
        /\ \E out \in Outcomes : Call("Ping", out) /\ Answer(out)
        /\ UNCHANGED <<setting, op, pool, cancelled>>

\* DB.putConn: the connection is kept unless the driver calls it invalid.
Release ==
    /\ pc = "release"
    /\ pc' = "idle"
    /\ IF setting.validator
       THEN \E out \in {"ok", "invalid"} :
               /\ Call("IsValid", out)
               /\ pool' = IF out = "ok" THEN "idle" ELSE "empty"
       ELSE pool' = "idle" /\ UNCHANGED calls
    /\ UNCHANGED <<setting, op, tries, cancelled, result>>

Next == \/ \E o \in Operations : Start(o)
        \/ Cancel \/ GiveUp \/ Reuse \/ Open
        \/ Direct \/ Prepare \/ Stmt \/ Begin \/ Ping \/ Release

Spec == Init /\ [][Next]_vars
=============================================================================
