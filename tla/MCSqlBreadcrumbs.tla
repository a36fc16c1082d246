------------------------- MODULE MCSqlBreadcrumbs ---------------------------
(* SqlBreadcrumbs on small instances.                                       *)
EXTENDS SqlBreadcrumbs

\* Every combination of what decides about statements, and for the rest a driver
\* that has all of it or none; a converter and a checker matter to custom arguments
\* only, and a driver has the converter or a checker of its statements.
AnySetting ==
    { s \in [execer : BOOLEAN, legacy : BOOLEAN, prepCtx : BOOLEAN, stmtCtx : BOOLEAN,
             beginCtx : BOOLEAN, resetter : BOOLEAN, validator : BOOLEAN, pinger : BOOLEAN,
             connCheck : BOOLEAN, stmtCheck : BOOLEAN, converter : BOOLEAN,
             args : {"plain", "named", "custom"},
             cancels : BOOLEAN, flow : {"none", "scope", "span"}] :
        /\ s.resetter = s.beginCtx /\ s.validator = s.beginCtx /\ s.pinger = s.beginCtx
        /\ s.connCheck \/ s.stmtCheck \/ s.converter => s.args = "custom"
        /\ ~(s.stmtCheck /\ s.converter) }

\* Drivers with a checker on the connection alone, called with arguments that only
\* it can check: not faithful, and faithful but for that.
CheckedByConnection ==
    {s \in AnySetting : /\ s.args = "custom" /\ s.connCheck /\ ~s.stmtCheck
                        /\ Faithful([s EXCEPT !.stmtCheck = TRUE])}
=============================================================================
