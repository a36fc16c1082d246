------------------------------- MODULE Reports -------------------------------
(***************************************************************************)
(* What a report says of the thing it is about.  Four parts of the client  *)
(* decide that, each a computation over data the application builds up     *)
(* step by step; a behaviour is about one of them:                         *)
(*   "error"   an error's type, chain and stack       (ErrorTrees)         *)
(*   "record"  a log record's fields                  (LogRecords)         *)
(*   "trace"   a request's way through services       (TraceContext)       *)
(*   "stack"   the frames of a panic                  (PanicStacks)        *)
(***************************************************************************)
EXTENDS Integers, Sequences

CONSTANTS MaxErrors, MaxChain, Attrs, ErrorValues, Names, Levels, MaxDerived,
          IdRange, Services, MaxHops, MaxCalls, MaxDepth, MaxFrames

\* What is inside an attribute is one too; an event's own type names no error.
ASSUME AttrsAssumption ==
    /\ Attrs \subseteq [key : Seq(STRING), inner : Seq(Attrs), value : STRING]
    /\ Names \subseteq STRING
ASSUME ErrorValuesAssumption == "log" \notin ErrorValues
ASSUME LevelsAssumption == Levels \subseteq Int
\* A service whose rate is IdRange samples every trace.
ASSUME ServicesAssumption ==
    /\ IdRange \in Nat
    /\ Services \subseteq [rate : 0..IdRange, trust : BOOLEAN, own : BOOLEAN]
ASSUME MaxChainAssumption == MaxChain \in Nat
ASSUME MaxFramesAssumption == MaxFrames \in Nat \ {0}

VARIABLES subject,
          errors, made,
          settings, attrs, group, opened, given, wrapped, logged,
          wire, hops, request,
          stack, origin, frames

Error  == INSTANCE ErrorTrees
Record == INSTANCE LogRecords WITH report <- logged
Trace  == INSTANCE TraceContext
Stack  == INSTANCE PanicStacks WITH report <- frames

errorVars  == <<errors, made>>
recordVars == <<settings, attrs, group, opened, given, wrapped, logged>>
traceVars  == <<wire, hops, request>>
stackVars  == <<stack, origin, frames>>
vars == <<subject, errorVars, recordVars, traceVars, stackVars>>

Subjects == {"error", "record", "trace", "stack"}

\* What a behaviour is not about stays as it was at first.
AnyRecord == CHOOSE s \in [event : Levels, crumb : Levels, next : Levels,
                            enabled : BOOLEAN] : TRUE

Init == /\ subject \in Subjects
        /\ Error!Init /\ Stack!Init
        /\ Record!Init /\ (subject # "record" => settings = AnyRecord)
        /\ Trace!Init /\ (subject # "trace" => wire = Trace!NoHeader)

Next ==
    /\ UNCHANGED subject
    /\ \/ subject = "error"  /\ Error!Next  /\ UNCHANGED <<recordVars, traceVars, stackVars>>
       \/ subject = "record" /\ Record!Next /\ UNCHANGED <<errorVars, traceVars, stackVars>>
       \/ subject = "trace"  /\ Trace!Next  /\ UNCHANGED <<errorVars, recordVars, stackVars>>
       \/ subject = "stack"  /\ Stack!Next  /\ UNCHANGED <<errorVars, recordVars, traceVars>>

Spec == Init /\ [][Next]_vars

-----------------------------------------------------------------------------
(* The properties are the parts'; see there.                                *)

\* The stack of an event is the cause's: ErrorTrees.
StackOfTheCause == Error!StackOfTheCause

\* Type and chain of an event name every error, as often as it is wrapped: ErrorTrees.
ReportNamesEveryError == Error!ReportNamesEveryError

\* A record's fields do not depend on who gave them, and reporting and writing do
\* not get in each other's way: LogRecords.
LogTellsAll == Record!LogTellsAll

\* A trace is recorded whole or not at all, and its parts are linked: TraceContext.
TraceHoldsTogether == Trace!TraceHoldsTogether

\* The frames of an event start where things went wrong: PanicStacks.
StackStartsAtTheCause == Stack!StackStartsAtTheCause
=============================================================================
