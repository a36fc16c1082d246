----------------------------- MODULE PanicStacks -----------------------------
(***************************************************************************)
(* The call stack of one goroutine and the frames an event gets of it      *)
(* (captureStack and trimRuntimeFrames in src/stack-trace.go): functions   *)
(* call each other and panic, deferred functions run on top of the panic,  *)
(* and guards recover it, capture, and may raise it again.                 *)
(***************************************************************************)
EXTENDS Naturals, SequencesExt, FiniteSets

CONSTANTS
    MaxDepth,   \* frames on the stack
    MaxFrames   \* maxFrames: frames an event carries

VARIABLES
    stack,      \* the frames, innermost first: "app", "guard", "gopanic", "runtime"
    origin,     \* while a panic is under way: how many frames were below and at the
                \* function that raised it; 0 without one
    report      \* the frames captured, as their distances from the bottom

vars == <<stack, origin, report>>

Init == stack = <<"app">> /\ origin = 0 /\ report = <<>>

\* A frame is known by its height: how many frames there are up to it.
Frame(h) == stack[Len(stack) + 1 - h]

\* The frames of these heights, innermost first.
InOrder(heights) ==
    [i \in 1..Cardinality(heights) |->
        CHOOSE h \in heights : Cardinality({g \in heights : g >= h}) = i]

isNoise(h) == Frame(h) \in {"gopanic", "runtime"}

\* A slip: only what is before the first gopanic is dropped.
trimRuntimeFrames_First(heights) ==
    LET panics == {h \in heights : Frame(h) = "gopanic"}
    IN  {h \in heights : (panics # {} => \E p \in panics : h < p) /\ ~isNoise(h)}

\* Everything before the last gopanic is dropped, and the runtime's own frames are.
trimRuntimeFrames(heights) ==
    LET panics == {h \in heights : Frame(h) = "gopanic"}
    IN  {h \in heights : (\A p \in panics : h < p) /\ ~isNoise(h)}

\* runtime.Callers gives the innermost MaxFrames frames.
captureStack == InOrder(trimRuntimeFrames({h \in 1..Len(stack) : h + MaxFrames > Len(stack)}))

Room(n) == Len(stack) + n <= MaxDepth
Push(frames) == stack' = frames \o stack

Call == /\ Room(1) /\ Head(stack) \notin {"gopanic", "runtime"}
        /\ Push(<<"app">>)
        /\ report' = <<>>
        /\ UNCHANGED origin

Return == /\ Head(stack) = "app" /\ Len(stack) > 1
          /\ stack' = Tail(stack)
          /\ report' = <<>>
          /\ UNCHANGED origin

\* panic(value), or a fault the runtime turns into one (a nil map, an index).
Panic == /\ origin = 0 /\ Head(stack) = "app"
         /\ \E frames \in {<<"gopanic">>, <<"gopanic", "runtime">>} :
               Room(Len(frames)) /\ Push(frames)
         /\ origin' = Len(stack)
         /\ report' = <<>>

\* A deferred guard runs on top of what panicked, and captures.
Guard == /\ Room(1) /\ Head(stack) = "gopanic"
         /\ Push(<<"guard">>)
         /\ UNCHANGED <<origin, report>>

Capture == /\ Head(stack) \in {"app", "guard"}
           /\ origin # 0 => Head(stack) = "guard"
           /\ report' = captureStack
           /\ UNCHANGED <<stack, origin>>

\* Recover, or a middleware with Repanic: raised again from the guard, on top.
Repanic == /\ Room(1) /\ Head(stack) = "guard"
           /\ Push(<<"gopanic">>)
           /\ report' = <<>>
           /\ UNCHANGED origin

\* The guard returns, and the stack is unwound to below the panicking function.
Recovered == /\ Head(stack) = "guard" /\ origin > 1
             /\ stack' = SubSeq(stack, Len(stack) + 2 - origin, Len(stack))
             /\ origin' = 0
             /\ report' = <<>>

Next == Call \/ Return \/ Panic \/ Guard \/ Capture \/ Repanic \/ Recovered

-----------------------------------------------------------------------------
\* The stack of an event starts where things went wrong (trimRuntimeFrames,
\* stack-trace.go:84): at the function that panicked first, however often guards
\* have raised it again - as long as that is within the frames collected - and
\* without a panic at the function that captures; from there it goes down to the
\* bottom, or as far as an event reaches, and holds the application's calls only.
StackStartsAtTheCause ==
    report # <<>> =>
        LET cause == IF origin = 0 THEN Len(stack) ELSE origin
            reached == Len(stack) - cause < MaxFrames
        IN  /\ reached => report[1] = cause
            /\ \A i \in DOMAIN report :
                  /\ i > 1 => report[i] = report[i - 1] - 1
                  /\ reached => Frame(report[i]) = "app"
            /\ Last(report) = (IF Len(stack) < MaxFrames THEN 1
                               ELSE Len(stack) + 1 - MaxFrames)
=============================================================================
