----------------------------- MODULE ErrorTrees ------------------------------
(***************************************************************************)
(* The errors an application makes, wraps and joins, and what an event     *)
(* says of one (src/stack-error.go; errorType and errorChain in            *)
(* src/scope.go): its type, the errors it wraps, and the stack recorded in *)
(* it.  Errors never change once they are made, so a value that is wrapped *)
(* twice is shared.                                                        *)
(***************************************************************************)
EXTENDS Naturals, SequencesExt

CONSTANTS
    MaxErrors,  \* the errors made at most
    MaxChain    \* maxChainLength: the wrapped errors an event lists at most

VARIABLES
    errors,     \* [kind, inner]: the errors made, each wraps earlier ones
    made        \* the one last returned to the application; 0 for none

vars == <<errors, made>>

\* "new" errors.New, "wrap" fmt.Errorf with %w, "join" errors.Join, "own" a type of
\* the application with a Callers method, "recorder" *stackError.
Kinds == {"new", "wrap", "join", "own", "recorder"}

Init == errors = <<>> /\ made = 0

Recorder(e) == errors[e].kind = "recorder"
Carries(e)  == errors[e].kind \in {"recorder", "own"}

\* walkErrors: an error and everything it wraps, outermost first.
walkErrors[e \in DOMAIN errors] ==
    <<e>> \o FlattenSeq([i \in DOMAIN errors[e].inner |-> walkErrors[errors[e].inner[i]]])

\* The places of a walk where a stack is met.
Stacks(walk) == {i \in DOMAIN walk : Carries(walk[i])}

\* A slip: the first stack that is met.
errorCallers_Outermost(e) ==
    LET walk == walkErrors[e]
    IN  IF Stacks(walk) = {} THEN 0 ELSE walk[Min(Stacks(walk))]

\* errorCallers, StackOf: the error whose recorded stack is reported, the last one met;
\* 0 for none.
errorCallers(e) ==
    LET walk == walkErrors[e]
    IN  IF Stacks(walk) = {} THEN 0 ELSE walk[Max(Stacks(walk))]

\* errorType: the error whose type names the event.
errorType[e \in DOMAIN errors] ==
    IF Recorder(e) THEN errorType[errors[e].inner[1]] ELSE e

\* The closure walk of errorChain: from an error and a depth, the chain so far becomes
\* longer.  Slips first.
chainFrom_CountsRecorders[e \in DOMAIN errors] ==
    [depth \in 0..1 |-> [chain \in Seq(DOMAIN errors) |->
        IF Len(chain) >= MaxChain THEN chain
        ELSE FoldLeft(LAMBDA c, inner : chainFrom_CountsRecorders[inner][1][c],
                      IF depth > 0 /\ ~Recorder(e) THEN Append(chain, e) ELSE chain,
                      errors[e].inner)]]

chainFrom[e \in DOMAIN errors] ==
    [depth \in 0..1 |-> [chain \in Seq(DOMAIN errors) |->
        IF Len(chain) >= MaxChain THEN chain
        ELSE IF Recorder(e) THEN chainFrom[errors[e].inner[1]][depth][chain]
        ELSE FoldLeft(LAMBDA c, inner : chainFrom[inner][1][c],
                      IF depth > 0 THEN Append(chain, e) ELSE chain,
                      errors[e].inner)]]

errorChain_CountsRecorders(e) == chainFrom_CountsRecorders[e][0][<<>>]
errorChain(e) == chainFrom[e][0][<<>>]

-----------------------------------------------------------------------------
Make(kind, inner) ==
    /\ Len(errors) < MaxErrors
    /\ errors' = Append(errors, [kind |-> kind, inner |-> inner])
    /\ made' = Len(errors) + 1

New == \E kind \in {"new", "own"} : Make(kind, <<>>)
Wrap == \E e \in DOMAIN errors, kind \in {"wrap", "own"} : Make(kind, <<e>>)
Join == \E e, f \in DOMAIN errors : Make("join", <<e, f>>)

\* An error that already carries a stack is returned as it is.
WithStack == \E e \in DOMAIN errors :
    IF errorCallers(e) # 0 THEN made' = e /\ UNCHANGED errors
    ELSE Make("recorder", <<e>>)

\* fmt.Errorf inside a recorder, whatever is wrapped.
Errorf == /\ Len(errors) + 1 < MaxErrors
          /\ \E inner \in {<<>>} \cup {<<e>> : e \in DOMAIN errors} :
                errors' = errors \o << [kind |-> IF inner = <<>> THEN "new" ELSE "wrap",
                                        inner |-> inner],
                                       [kind |-> "recorder", inner |-> <<Len(errors) + 1>>] >>
          /\ made' = Len(errors) + 2

Next == New \/ Wrap \/ Join \/ WithStack \/ Errorf

-----------------------------------------------------------------------------
Inside(e) == ToSet(walkErrors[e])

\* The stack of an event is the cause's (errorCallers, stack-error.go:59): there is
\* one whenever any error of the tree recorded one, no error below it recorded
\* another, and wrapping an error, with or without a stack of its own, never takes
\* the stack it had away.  Of joined errors it is that of a branch.
StackOfTheCause ==
    made # 0 =>
        LET found == errorCallers(made)
        IN  /\ (found = 0) = (\A e \in Inside(made) : ~Carries(e))
            /\ found # 0 => \A e \in Inside(found) \ {found} : ~Carries(e)
            /\ Len(errors[made].inner) = 1 /\ errorCallers(errors[made].inner[1]) # 0
                  => found = errorCallers(errors[made].inner[1])

\* Type and chain of an event name the errors of the tree, each as often as it is
\* wrapped and outermost first, and none of the recorders, up to the bound
\* (errorChain, scope.go:339).
ReportNamesEveryError ==
    made # 0 =>
        LET walk  == walkErrors[made]
            named == FlattenSeq([i \in DOMAIN walk |-> IF Recorder(walk[i]) THEN <<>>
                                                       ELSE <<walk[i]>>])
        IN  <<errorType[made]>> \o errorChain(made)
                = SubSeq(named, 1, IF Len(named) > MaxChain + 1 THEN MaxChain + 1
                                   ELSE Len(named))
=============================================================================
