---------------------------- MODULE EventDelivery ----------------------------
(***************************************************************************)
(* What a transport promises to the client that hands it events, whatever  *)
(* threads, queues and requests it is built from:                          *)
(*   - an event is accepted at most once, and only while the transport is  *)
(*     open;                                                               *)
(*   - accepted events are decided one at a time, in the order they were   *)
(*     accepted, and each exactly once: delivered or dropped;              *)
(*   - the transport is finished only when nothing accepted is undecided;  *)
(*   - every accepted event is decided in the end.                         *)
(* HttpTransport implements it.                                            *)
(***************************************************************************)
EXTENDS Naturals, Sequences

CONSTANT Events      \* the events handed over; each is one call of Send

VARIABLES
    phase,      \* "open", "closing" (accepts nothing more) or "finished"
    waiting,    \* the accepted events that are not decided, oldest first
    verdict     \* per event: "none", "delivered" or "dropped"

vars == <<phase, waiting, verdict>>

Init == /\ phase = "open"
        /\ waiting = <<>>
        /\ verdict = [e \in Events |-> "none"]

Undecided(e) == /\ verdict[e] = "none"
                /\ \A i \in 1..Len(waiting) : waiting[i] # e

Accept(e) == /\ phase = "open"
             /\ Undecided(e)
             /\ waiting' = Append(waiting, e)
             /\ UNCHANGED <<phase, verdict>>

\* The hand-over itself may drop the event: no room, a pause, or too late.
Refuse(e) == /\ Undecided(e)
             /\ verdict' = [verdict EXCEPT ![e] = "dropped"]
             /\ UNCHANGED <<phase, waiting>>

Decide(v) == /\ waiting # <<>>
             /\ verdict' = [verdict EXCEPT ![Head(waiting)] = v]
             /\ waiting' = Tail(waiting)
             /\ UNCHANGED phase

Shut == /\ phase = "open"
        /\ phase' = "closing"
        /\ UNCHANGED <<waiting, verdict>>

Finish == /\ phase = "closing"
          /\ waiting = <<>>
          /\ phase' = "finished"
          /\ UNCHANGED <<waiting, verdict>>

Next == \/ \E e \in Events : Accept(e) \/ Refuse(e)
        \/ \E v \in {"delivered", "dropped"} : Decide(v)
        \/ Shut
        \/ Finish

\* The decisions go on as long as something waits.
Progress == WF_vars(\E v \in {"delivered", "dropped"} : Decide(v))

Safety == Init /\ [][Next]_vars
Spec   == Safety /\ Progress
=============================================================================
