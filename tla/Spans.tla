------------------------------- MODULE Spans ---------------------------------
(***************************************************************************)
(* One transaction and its child spans (src/tracing.go).  Goroutines start *)
(* children, attach data, and finish spans in any order and more than      *)
(* once; finishing the transaction builds its payload, which is encoded    *)
(* after every lock has been given back.  A step is one critical section   *)
(* of a span's lock.                                                       *)
(*                                                                         *)
(* Names, times and statuses are left out.  Data stands for the two maps   *)
(* of a span, tags and data: the payload holds the maps themselves.        *)
(***************************************************************************)
EXTENDS Integers, Sequences, FiniteSets, SequencesExt

CONSTANTS
    Children,       \* the child spans, of whatever depth
    Transaction,    \* the span that is the transaction
    Calls,          \* the calls of Finish
    MaxChildren     \* maxChildSpans

ASSUME SpansAssumption       == IsFiniteSet(Children) /\ Transaction \notin Children
ASSUME MaxChildrenAssumption == MaxChildren \in Nat

AllSpans == Children \cup {Transaction}

VARIABLES
    sampled,    \* the transaction's decision, which its children inherit
    live,       \* the spans that were started
    finished,   \* the spans whose finished flag is set
    children,   \* the transaction's list of child spans
    hasMap,     \* the spans that hold a map
    target,     \* the span each call of Finish is about
    callPc,     \* where it stands
    unread,     \* the children the payload being built has yet to read
    payload,    \* the child spans read, in order
    shared,     \* the spans whose map is in the payload
    sent,       \* the payloads handed to sendTransaction
    clash,      \* a map was written while it was encoded
    finishedBefore, \* history, of the step that finishes the transaction: the
                    \*   children that were finished then,
    onTheWay        \*   those a Finish of which had yet to call addChild

spanVars    == <<sampled, live, hasMap, clash>>
payloadVars == <<unread, payload, shared, sent>>
historyVars == <<finishedBefore, onTheWay>>
transactionVars == <<sampled, live, finished, children, hasMap, target, callPc, unread,
                     payload, shared, sent, clash, finishedBefore, onTheWay>>

SpanInit ==
    /\ sampled \in BOOLEAN /\ live = {Transaction} /\ finished = {}
    /\ children = <<>> /\ hasMap = {}
    /\ target \in [Calls -> AllSpans] /\ callPc = [c \in Calls |-> "idle"]
    /\ unread = <<>> /\ payload = <<>> /\ shared = {} /\ sent = <<>>
    /\ clash = FALSE /\ finishedBefore = {} /\ onTheWay = {}

CallMoves(c, from, to) ==
    /\ callPc[c] = from
    /\ callPc' = [callPc EXCEPT ![c] = to]
    /\ UNCHANGED <<spanVars, target>>

-----------------------------------------------------------------------------
(* Slips, each of which takes the place of the action it is named after.    *)

\* finished is not looked at: every Finish of a transaction reports it.
FinishAgain_Anyway(c) ==
    /\ target[c] \in finished
    /\ CallMoves(c, "called", IF target[c] = Transaction /\ sampled THEN "building"
                              ELSE "returned")
    /\ UNCHANGED <<finished, children, payloadVars, historyVars>>

\* A transaction takes children after it is finished.
AddChild_Late(c) ==
    /\ Len(children) < MaxChildren
    /\ CallMoves(c, "adding", "returned")
    /\ children' = Append(children, target[c])
    /\ UNCHANGED <<finished, payloadVars, historyVars>>

\* The children of a transaction are not bounded.
AddChild_Unbounded(c) ==
    /\ Transaction \notin finished
    /\ CallMoves(c, "adding", "returned")
    /\ children' = Append(children, target[c])
    /\ UNCHANGED <<finished, payloadVars, historyVars>>

-----------------------------------------------------------------------------
(* StartSpan and SetData.                                                   *)

StartSpan(s) ==
    /\ live' = live \cup {s}
    /\ s \notin live
    /\ UNCHANGED <<sampled, finished, children, hasMap, target, callPc, payloadVars,
                   clash, historyVars>>

Encoding == \E c \in Calls : callPc[c] = "encoding"

\* SetData, SetTag: the span's lock is held, but the encoder takes no lock.
SetData(s) ==
    /\ s \in live
    /\ hasMap' = hasMap \cup {s}
    /\ clash' = (clash \/ (Encoding /\ s \in shared))
    /\ UNCHANGED <<sampled, live, finished, children, target, callPc, payloadVars,
                   historyVars>>

-----------------------------------------------------------------------------
(* Finish.                                                                  *)

FinishCall(c) ==
    /\ target[c] \in live
    /\ CallMoves(c, "idle", "called")
    /\ UNCHANGED <<finished, children, payloadVars, historyVars>>

FinishAgain(c) ==
    /\ target[c] \in finished
    /\ CallMoves(c, "called", "returned")
    /\ UNCHANGED <<finished, children, payloadVars, historyVars>>

FinishChild(c) ==
    /\ target[c] \in Children \ finished
    /\ CallMoves(c, "called", "adding")
    /\ finished' = finished \cup {target[c]}
    /\ UNCHANGED <<children, payloadVars, historyVars>>

\* A sampled-out transaction is finished and not reported.
FinishTransaction(c) ==
    /\ target[c] = Transaction /\ Transaction \notin finished
    /\ CallMoves(c, "called", IF sampled THEN "building" ELSE "returned")
    /\ finished' = finished \cup {Transaction}
    /\ finishedBefore' = finished
    /\ onTheWay' = {target[d] : d \in {e \in Calls : callPc[e] = "adding"}}
    /\ UNCHANGED <<children, payloadVars>>

\* addChild
AddChild(c) ==
    /\ Transaction \notin finished /\ Len(children) < MaxChildren
    /\ CallMoves(c, "adding", "returned")
    /\ children' = Append(children, target[c])
    /\ UNCHANGED <<finished, payloadVars, historyVars>>

ChildDropped(c) ==
    /\ Transaction \in finished \/ Len(children) >= MaxChildren
    /\ CallMoves(c, "adding", "returned")
    /\ UNCHANGED <<finished, children, payloadVars, historyVars>>

MapOf(s) == {s} \cap hasMap

\* payload holds the transaction's lock throughout and takes the children's in turn,
\* so a payload is built by one goroutine at a time, from the list as it is now.
Building == \E c \in Calls : callPc[c] = "reading"

BuildPayload(c) ==
    /\ ~Building
    /\ CallMoves(c, "building", "reading")
    /\ unread' = children /\ payload' = <<>> /\ shared' = MapOf(Transaction)
    /\ UNCHANGED <<finished, children, sent, historyVars>>

ReadChild(c) ==
    /\ unread # <<>>
    /\ CallMoves(c, "reading", "reading")
    /\ payload' = Append(payload, Head(unread)) /\ unread' = Tail(unread)
    /\ shared' = shared \cup MapOf(Head(unread))
    /\ UNCHANGED <<finished, children, sent, historyVars>>

\* sendTransaction encodes what payload returned, without a lock.
Encode(c) ==
    /\ unread = <<>>
    /\ CallMoves(c, "reading", "encoding")
    /\ UNCHANGED <<finished, children, payloadVars, historyVars>>

Encoded(c) ==
    /\ CallMoves(c, "encoding", "returned")
    /\ sent' = Append(sent, payload)
    /\ UNCHANGED <<finished, children, unread, payload, shared, historyVars>>

\* A value that cannot be encoded takes the whole transaction with it.
Unencodable(c) ==
    /\ shared # {}
    /\ CallMoves(c, "encoding", "returned")
    /\ UNCHANGED <<finished, children, payloadVars, historyVars>>

Finish(c) == \/ FinishCall(c) \/ FinishAgain(c) \/ FinishChild(c) \/ FinishTransaction(c)
             \/ AddChild(c) \/ ChildDropped(c)
             \/ BuildPayload(c) \/ ReadChild(c) \/ Encode(c) \/ Encoded(c)
             \/ Unencodable(c)

SpanNext == \/ \E s \in Children : StartSpan(s)
            \/ \E s \in AllSpans : SetData(s)
            \/ \E c \in Calls : Finish(c)

SpanSpec == SpanInit /\ [][SpanNext]_transactionVars

-----------------------------------------------------------------------------
(* What holds.                                                              *)

SpanTypeOK ==
    /\ sampled \in BOOLEAN /\ clash \in BOOLEAN
    /\ live \subseteq AllSpans /\ finished \subseteq live /\ hasMap \subseteq live
    /\ target \in [Calls -> AllSpans]
    /\ callPc \in [Calls -> {"idle", "called", "adding", "building", "reading",
                             "encoding", "returned"}]
    /\ \A list \in {children, unread, payload} : list \in Seq(Children)
    /\ Len(children) <= MaxChildren
    /\ shared \subseteq hasMap
    /\ finishedBefore \subseteq Children /\ onTheWay \subseteq Children

\* A transaction is reported at most once however many goroutines finish it, and
\* not at all when it is sampled out.
ReportedOnce == Len(sent) <= (IF sampled THEN 1 ELSE 0)

\* What is reported is the list as it was when the transaction was finished: no
\* span twice, every one of them finished, and all that were finished by then, but
\* for those whose Finish still stood before addChild, unless the bound was reached.
\* The comment of Finish leaves nobody out ("with the child spans finished by then",
\* tracing.go:228); the code drops a child on its way to the list, also one that
\* another call of Finish has found finished and returned from.
PayloadIsComplete ==
    /\ SpanTypeOK
    /\ \A i \in DOMAIN sent :
          /\ sent[i] = children /\ IsInjective(sent[i])
          /\ Range(sent[i]) \subseteq finished
          /\ finishedBefore \ onTheWay \subseteq Range(sent[i])
             \/ Len(sent[i]) = MaxChildren

-----------------------------------------------------------------------------
(* What a comment says and the code does not do.                            *)

\* client.go:23: the client, which encodes the payload, is safe for concurrent use.
MapsAreNotShared == ~clash
=============================================================================
