--------------------------- MODULE ReportsProofs -----------------------------
(***************************************************************************)
(* What is proved of the reports: for any number of errors, of derived     *)
(* handlers, of services and calls between them, and stacks of any depth.  *)
(***************************************************************************)
EXTENDS Reports, DataLemmas, SequenceTheorems

-----------------------------------------------------------------------------
(* One trace through services.                                              *)

Spans == Nat \X Nat
Calls == [id : Spans, parent : Spans, span : BOOLEAN]
Hops  == [service : Services, traced : BOOLEAN, trace : Trace!Ids, parent : Spans,
          calls : Seq(Calls), sampled : BOOLEAN]
Wires == [ok : BOOLEAN, trace : Nat, parent : Spans, flag : BOOLEAN]

TraceOK == /\ hops \in Seq(Hops)
           /\ wire \in Wires /\ (wire.ok => wire.trace \in Trace!Ids)
           /\ request = Trace!NoHeader

\* Who decides for himself goes by the trace's id.
Decided(hop) ==
    /\ hop.traced = (hop.service.rate > 0)
    /\ ~hop.service.trust => hop.sampled = Trace!traceSampled(hop.trace, hop.service.rate)

\* The calls a service made.
Made(n, hop) ==
    \A i \in DOMAIN hop.calls : /\ hop.calls[i].parent = <<n, 0>>
                                /\ hop.calls[i].span = (hop.traced /\ ~hop.service.own)

\* A header leads back to the service that sent it, through one of its calls.
LeadsTo(hop, trace, parent, flag) ==
    /\ trace = hop.trace /\ flag = hop.sampled
    /\ \E i \in DOMAIN hop.calls : hop.calls[i].id = parent

Links(n, hop) == hop.traced /\ ~hop.service.own =>
    /\ hops[n].trace = hop.trace
    /\ hops[n].service.trust => hops[n].sampled = hop.sampled
    /\ \E i \in DOMAIN hop.calls : hop.calls[i].id = hops[n].parent

TraceInv ==
    /\ TraceOK
    /\ \A n \in 1..Len(hops) : Decided(hops[n]) /\ Made(n, hops[n])
    /\ \A n \in 2..Len(hops) : Links(n, hops[n - 1])
    /\ Len(hops) > 0 =>
          LET last == hops[Len(hops)]
          IN  last.calls # <<>> /\ last.traced /\ ~last.service.own
                 => wire.ok /\ LeadsTo(last, wire.trace, wire.parent, wire.flag)

LEMMA InitTrace == Init => TraceInv
<1> SUFFICES ASSUME Init PROVE TraceInv
    OBVIOUS
<1>1. wire \in Trace!Headers /\ hops = <<>> /\ request = Trace!NoHeader
    BY DEF Init, Trace!Init, Trace!Headers
<1>2. wire \in Wires /\ (wire.ok => wire.trace \in Trace!Ids)
    <2>1. Trace!NoHeader \in Wires /\ ~Trace!NoHeader.ok
        BY DEF Trace!NoHeader, Wires, Spans
    <2>2. ASSUME NEW w \in [ok : {TRUE}, trace : Trace!Ids, parent : {<<0, 1>>}, flag : BOOLEAN]
          PROVE  w \in Wires /\ w.trace \in Trace!Ids
        <3>1. <<0, 1>> \in Spans /\ TRUE \in BOOLEAN /\ Trace!Ids \subseteq Nat
            BY ServicesAssumption DEF Spans, Trace!Ids
        <3> QED
            BY <2>2, <3>1 DEF Wires
    <2> QED
        BY <1>1, <2>1, <2>2 DEF Trace!Headers
<1> QED
    BY <1>1, <1>2 DEF TraceInv, TraceOK

LEMMA ReceiveStep ==
    ASSUME TraceInv, NEW service \in Services, Trace!Receive(service)
    PROVE  TraceInv'
<1> DEFINE trace(fresh) == IF wire.ok THEN wire.trace ELSE fresh
           hop(fresh) == [service |-> service, traced |-> service.rate > 0,
                          trace |-> trace(fresh),
                          parent |-> wire.parent, calls |-> <<>>,
                          sampled |-> IF wire.ok /\ service.trust THEN wire.flag
                                      ELSE Trace!traceSampled(trace(fresh), service.rate)]
<1>1. PICK fresh \in Trace!Ids : hops' = Append(hops, hop(fresh))
    BY DEF Trace!Receive, Trace!StartTransaction
<1>2. /\ wire' = wire /\ request' = Trace!NoHeader
      /\ \A i \in DOMAIN hops : hops[i].calls # <<>>
    BY DEF Trace!Receive
<1> DEFINE new == hop(fresh)
<1>3. new \in Hops /\ new.calls = <<>> /\ Decided(new)
    <2>1. trace(fresh) \in Trace!Ids /\ wire.parent \in Spans /\ wire.flag \in BOOLEAN
        BY <1>1 DEF TraceInv, TraceOK, Wires
    <2>2. service.rate \in 0..IdRange /\ service.trust \in BOOLEAN
        BY ServicesAssumption
    <2>3. /\ (service.rate > 0) \in BOOLEAN
          /\ (IF wire.ok /\ service.trust THEN wire.flag
              ELSE Trace!traceSampled(trace(fresh), service.rate)) \in BOOLEAN
        <3>1. /\ (service.rate > 0) \in BOOLEAN
              /\ Trace!traceSampled(trace(fresh), service.rate) \in BOOLEAN
            BY SMT DEF Trace!traceSampled
        <3>2. ASSUME NEW b, NEW y \in BOOLEAN PROVE (IF b THEN wire.flag ELSE y) \in BOOLEAN
            BY <2>1
        <3> HIDE DEF trace
        <3> QED
            BY <3>1, <3>2, Zenon
    <2>4. <<>> \in Seq(Calls)
        OBVIOUS
    <2>5. new \in Hops
        <3> HIDE DEF trace
        <3> QED BY <2>1, <2>3, <2>4 DEF Hops
    <2> QED
        BY <2>5 DEF Decided
<1>4. /\ hops \in Seq(Hops) /\ hops' \in Seq(Hops) /\ Len(hops') = Len(hops) + 1
      /\ \A n \in 1..Len(hops) : hops'[n] = hops[n]
      /\ hops'[Len(hops) + 1] = new
    <2>1. hops \in Seq(Hops)
        BY DEF TraceInv, TraceOK
    <2> HIDE DEF new
    <2> QED
        BY <1>1, <1>3, <2>1, AppendProperties DEF new
<1>5. TraceOK'
    BY <1>2, <1>4 DEF TraceInv, TraceOK
<1>6. \A n \in 1..Len(hops') : Decided(hops'[n]) /\ Made(n, hops'[n])
    <2> HIDE DEF new
    <2> QED
        BY <1>3, <1>4 DEF TraceInv, Made
<1>7. ASSUME NEW n \in 2..Len(hops'), hops'[n - 1].traced, ~hops'[n - 1].service.own
      PROVE  /\ hops'[n].trace = hops'[n - 1].trace
             /\ hops'[n].service.trust => hops'[n].sampled = hops'[n - 1].sampled
             /\ \E i \in DOMAIN hops'[n - 1].calls :
                   hops'[n - 1].calls[i].id = hops'[n].parent
    <2>1. CASE n <= Len(hops)
        <3>1. n \in 2..Len(hops) /\ hops'[n] = hops[n] /\ hops'[n - 1] = hops[n - 1]
            BY <1>4, <2>1
        <3>2. Links(n, hops[n - 1])
            BY <3>1 DEF TraceInv
        <3> QED
            BY <1>7, <3>1, <3>2 DEF Links
    <2>2. CASE n = Len(hops) + 1
        <3>1. hops'[n] = new /\ hops'[n - 1] = hops[Len(hops)] /\ Len(hops) \in 1..Len(hops)
            BY <1>4, <2>2
        <3>2. hops[Len(hops)].calls # <<>>
            BY <1>2, <1>4, <3>1
        <3>3. wire.ok /\ LeadsTo(hops[Len(hops)], wire.trace, wire.parent, wire.flag)
            BY <1>7, <3>1, <3>2 DEF TraceInv
        <3> QED
            BY <3>1, <3>3 DEF LeadsTo
    <2> QED
        BY <1>4, <2>1, <2>2
<1>8. hops'[Len(hops')].calls = <<>>
    BY <1>3, <1>4
<1> QED
    <2> HIDE DEF new
    <2> QED
        BY <1>5, <1>6, <1>7, <1>8 DEF TraceInv, Links, Decided, Made

LEMMA RoundTripStep == ASSUME TraceInv, Trace!RoundTrip PROVE TraceInv'
<1> DEFINE N == Len(hops)
           hop == hops[N]
           span == <<N, Len(hop.calls) + 1>>
           call == [id |-> span, parent |-> <<N, 0>>, span |-> hop.traced /\ ~hop.service.own]
           new == [hop EXCEPT !.calls = Append(@, call)]
<1>1. /\ hops # <<>> /\ hops' = [hops EXCEPT ![N] = new]
      /\ wire' = IF call.span THEN Trace!Traceparent(hop, span) ELSE request
      /\ request' = request
    BY DEF Trace!RoundTrip, Trace!Last
<1>2. hops \in Seq(Hops) /\ N \in 1..Len(hops) /\ hop \in Hops
    <2>1. hops \in Seq(Hops)
        BY DEF TraceInv, TraceOK
    <2> QED
        BY <1>1, <2>1
<1>3. /\ hop.calls \in Seq(Calls) /\ call \in Calls
      /\ call.id = span /\ call.parent = <<N, 0>>
      /\ call.span = (hop.traced /\ ~hop.service.own)
    <2>1. hop.calls \in Seq(Calls) /\ hop.traced \in BOOLEAN /\ hop.service \in Services
        BY <1>2 DEF Hops
    <2> QED
        BY <1>2, <2>1 DEF Calls, Spans
<1> DEFINE calls == Append(hop.calls, call)
<1>4. /\ calls \in Seq(Calls) /\ Len(calls) = Len(hop.calls) + 1 /\ Len(hop.calls) \in Nat
      /\ \A i \in 1..Len(hop.calls) : calls[i] = hop.calls[i]
      /\ calls[Len(hop.calls) + 1] = call
    <2> HIDE DEF hop, call
    <2> QED
        BY <1>3, AppendProperties
<1>5. /\ new \in Hops /\ new.calls = calls /\ new.service = hop.service
      /\ new.traced = hop.traced /\ new.trace = hop.trace /\ new.sampled = hop.sampled
      /\ new.parent = hop.parent
    <2> HIDE DEF hop, call
    <2> QED
        BY <1>2, <1>4 DEF Hops
<1>6. /\ hops' \in Seq(Hops) /\ Len(hops') = N
      /\ \A n \in 1..N : hops'[n] = IF n = N THEN new ELSE hops[n]
    <2> HIDE DEF new, hop
    <2> QED
        BY <1>1, <1>2, <1>5
<1>7. /\ \A i \in DOMAIN hop.calls : i \in DOMAIN new.calls /\ new.calls[i] = hop.calls[i]
      /\ Len(hop.calls) + 1 \in DOMAIN new.calls /\ new.calls[Len(hop.calls) + 1] = call
      /\ \A i \in DOMAIN new.calls : i \in DOMAIN hop.calls \/ i = Len(hop.calls) + 1
    <2> HIDE DEF new, hop, call
    <2> QED
        BY <1>3, <1>4, <1>5
<1>8. TraceOK'
    <2>1. hop.trace \in Trace!Ids /\ hop.sampled \in BOOLEAN /\ span \in Spans
        BY <1>2, <1>3, <1>4 DEF Hops, Spans
    <2>2. Trace!Traceparent(hop, span) \in Wires /\ Trace!Traceparent(hop, span).trace \in Trace!Ids
        BY <2>1, ServicesAssumption DEF Trace!Traceparent, Wires, Trace!Ids
    <2>3. Trace!NoHeader \in Wires /\ ~Trace!NoHeader.ok
        BY DEF Trace!NoHeader, Wires, Spans
    <2> HIDE DEF hop, span
    <2> QED
        BY <1>1, <1>6, <2>2, <2>3 DEF TraceInv, TraceOK
<1>9. \A n \in 1..N : Decided(hops'[n]) /\ Made(n, hops'[n])
    <2>1. Decided(hop) /\ Made(N, hop)
        BY <1>2 DEF TraceInv
    <2>2. Decided(new)
        <3> HIDE DEF new, hop
        <3> QED BY <1>5, <2>1 DEF Decided
    <2>3. Made(N, new)
        <3> HIDE DEF new, hop, call
        <3> QED BY <1>3, <1>5, <1>7, <2>1 DEF Made
    <2> HIDE DEF new, hop
    <2> QED
        BY <1>6, <2>2, <2>3 DEF TraceInv
<1>10. ASSUME NEW n \in 2..N PROVE Links(n, hops[n - 1])'
    <2>1. Links(n, hops[n - 1]) /\ hops'[n - 1] = hops[n - 1]
        <3> HIDE DEF new, hop
        <3> QED BY <1>2, <1>6 DEF TraceInv
    <2>2. /\ hops'[n].trace = hops[n].trace /\ hops'[n].service = hops[n].service
          /\ hops'[n].sampled = hops[n].sampled /\ hops'[n].parent = hops[n].parent
        <3> HIDE DEF new
        <3> QED BY <1>2, <1>5, <1>6
    <2> QED
        BY <2>1, <2>2 DEF Links
<1>11. new.traced /\ ~new.service.own
          => wire'.ok /\ LeadsTo(new, wire'.trace, wire'.parent, wire'.flag)
    <2> SUFFICES ASSUME new.traced, ~new.service.own
                 PROVE  wire'.ok /\ LeadsTo(new, wire'.trace, wire'.parent, wire'.flag)
        OBVIOUS
    <2>1. wire' = Trace!Traceparent(hop, span)
        <3> HIDE DEF new, hop, call
        <3> QED BY <1>1, <1>3, <1>5
    <2>2. wire'.ok /\ wire'.trace = hop.trace /\ wire'.parent = span /\ wire'.flag = hop.sampled
        BY <2>1 DEF Trace!Traceparent
    <2>3. new.calls[Len(hop.calls) + 1].id = span
        <3> HIDE DEF new, hop, call
        <3> QED BY <1>3, <1>7
    <2> HIDE DEF new, hop
    <2> QED
        BY <1>5, <1>7, <2>2, <2>3 DEF LeadsTo
<1> QED
    <2>1. hops'[Len(hops')] = new
        <3> HIDE DEF new
        <3> QED BY <1>2, <1>6
    <2> HIDE DEF new, hop
    <2> QED
        BY <1>6, <1>8, <1>9, <1>10, <1>11, <2>1 DEF TraceInv, Decided, Made

LEMMA StepTrace == TraceInv /\ [Next]_vars => TraceInv'
<1> SUFFICES ASSUME TraceInv, [Next]_vars PROVE TraceInv'
    OBVIOUS
<1>1. CASE UNCHANGED traceVars
    BY <1>1 DEF traceVars, TraceInv, TraceOK, Decided, Made, Links, LeadsTo
<1>2. CASE Trace!Next
    BY <1>2, ReceiveStep, RoundTripStep DEF Trace!Next
<1> QED
    BY <1>1, <1>2 DEF Next, vars, traceVars

LEMMA TraceInductive == Spec => []TraceInv
BY InitTrace, StepTrace, PTL DEF Spec

LEMMA TracesHold == TraceInv => TraceHoldsTogether
<1> SUFFICES ASSUME TraceInv PROVE TraceHoldsTogether
    OBVIOUS
<1>1. /\ hops \in Seq(Hops) /\ DOMAIN hops = 1..Len(hops) /\ Len(hops) \in Nat
      /\ \A n \in DOMAIN hops : hops[n] \in Hops /\ Decided(hops[n]) /\ Made(n, hops[n])
      /\ \A n \in DOMAIN hops : n # 1 => (n - 1) \in DOMAIN hops /\ Links(n, hops[n - 1])
    <2>1. hops \in Seq(Hops)
        BY DEF TraceInv, TraceOK
    <2> QED
        BY <2>1 DEF TraceInv
<1>2. ASSUME NEW n \in DOMAIN hops, ~hops[n].service.trust
      PROVE  hops[n].sampled = (hops[n].trace \in Trace!Share(hops[n].service.rate))
    <2>1. /\ hops[n].trace \in Trace!Ids /\ hops[n].service.rate \in 0..IdRange
          /\ hops[n].sampled = Trace!traceSampled(hops[n].trace, hops[n].service.rate)
        BY <1>1, <1>2, ServicesAssumption DEF Hops, Decided
    <2> QED
        BY <2>1, ServicesAssumption DEF Trace!traceSampled, Trace!Share, Trace!Ids
<1>3. Trace!WholeOrNotAtAll
    <2>1. \A n \in DOMAIN hops : hops[n].trace \in Trace!Ids /\ hops[n].service.rate \in 0..IdRange
        BY <1>1, ServicesAssumption DEF Hops
    <2>2. ASSUME NEW i \in DOMAIN hops, NEW j \in DOMAIN hops,
                 ~hops[i].service.trust, ~hops[j].service.trust, hops[i].trace = hops[j].trace,
                 hops[i].service.rate <= hops[j].service.rate, hops[i].sampled
          PROVE  hops[j].sampled
        <3>1. hops[i].trace \in Trace!Share(hops[i].service.rate)
            BY <1>2, <2>2
        <3>2. hops[j].trace \in Trace!Share(hops[j].service.rate)
            BY <2>1, <2>2, <3>1, ServicesAssumption DEF Trace!Share, Trace!Ids
        <3> QED
            BY <1>2, <2>2, <3>2
    <2> QED
        BY <1>2, <2>2 DEF Trace!WholeOrNotAtAll, Trace!Traced
<1>4. Trace!TrustFollows
    BY <1>1 DEF Trace!TrustFollows, Trace!Traced, Links
<1>5. Trace!Connected
    <2>1. ASSUME NEW n \in Trace!Traced \ {1}, (n - 1) \in Trace!Traced, ~hops[n - 1].service.own
          PROVE  /\ hops[n].trace = hops[n - 1].trace
                 /\ \E call \in Trace!ToSet(hops[n - 1].calls) :
                       /\ call.span /\ call.id = hops[n].parent
                       /\ call.parent = <<n - 1, 0>>
        <3>1. /\ n \in DOMAIN hops /\ n # 1 /\ (n - 1) \in DOMAIN hops
              /\ hops[n - 1].traced
            BY <2>1 DEF Trace!Traced
        <3>2. Links(n, hops[n - 1]) /\ Made(n - 1, hops[n - 1])
            BY <1>1, <3>1
        <3>3. PICK i \in DOMAIN hops[n - 1].calls : hops[n - 1].calls[i].id = hops[n].parent
            BY <2>1, <3>1, <3>2 DEF Links
        <3>4. hops[n - 1].calls[i] \in Trace!ToSet(hops[n - 1].calls)
            BY <3>3 DEF Trace!ToSet
        <3> QED
            BY <2>1, <3>1, <3>2, <3>3, <3>4 DEF Links, Made
    <2> QED
        BY <2>1 DEF Trace!Connected, TraceInv, TraceOK
<1> QED
    BY <1>3, <1>4, <1>5 DEF TraceHoldsTogether, Trace!TraceHoldsTogether

\* A trace is recorded whole or not at all, and its parts are linked, for any number of
\* services, of ids and of calls.
THEOREM TracesHoldTogether == Spec => []TraceHoldsTogether
BY TraceInductive, TracesHold, PTL

-----------------------------------------------------------------------------
(* One record and the handlers it goes through.                             *)

Keys == Seq(STRING)
Gifts == [within : Keys, attr : Attrs]
AttrTypes == [key : Keys, inner : Seq(Attrs), value : STRING]
Prefixed(attr, prefix) ==
    [key |-> prefix \o attr.key, inner |-> attr.inner, value |-> attr.value]

\* A handler's attributes are those it was given, under the groups then open, and the
\* wrapped handler, if there is one, was given the same.
HandlerOK ==
    /\ settings \in [event : Levels, crumb : Levels, next : Levels \cup {Record!Never},
                     enabled : BOOLEAN]
    /\ opened \in Keys /\ group = opened
    /\ given \in Seq(Gifts)
    /\ attrs \in Seq(AttrTypes) /\ Len(attrs) = Len(given)
    /\ \A i \in 1..Len(given) : attrs[i] = Prefixed(given[i].attr, given[i].within)
    /\ settings.next # Record!Never => wrapped = [opened |-> opened, given |-> given]

RecordInv == HandlerOK /\ LogTellsAll

LEMMA KeyChanged ==
    ASSUME NEW K, NEW I, NEW V, NEW k, NEW r \in [key : K, inner : I, value : V]
    PROVE  [r EXCEPT !.key = k] = [key |-> k, inner |-> r.inner, value |-> r.value]
OBVIOUS

LEMMA KeyFacts ==
    ASSUME NEW p \in Keys, NEW k \in Keys
    PROVE  /\ p \o k \in Keys /\ <<>> \o p = p /\ p \o <<>> = p
           /\ p \o k = <<>> <=> p = <<>> /\ k = <<>>
<1>1. <<>> \in Keys /\ Len(<<>>) = 0 /\ Len(p) \in Nat
    BY DEF Keys
<1>2. p \o k \in Keys /\ Len(p \o k) = Len(p) + Len(k)
    BY ConcatProperties DEF Keys
<1>3. <<>> \o p = p /\ p \o <<>> = p
    BY DEF Keys
<1>4. \A q \in Keys : Len(q) \in Nat /\ (q = <<>> <=> Len(q) = 0)
    BY DEF Keys
<1> QED
    BY <1>2, <1>3, <1>4

\* An attribute given to a handler comes to the pairs it should.
LEMMA FlattensAsGiven ==
    ASSUME NEW attr \in Attrs, NEW within \in Keys
    PROVE  Record!flattenAttr(<<>>, Prefixed(attr, within)) = Record!Expected(within, attr)
<1> DEFINE a == Prefixed(attr, within)
<1>1. attr.key \in Keys /\ within \o attr.key \in Keys
    BY AttrsAssumption, KeyFacts DEF Keys
<1>2. a.key = within \o attr.key /\ a.value = attr.value /\ a.inner = attr.inner
    BY DEF Prefixed
<1>3. /\ <<>> \o (within \o attr.key) = within \o attr.key
      /\ within \o attr.key = <<>> <=> within = <<>> /\ attr.key = <<>>
      /\ within \o <<>> = within
    BY <1>1, KeyFacts
<1> SUFFICES Record!flattenAttr(<<>>, a) = Record!Expected(within, attr)
    OBVIOUS
<1> HIDE DEF a
<1> USE DEF Record!flattenAttr, Record!Expected, Record!Pair, Record!joinKey
<1>4. CASE attr.value = "group"
    BY <1>2, <1>3, <1>4
<1>5. CASE attr.value # "group"
    BY <1>2, <1>3, <1>5
<1> QED
    BY <1>4, <1>5

LEMMA InitRecord == Init => RecordInv
<1> SUFFICES ASSUME Init PROVE RecordInv
    OBVIOUS
<1>1. /\ settings \in [event : Levels, crumb : Levels, next : Levels \cup {Record!Never},
                       enabled : BOOLEAN]
      /\ attrs = <<>> /\ group = <<>> /\ opened = <<>> /\ given = <<>>
      /\ wrapped = [opened |-> <<>>, given |-> <<>>]
      /\ logged = [done |-> FALSE]
    BY DEF Init, Record!Init
<1>2. HandlerOK
    BY <1>1 DEF HandlerOK, Keys
<1>3. LogTellsAll
    BY <1>1 DEF LogTellsAll, Record!LogTellsAll, Record!FieldsAsGiven, Record!RecordReachesEveryone
<1> QED
    BY <1>2, <1>3 DEF RecordInv

LEMMA WithGroupStep ==
    ASSUME HandlerOK, NEW name \in Names, Record!WithGroup(name)
    PROVE  HandlerOK'
<1>1. /\ group' = group \o <<name>> /\ opened' = Append(opened, name)
      /\ UNCHANGED <<settings, attrs, given>>
    BY DEF Record!WithGroup, Record!joinKey
<1>2. opened \in Keys /\ group = opened /\ name \in STRING
    BY AttrsAssumption DEF HandlerOK
<1>3. opened' \in Keys /\ group' = opened'
    <2> DEFINE S == STRING
    <2>1. Keys = Seq(S) /\ opened \in Seq(S) /\ name \in S
        BY <1>2 DEF Keys
    <2> HIDE DEF S
    <2>2. Append(opened, name) \in Seq(S) /\ Append(opened, name) = opened \o <<name>>
        <3>1. \A q \in Seq(S), x \in S : Append(q, x) \in Seq(S) /\ Append(q, x) = q \o <<x>>
            BY AppendIsConcat
        <3> QED
            BY <2>1, <3>1
    <2> QED
        BY <1>1, <1>2, <2>1, <2>2
<1>4. settings'.next # Record!Never => wrapped' = [opened |-> opened', given |-> given']
    <2> SUFFICES ASSUME settings.next # Record!Never
                 PROVE  wrapped' = [opened |-> opened', given |-> given]
        BY <1>1
    <2>1. wrapped = [opened |-> opened, given |-> given]
        BY DEF HandlerOK
    <2>2. wrapped' = [wrapped EXCEPT !.opened = Append(wrapped.opened, name)]
        BY DEF Record!WithGroup
    <2> QED
        BY <1>1, <2>1, <2>2
<1> QED
    BY <1>1, <1>3, <1>4 DEF HandlerOK

LEMMA WithAttrsStep ==
    ASSUME HandlerOK, NEW attr \in Attrs, Record!WithAttrs(attr)
    PROVE  HandlerOK'
<1> DEFINE new == Prefixed(attr, opened)
           gift == [within |-> opened, attr |-> attr]
<1>1. /\ attrs' = attrs \o Record!prefixAttrs(group, <<attr>>)
      /\ given' = Append(given, gift)
      /\ UNCHANGED <<settings, group, opened>>
    BY DEF Record!WithAttrs
<1>2. /\ group = opened /\ opened \in Keys /\ attrs \in Seq(AttrTypes)
      /\ given \in Seq(Gifts) /\ Len(attrs) = Len(given)
      /\ \A i \in 1..Len(given) : attrs[i] = Prefixed(given[i].attr, given[i].within)
    BY DEF HandlerOK
<1>3. Record!prefixAttrs(group, <<attr>>) = <<new>>
    <2>1. [attr EXCEPT !.key = opened \o attr.key] = new
        <3>1. attr \in [key : Seq(STRING), inner : Seq(Attrs), value : STRING]
            BY AttrsAssumption
        <3> QED
            <4> DEFINE k == opened \o attr.key
            <4>1. \A r \in [key : Seq(STRING), inner : Seq(Attrs), value : STRING], v \in {k} :
                     [r EXCEPT !.key = v] = [key |-> v, inner |-> r.inner, value |-> r.value]
                <5> HIDE DEF k
                <5> QED BY KeyChanged
            <4> QED
                BY <3>1, <4>1, Zenon DEF Prefixed
    <2>2. Record!prefixAttrs(group, <<attr>>)
             = [i \in DOMAIN <<attr>> |-> [<<attr>>[i] EXCEPT !.key = opened \o <<attr>>[i].key]]
        BY <1>2 DEF Record!prefixAttrs, Record!joinKey
    <2>3. DOMAIN <<attr>> = {1} /\ <<attr>>[1] = attr
        OBVIOUS
    <2>4. \A i \in DOMAIN <<attr>> : [<<attr>>[i] EXCEPT !.key = opened \o <<attr>>[i].key] = new
        BY <2>1, <2>3
    <2>5. [i \in {1} |-> new] = <<new>>
        <3> HIDE DEF new
        <3> QED OBVIOUS
    <2> HIDE DEF new
    <2> QED
        BY <2>2, <2>3, <2>4, <2>5
<1>4. new \in AttrTypes
    <2>1. attr.key \in Keys /\ opened \o attr.key \in Keys
        BY <1>2, AttrsAssumption, KeyFacts DEF Keys
    <2> QED
        BY <2>1, AttrsAssumption DEF AttrTypes, Prefixed, Keys
<1> HIDE DEF new
<1>5. /\ attrs' \in Seq(AttrTypes) /\ Len(attrs') = Len(attrs) + 1
      /\ \A i \in 1..Len(attrs) : attrs'[i] = attrs[i]
      /\ attrs'[Len(attrs) + 1] = new
    <2>1. attrs' = attrs \o <<new>> /\ attrs \in Seq(AttrTypes) /\ <<new>> \in Seq(AttrTypes)
        <3>1. attrs' = attrs \o <<new>>
            BY <1>1, <1>3
        <3> QED
            BY <1>2, <1>4, <3>1
    <2>2. Len(<<new>>) = 1 /\ <<new>>[1] = new /\ Len(attrs) \in Nat
        BY <2>1
    <2> QED
        BY <2>1, <2>2, ConcatProperties
<1>6. /\ gift \in Gifts
      /\ given' \in Seq(Gifts) /\ Len(given') = Len(given) + 1
      /\ \A i \in 1..Len(given) : given'[i] = given[i]
      /\ given'[Len(given) + 1] = gift
    <2>1. gift \in Gifts
        BY <1>2 DEF Gifts
    <2> HIDE DEF gift
    <2> QED
        BY <1>1, <1>2, <2>1, AppendProperties
<1>7. new = Prefixed(gift.attr, gift.within)
    BY DEF new
<1>9. settings'.next # Record!Never => wrapped' = [opened |-> opened', given |-> given']
    <2> SUFFICES ASSUME settings.next # Record!Never
                 PROVE  wrapped' = [opened |-> opened, given |-> given']
        BY <1>1
    <2>1. wrapped = [opened |-> opened, given |-> given]
        BY DEF HandlerOK
    <2>2. wrapped' = [wrapped EXCEPT !.given =
                         Append(wrapped.given, [within |-> wrapped.opened, attr |-> attr])]
        BY DEF Record!WithAttrs
    <2> QED
        BY <1>1, <2>1, <2>2
<1> HIDE DEF gift
<1>8. ASSUME NEW i \in 1..Len(given')
      PROVE  attrs'[i] = Prefixed(given'[i].attr, given'[i].within)
    BY <1>2, <1>5, <1>6, <1>7
<1> QED
    BY <1>1, <1>2, <1>5, <1>6, <1>8, <1>9 DEF HandlerOK, Prefixed

\* The fields of a record are those of its attributes as they were given.
LEMMA FieldsOf ==
    ASSUME HandlerOK, NEW attr \in Attrs
    PROVE  Record!fields(attr)
              = Record!Fields(Record!FlattenSeq([i \in DOMAIN given |->
                                  Record!Expected(given[i].within, given[i].attr)])
                              \o Record!flattenAttr(opened, attr))
<1>1. /\ given \in Seq(Gifts) /\ Len(attrs) = Len(given)
      /\ attrs \in Seq(AttrTypes) /\ group = opened
      /\ \A i \in 1..Len(given) : attrs[i] = Prefixed(given[i].attr, given[i].within)
    BY DEF HandlerOK
<1>2. DOMAIN attrs = 1..Len(given) /\ DOMAIN given = 1..Len(given)
    BY <1>1
<1>3. ASSUME NEW i \in DOMAIN given
      PROVE  Record!flattenAttr(<<>>, attrs[i])
                = Record!Expected(given[i].within, given[i].attr)
    <2>1. given[i] \in Gifts
        BY <1>1, <1>2
    <2>2. given[i].within \in Keys /\ given[i].attr \in Attrs
        BY <2>1 DEF Gifts
    <2>3. attrs[i] = Prefixed(given[i].attr, given[i].within)
        BY <1>1, <1>2
    <2> QED
        BY <2>2, <2>3, FlattensAsGiven
<1>4. [i \in DOMAIN attrs |-> Record!flattenAttr(<<>>, attrs[i])]
         = [i \in DOMAIN given |-> Record!Expected(given[i].within, given[i].attr)]
    BY <1>2, <1>3
<1> QED
    BY <1>1, <1>4 DEF Record!fields

LEMMA LogStep ==
    ASSUME HandlerOK, NEW level \in Levels, NEW attr \in Attrs, Record!Log(level, attr)
    PROVE  LogTellsAll'
<1>1. PICK sampled \in BOOLEAN, heldBack \in BOOLEAN, type \in Record!EventTypes(Record!fields(attr)) :
        LET handled == Record!Enabled(level)
            event   == level >= settings.event
        IN  logged' = [done   |-> TRUE, level |-> level, attr |-> attr,
                       wanted |-> sampled /\ ~heldBack,
                       type   |-> type, fields |-> Record!fields(attr),
                       event  |-> handled /\ settings.enabled /\ event
                                  /\ sampled /\ ~heldBack,
                       crumb  |-> handled /\ settings.enabled /\ ~event
                                  /\ level >= settings.crumb,
                       next   |-> handled /\ level >= settings.next]
    BY DEF Record!Log
<1>2. UNCHANGED <<settings, attrs, group, opened, given, wrapped>>
    BY DEF Record!Log
<1>3. Record!FieldsAsGiven'
    <2>1. logged'.fields = Record!fields(attr) /\ logged'.attr = attr
        BY <1>1
    <2> QED
        BY <1>2, <2>1, FieldsOf DEF Record!FieldsAsGiven
<1>4. Record!RecordReachesEveryone'
    <2>1. /\ logged'.level = level /\ logged'.wanted = (sampled /\ ~heldBack) /\ logged'.type = type
          /\ logged'.fields = Record!fields(attr)
          /\ logged'.next = (Record!Enabled(level) /\ level >= settings.next)
          /\ logged'.event = (/\ Record!Enabled(level) /\ settings.enabled
                              /\ level >= settings.event /\ sampled /\ ~heldBack)
          /\ logged'.crumb = (/\ Record!Enabled(level) /\ settings.enabled
                              /\ ~(level >= settings.event) /\ level >= settings.crumb)
        BY <1>1
    <2> DEFINE errs == {logged'.fields[k] : k \in DOMAIN logged'.fields} \cap ErrorValues
    <2>2. (type = "log") = (errs = {})
        <3>1. type \in IF errs = {} THEN {"log"} ELSE errs
            BY <2>1 DEF Record!EventTypes
        <3> QED
            BY <3>1, ErrorValuesAssumption
    <2>3. /\ logged'.next = (level >= settings.next)
          /\ ~(logged'.event /\ logged'.crumb)
          /\ settings.enabled /\ sampled /\ ~heldBack /\ level >= settings.event
                => logged'.event
          /\ settings.enabled /\ level >= settings.crumb
                => logged'.crumb \/ level >= settings.event
        BY <2>1 DEF Record!Enabled
    <2>4. settings.next # Record!Never => wrapped = [opened |-> opened, given |-> given]
        BY DEF HandlerOK
    <2> QED
        BY <1>2, <2>1, <2>2, <2>3, <2>4 DEF Record!RecordReachesEveryone
<1> QED
    BY <1>3, <1>4 DEF LogTellsAll, Record!LogTellsAll

LEMMA StepRecord == RecordInv /\ [Next]_vars => RecordInv'
<1> SUFFICES ASSUME RecordInv, [Next]_vars PROVE RecordInv'
    OBVIOUS
<1> USE DEF RecordInv
<1>1. CASE UNCHANGED recordVars
    BY <1>1 DEF recordVars, HandlerOK, LogTellsAll, Record!LogTellsAll, Record!FieldsAsGiven,
                Record!RecordReachesEveryone
<1>2. CASE Record!Next
    <2>1. ASSUME logged' = logged, ~logged.done PROVE LogTellsAll'
        BY <2>1 DEF LogTellsAll, Record!LogTellsAll, Record!FieldsAsGiven,
                    Record!RecordReachesEveryone
    <2>2. ASSUME NEW name \in Names, Record!WithGroup(name) PROVE RecordInv'
        BY <1>2, <2>1, <2>2, WithGroupStep DEF Record!WithGroup, Record!Next
    <2>3. ASSUME NEW attr \in Attrs, Record!WithAttrs(attr) PROVE RecordInv'
        BY <1>2, <2>1, <2>3, WithAttrsStep DEF Record!WithAttrs, Record!Next
    <2>4. ASSUME NEW level \in Levels, NEW attr \in Attrs, Record!Log(level, attr)
          PROVE  RecordInv'
        <3>1. HandlerOK'
            BY <2>4 DEF Record!Log, HandlerOK
        <3> QED
            BY <2>4, <3>1, LogStep
    <2> QED
        BY <1>2, <2>2, <2>3, <2>4 DEF Record!Next
<1> QED
    BY <1>1, <1>2 DEF Next, vars, recordVars

LEMMA RecordInductive == Spec => []RecordInv
BY InitRecord, StepRecord, PTL DEF Spec

\* A record's fields are those of its attributes as they were given, and it reaches all
\* it is meant for, whatever is in the groups and however often handlers are derived.
THEOREM LogsTellAll == Spec => []LogTellsAll
<1>1. RecordInv => LogTellsAll
    BY DEF RecordInv
<1> QED
    BY <1>1, RecordInductive, PTL

-----------------------------------------------------------------------------
(* The frames of a panic.                                                   *)

FrameKinds == {"app", "guard", "gopanic", "runtime"}
Bottom == IF Len(stack) < MaxFrames THEN 1 ELSE Len(stack) + 1 - MaxFrames
Cause  == IF origin = 0 THEN Len(stack) ELSE origin

\* Up to where things went wrong there are calls only; on top of it the runtime's frames,
\* and then guards, what they call and what they raise again.
At(s, h) == s[Len(s) + 1 - h]

Shaped(s, o) ==
    /\ s \in Seq(FrameKinds) /\ s # <<>>
    /\ o \in 0..Len(s) /\ o # Len(s)
    /\ \A h \in 1..(IF o = 0 THEN Len(s) ELSE o) : At(s, h) = "app"
    /\ o # 0 => /\ At(s, o + 1) \in {"gopanic", "runtime"}
                /\ At(s, o + 1) = "runtime" => o + 2 <= Len(s) /\ At(s, o + 2) = "gopanic"
                /\ \A h \in (o + 2)..Len(s) : At(s, h) # "runtime"

Shape == Shaped(stack, origin)

Reported == frames = <<>> \/ (frames = Stack!captureStack /\ Head(stack) # "gopanic")

StackInv == Shape /\ Reported

\* The frames of an interval of heights.
LEMMA SameCardinality == ASSUME NEW S PROVE Stack!Cardinality(S) = Cardinality(S)
BY DEF Stack!Cardinality, Cardinality

LEMMA Descending ==
    ASSUME NEW a \in Nat, NEW b \in Int, a <= b + 1
    PROVE  Stack!InOrder(a..b) = [i \in 1..(b + 1 - a) |-> b + 1 - i]
<1> DEFINE H == a..b
           Above(h) == {g \in H : g >= h}
           place(i) == CHOOSE h \in H : Stack!Cardinality(Above(h)) = i
<1>1. Stack!Cardinality(H) = b + 1 - a
    <2>1. Cardinality(a..b) = IF a > b THEN 0 ELSE b - a + 1
        BY FS_Interval
    <2> QED
        BY <2>1, SameCardinality
<1>2. ASSUME NEW h \in H PROVE Stack!Cardinality(Above(h)) = b + 1 - h
    <2>1. Above(h) = h..b /\ h \in Int /\ h <= b
        OBVIOUS
    <2>2. Cardinality(h..b) = b - h + 1
        BY <2>1, FS_Interval
    <2> HIDE DEF Above, H
    <2> QED
        BY <2>1, <2>2, SameCardinality
<1>3. ASSUME NEW i \in 1..(b + 1 - a) PROVE place(i) = b + 1 - i
    <2>1. b + 1 - i \in H /\ b + 1 - (b + 1 - i) = i
        OBVIOUS
    <2>2. \A h \in H : Stack!Cardinality(Above(h)) = i <=> h = b + 1 - i
        <3> HIDE DEF Above
        <3> QED BY <1>2
    <2> HIDE DEF H, Above
    <2> QED
        BY <2>1, <2>2
<1> QED
    <2> HIDE DEF place
    <2>1. Stack!InOrder(H) = [i \in 1..Stack!Cardinality(H) |-> place(i)]
        BY DEF Stack!InOrder, place
    <2> HIDE DEF H
    <2>2. Stack!InOrder(H) = [i \in 1..(b + 1 - a) |-> b + 1 - i]
        BY <1>1, <1>3, <2>1
    <2> QED
        BY <2>2 DEF H

\* What is left of the frames is an interval of heights; it starts at the cause where
\* that is within the frames collected.
LEMMA Trimmed ==
    ASSUME Shape
    PROVE  \E b \in (Bottom - 1)..Len(stack) :
              /\ Stack!captureStack = Stack!InOrder(Bottom..b)
              /\ Len(stack) - Cause < MaxFrames => b = Cause
<1> DEFINE W == {h \in 1..Len(stack) : h + MaxFrames > Len(stack)}
           P == {h \in W : Stack!Frame(h) = "gopanic"}
           K == {h \in W : (\A p \in P : h < p) /\ ~Stack!isNoise(h)}
<1>0. /\ stack \in Seq(FrameKinds) /\ stack # <<>>
      /\ origin \in 0..Len(stack) /\ origin # Len(stack)
      /\ \A h \in 1..Cause : Stack!Frame(h) = "app"
      /\ origin # 0 =>
            /\ Stack!Frame(origin + 1) \in {"gopanic", "runtime"}
            /\ Stack!Frame(origin + 1) = "runtime"
                  => origin + 2 <= Len(stack) /\ Stack!Frame(origin + 2) = "gopanic"
            /\ \A h \in (origin + 2)..Len(stack) : Stack!Frame(h) # "runtime"
    BY DEF Shape, Shaped, At, Stack!Frame, Cause
<1>1. /\ Len(stack) \in Nat /\ Len(stack) > 0 /\ MaxFrames \in Nat /\ MaxFrames > 0
      /\ Bottom \in 1..Len(stack) /\ Cause \in 1..Len(stack)
      /\ W = Bottom..Len(stack) /\ origin \in Nat
      /\ origin # 0 => Cause = origin /\ origin < Len(stack)
      /\ origin = 0 => Cause = Len(stack)
    BY <1>0, MaxFramesAssumption DEF Bottom, Cause
<1>2. Stack!captureStack = Stack!InOrder(K)
    BY DEF Stack!captureStack, Stack!trimRuntimeFrames
<1>3. ASSUME NEW h \in K, NEW g \in Bottom..h PROVE g \in K
    <2>1. g \in W /\ h \in W /\ g <= h /\ h <= Len(stack) /\ g \in Nat /\ h \in Nat
        BY <1>1, <1>3
    <2>2. g \notin P
        BY <1>3, <2>1
    <2>3. Stack!Frame(g) # "runtime"
        <3> SUFFICES ASSUME Stack!Frame(g) = "runtime" PROVE FALSE
            OBVIOUS
        <3>1. g > Cause
            <4>1. g \in 1..Cause => FALSE
                BY <1>0
            <4> QED
                BY <1>1, <2>1, <4>1
        <3>2. origin # 0 /\ Cause = origin
            BY <1>1, <2>1, <3>1
        <3>3. g = origin + 1
            <4>1. g \in (origin + 2)..Len(stack) => FALSE
                BY <1>0, <3>2
            <4> QED
                BY <1>1, <2>1, <3>1, <3>2, <4>1
        <3>4. origin + 2 <= Len(stack) /\ Stack!Frame(origin + 2) = "gopanic"
            BY <1>0, <3>2, <3>3
        <3>5. g # h
            BY <1>3 DEF Stack!isNoise
        <3>6. origin + 2 \in P
            BY <1>1, <2>1, <3>3, <3>4
        <3> QED
            BY <1>1, <1>3, <2>1, <3>3, <3>5, <3>6
    <2> QED
        BY <1>3, <2>1, <2>2, <2>3 DEF Stack!isNoise
<1>4. PICK b \in (Bottom - 1)..Len(stack) : K = Bottom..b
    <2>1. CASE K = {}
        <3>1. Bottom - 1 \in (Bottom - 1)..Len(stack) /\ Bottom..(Bottom - 1) = {}
            BY <1>1
        <3> QED
            BY <2>1, <3>1
    <2>2. CASE K # {}
        <3> DEFINE T == {n \in Nat : Len(stack) - n \in K}
        <3>1. PICK h \in K : TRUE
            BY <2>2
        <3>2. K \subseteq Bottom..Len(stack)
            BY <1>1
        <3> HIDE DEF K
        <3>3. Len(stack) - h \in T
            BY <1>1, <3>1, <3>2
        <3>4. PICK m \in T : \A n \in T : m <= n
            <4>1. T \subseteq Nat /\ T # {}
                BY <3>3
            <4> HIDE DEF T
            <4> QED BY <4>1, SmallestNumber
        <3>5. Len(stack) - m \in K /\ m \in Nat
            BY <3>4
        <3>6. ASSUME NEW g \in K PROVE g <= Len(stack) - m
            <4>1. Len(stack) - g \in Nat /\ Len(stack) - (Len(stack) - g) = g
                BY <1>1, <3>2
            <4>2. Len(stack) - g \in T
                BY <3>6, <4>1
            <4>3. m <= Len(stack) - g
                <5> HIDE DEF T
                <5> QED BY <3>4, <4>2
            <4> QED
                BY <1>1, <3>2, <3>5, <4>1, <4>3
        <3> DEFINE b == Len(stack) - m
        <3>7. b \in K /\ b \in Int /\ Bottom \in Int
            BY <1>1, <3>5
        <3>8. \A g \in K : g \in Bottom..b
            <4> HIDE DEF b
            <4>1. \A g \in K : g \in Int /\ g >= Bottom
                BY <1>1, <3>2
            <4>2. \A g \in K : g <= b
                BY <3>6 DEF b
            <4> QED BY <3>7, <4>1, <4>2
        <3>9. K = Bottom..b
            <4> HIDE DEF b
            <4> QED BY <1>3, <3>7, <3>8
        <3> QED
            BY <1>1, <3>2, <3>7, <3>9
    <2> QED
        BY <2>1, <2>2
<1>5. ASSUME Len(stack) - Cause < MaxFrames PROVE b = Cause
    <2>1. Cause \in W /\ Stack!Frame(Cause) = "app"
        BY <1>0, <1>1, <1>5
    <2>2. \A p \in P : Cause < p
        <3>1. \A p \in 1..Cause : Stack!Frame(p) = "app"
            BY <1>0
        <3> QED
            BY <1>1, <3>1
    <2>3. Cause \in K
        BY <2>1, <2>2 DEF Stack!isNoise
    <2>4. CASE origin = 0
        BY <1>1, <1>4, <2>3, <2>4
    <2>5. CASE origin # 0
        <3>1. origin + 1 \notin K
            BY <1>0, <2>5 DEF Stack!isNoise
        <3> HIDE DEF K
        <3> QED
            BY <1>1, <1>4, <2>3, <2>5, <3>1
    <2> QED
        BY <2>4, <2>5
<1> QED
    BY <1>2, <1>4, <1>5

LEMMA StacksStart == StackInv => StackStartsAtTheCause
<1> SUFFICES ASSUME Shape, frames = Stack!captureStack, frames # <<>>
             PROVE  LET reached == Len(stack) - Cause < MaxFrames
                    IN  /\ reached => frames[1] = Cause
                        /\ \A i \in DOMAIN frames :
                              /\ i > 1 => frames[i] = frames[i - 1] - 1
                              /\ reached => Stack!Frame(frames[i]) = "app"
                        /\ Stack!Last(frames) = Bottom
    BY DEF StackInv, Reported, StackStartsAtTheCause, Stack!StackStartsAtTheCause, Cause, Bottom
<1>0. /\ stack \in Seq(FrameKinds) /\ stack # <<>>
      /\ origin \in 0..Len(stack) /\ origin # Len(stack)
      /\ \A h \in 1..Cause : Stack!Frame(h) = "app"
      /\ origin # 0 =>
            /\ Stack!Frame(origin + 1) \in {"gopanic", "runtime"}
            /\ Stack!Frame(origin + 1) = "runtime"
                  => origin + 2 <= Len(stack) /\ Stack!Frame(origin + 2) = "gopanic"
            /\ \A h \in (origin + 2)..Len(stack) : Stack!Frame(h) # "runtime"
    BY DEF Shape, Shaped, At, Stack!Frame, Cause
<1>1. Len(stack) \in Nat /\ Bottom \in 1..Len(stack) /\ Cause \in Nat
    BY <1>0, MaxFramesAssumption DEF Bottom, Cause
<1>2. PICK b \in (Bottom - 1)..Len(stack) :
              /\ frames = Stack!InOrder(Bottom..b)
              /\ Len(stack) - Cause < MaxFrames => b = Cause
    BY Trimmed
<1> DEFINE n == b + 1 - Bottom
<1>3. /\ frames = [i \in 1..n |-> b + 1 - i] /\ n \in Nat /\ Bottom \in Nat /\ b \in Int
    BY <1>1, <1>2, Descending
<1>4. n > 0
    BY <1>3
<1>5. DOMAIN frames = 1..n /\ \A i \in 1..n : frames[i] = b + 1 - i
    BY <1>3
<1>6. Stack!Last(frames) = Bottom
    <2>1. Len(frames) = n
        BY <1>3
    <2> QED
        BY <1>3, <1>4, <1>5, <2>1 DEF Stack!Last
<1>7. ASSUME NEW i \in 1..n, Len(stack) - Cause < MaxFrames
      PROVE  Stack!Frame(frames[i]) = "app"
    <2>1. frames[i] \in 1..Cause
        BY <1>1, <1>2, <1>3, <1>5, <1>7
    <2> QED
        BY <1>0, <2>1
<1> QED
    BY <1>2, <1>3, <1>4, <1>5, <1>6, <1>7

\* Whatever is put on a stack leaves the heights below it.
LEMMA Pushed ==
    ASSUME NEW s \in Seq(FrameKinds), NEW fs \in Seq(FrameKinds), s # <<>>
    PROVE  /\ fs \o s \in Seq(FrameKinds) /\ fs \o s # <<>>
           /\ Len(fs \o s) = Len(s) + Len(fs) /\ Len(s) \in Nat /\ Len(s) > 0 /\ Len(fs) \in Nat
           /\ \A h \in 1..Len(s) : At(fs \o s, h) = At(s, h)
           /\ \A h \in (Len(s) + 1)..(Len(s) + Len(fs)) :
                 At(fs \o s, h) = fs[Len(s) + Len(fs) + 1 - h]
<1> DEFINE t == fs \o s
<1>1. /\ t \in Seq(FrameKinds) /\ Len(t) = Len(fs) + Len(s)
      /\ \A i \in 1..Len(fs) + Len(s) :
            t[i] = IF i <= Len(fs) THEN fs[i] ELSE s[i - Len(fs)]
    BY ConcatProperties
<1>2. Len(s) \in Nat /\ Len(fs) \in Nat /\ Len(s) > 0
    OBVIOUS
<1> HIDE DEF t
<1>3. ASSUME NEW h \in 1..Len(s) PROVE At(t, h) = At(s, h)
    <2>1. /\ Len(t) + 1 - h \in 1..Len(fs) + Len(s) /\ ~(Len(t) + 1 - h <= Len(fs))
          /\ (Len(t) + 1 - h) - Len(fs) = Len(s) + 1 - h
        BY <1>1, <1>2
    <2> QED
        BY <1>1, <2>1 DEF At
<1>4. ASSUME NEW h \in (Len(s) + 1)..(Len(s) + Len(fs))
      PROVE  At(t, h) = fs[Len(s) + Len(fs) + 1 - h]
    <2>1. /\ Len(t) + 1 - h \in 1..Len(fs) + Len(s) /\ Len(t) + 1 - h <= Len(fs)
          /\ Len(t) + 1 - h = Len(s) + Len(fs) + 1 - h
        BY <1>1, <1>2
    <2> QED
        BY <1>1, <2>1 DEF At
<1>5. t # <<>> /\ Len(t) = Len(s) + Len(fs)
    BY <1>1, <1>2
<1> QED
    BY <1>1, <1>2, <1>3, <1>4, <1>5 DEF t

\* A frame that is not the runtime's is put on top.
LEMMA OneMore ==
    ASSUME NEW s, NEW o, Shaped(s, o), NEW f \in FrameKinds \ {"runtime"}, o = 0 => f = "app"
    PROVE  Shaped(<<f>> \o s, o)
<1> DEFINE t == <<f>> \o s
<1>1. s \in Seq(FrameKinds) /\ s # <<>> /\ o \in 0..Len(s)
    BY DEF Shaped
<1>2. <<f>> \in Seq(FrameKinds) /\ Len(<<f>>) = 1 /\ <<f>>[1] = f
    OBVIOUS
<1>3. /\ t \in Seq(FrameKinds) /\ t # <<>> /\ Len(t) = Len(s) + 1 /\ Len(s) \in Nat
      /\ \A h \in 1..Len(s) : At(t, h) = At(s, h)
      /\ \A h \in (Len(s) + 1)..(Len(s) + 1) : At(t, h) = <<f>>[Len(s) + 1 + 1 - h]
    <2> HIDE DEF FrameKinds
    <2> QED BY <1>1, <1>2, Pushed
<1>4. At(t, Len(s) + 1) = f
    <2>1. Len(s) + 1 \in (Len(s) + 1)..(Len(s) + 1) /\ Len(s) + 1 + 1 - (Len(s) + 1) = 1
        BY <1>3
    <2>2. At(t, Len(s) + 1) = <<f>>[Len(s) + 1 + 1 - (Len(s) + 1)]
        <3> HIDE DEF t
        <3> QED BY <1>3, <2>1
    <2> QED
        BY <1>2, <2>1, <2>2
<1> SUFFICES Shaped(t, o)
    OBVIOUS
<1> HIDE DEF t
<1>5. ASSUME NEW h \in 1..Len(t) PROVE h \in 1..Len(s) \/ h = Len(s) + 1
    BY <1>3
<1>6. CASE o = 0
    <2>1. f = "app" /\ \A h \in 1..Len(s) : At(s, h) = "app"
        BY <1>6 DEF Shaped
    <2>2. \A h \in 1..Len(t) : At(t, h) = "app"
        BY <1>3, <1>4, <1>5, <2>1
    <2> QED
        BY <1>3, <1>6, <2>2 DEF Shaped
<1>7. CASE o # 0
    <2>1. /\ o \in 1..Len(s) /\ o < Len(s) /\ \A h \in 1..o : At(s, h) = "app"
          /\ At(s, o + 1) \in {"gopanic", "runtime"}
          /\ At(s, o + 1) = "runtime" => o + 2 <= Len(s) /\ At(s, o + 2) = "gopanic"
          /\ \A h \in (o + 2)..Len(s) : At(s, h) # "runtime"
        BY <1>1, <1>3, <1>7 DEF Shaped
    <2>2. \A h \in 1..o : At(t, h) = "app"
        BY <1>3, <2>1
    <2>3. /\ At(t, o + 1) = At(s, o + 1)
          /\ o + 2 <= Len(s) => At(t, o + 2) = At(s, o + 2)
        BY <1>3, <2>1
    <2>4. ASSUME NEW h \in (o + 2)..Len(t) PROVE At(t, h) # "runtime"
        <3>1. h \in (o + 2)..Len(s) \/ h = Len(s) + 1
            BY <1>3, <2>1
        <3>2. h \in (o + 2)..Len(s) => At(t, h) = At(s, h)
            BY <1>3, <2>1
        <3> QED
            BY <1>4, <2>1, <3>1, <3>2
    <2> QED
        BY <1>3, <1>7, <2>1, <2>2, <2>3, <2>4 DEF Shaped
<1> QED
    BY <1>6, <1>7

\* A panic on a stack of calls.
LEMMA Panics ==
    ASSUME NEW s, Shaped(s, 0), NEW fs \in {<<"gopanic">>, <<"gopanic", "runtime">>}
    PROVE  Shaped(fs \o s, Len(s))
<1> DEFINE t == fs \o s
<1>1. s \in Seq(FrameKinds) /\ s # <<>> /\ \A h \in 1..Len(s) : At(s, h) = "app"
    BY DEF Shaped
<1>2. /\ fs \in Seq(FrameKinds) /\ Len(fs) \in {1, 2} /\ fs[1] = "gopanic"
      /\ Len(fs) = 2 => fs[2] = "runtime"
    <2>1. CASE fs = <<"gopanic">>
        BY <2>1 DEF FrameKinds
    <2>2. CASE fs = <<"gopanic", "runtime">>
        BY <2>2 DEF FrameKinds
    <2> QED BY <2>1, <2>2
<1>3. /\ t \in Seq(FrameKinds) /\ t # <<>> /\ Len(t) = Len(s) + Len(fs)
      /\ Len(s) \in Nat /\ Len(s) > 0
      /\ \A h \in 1..Len(s) : At(t, h) = "app"
      /\ \A h \in (Len(s) + 1)..(Len(s) + Len(fs)) : At(t, h) = fs[Len(s) + Len(fs) + 1 - h]
    <2> HIDE DEF FrameKinds
    <2> QED BY <1>1, <1>2, Pushed
<1> SUFFICES Shaped(t, Len(s))
    OBVIOUS
<1> HIDE DEF t
<1>4. CASE Len(fs) = 1
    <2>1. At(t, Len(s) + 1) = "gopanic"
        BY <1>2, <1>3, <1>4
    <2> QED
        BY <1>3, <1>4, <2>1 DEF Shaped
<1>5. CASE Len(fs) = 2
    <2>1. At(t, Len(s) + 1) = "runtime" /\ At(t, Len(s) + 2) = "gopanic"
        BY <1>2, <1>3, <1>5
    <2> QED
        BY <1>3, <1>5, <2>1 DEF Shaped
<1> QED
    BY <1>2, <1>4, <1>5

\* What is left of a stack when its innermost n frames are gone.
LEMMA Unwound ==
    ASSUME NEW s \in Seq(FrameKinds), NEW n \in 0..Len(s), n < Len(s),
           NEW t \in Seq(FrameKinds), Len(t) = Len(s) - n,
           \A i \in 1..(Len(s) - n) : t[i] = s[n + i]
    PROVE  t # <<>> /\ \A h \in 1..Len(t) : At(t, h) = At(s, h)
<1>1. ASSUME NEW h \in 1..Len(t) PROVE At(t, h) = At(s, h)
    <2>1. Len(t) + 1 - h \in 1..(Len(s) - n) /\ n + (Len(t) + 1 - h) = Len(s) + 1 - h
        OBVIOUS
    <2> QED
        BY <2>1 DEF At
<1>2. t # <<>>
    OBVIOUS
<1> QED
    BY <1>1, <1>2

LEMMA InitStack == Init => StackInv
<1> SUFFICES ASSUME Init PROVE StackInv
    OBVIOUS
<1>1. stack = <<"app">> /\ origin = 0 /\ frames = <<>>
    BY DEF Init, Stack!Init
<1> QED
    BY <1>1 DEF StackInv, Shape, Shaped, Reported, FrameKinds, At

LEMMA StepStack == StackInv /\ [Next]_vars => StackInv'
<1> SUFFICES ASSUME StackInv, [Next]_vars PROVE StackInv'
    OBVIOUS
<1>0. /\ Shaped(stack, origin) /\ Reported
      /\ stack \in Seq(FrameKinds) /\ Len(stack) \in Nat /\ Len(stack) > 0
      /\ origin \in 0..Len(stack) /\ origin # Len(stack)
      /\ Head(stack) = At(stack, Len(stack))
      /\ origin = 0 => Head(stack) = "app"
    <2>1. Shaped(stack, origin) /\ stack \in Seq(FrameKinds) /\ stack # <<>>
        BY DEF StackInv, Shape, Shaped
    <2>2. Len(stack) \in Nat /\ Len(stack) > 0
        BY <2>1
    <2>3. Head(stack) = At(stack, Len(stack))
        BY <2>1, <2>2 DEF At
    <2> QED
        BY <2>1, <2>2, <2>3 DEF StackInv, Shaped
<1>a. Shaped(stack', origin') /\ Reported' => StackInv'
    BY DEF StackInv, Shape
<1>1. CASE UNCHANGED stackVars
    BY <1>1 DEF stackVars, StackInv, Shape, Reported, Stack!Frame, Stack!captureStack,
                Stack!trimRuntimeFrames, Stack!isNoise
<1>2. CASE Stack!Call
    <2>1. stack' = <<"app">> \o stack /\ origin' = origin /\ frames' = <<>>
        BY <1>2 DEF Stack!Call, Stack!Push
    <2>2. Shaped(<<"app">> \o stack, origin)
        BY <1>0, OneMore DEF FrameKinds
    <2> QED
        BY <1>a, <2>1, <2>2 DEF Reported
<1>3. CASE Stack!Return
    <2>1. /\ Head(stack) = "app" /\ Len(stack) > 1 /\ stack' = Tail(stack)
          /\ origin' = origin /\ frames' = <<>>
        BY <1>3 DEF Stack!Return
    <2>2. /\ stack' \in Seq(FrameKinds) /\ Len(stack') = Len(stack) - 1
          /\ \A i \in 1..(Len(stack) - 1) : stack'[i] = stack[1 + i]
        <3> HIDE DEF FrameKinds
        <3> QED BY <1>0, <2>1
    <2>3. stack' # <<>> /\ \A h \in 1..Len(stack') : At(stack', h) = At(stack, h)
        <3> HIDE DEF FrameKinds
        <3>1. 1 \in 0..Len(stack) /\ 1 < Len(stack)
            BY <1>0, <2>1
        <3> QED BY <1>0, <2>2, <3>1, Unwound
    <2>4. Shaped(stack', origin)
        <3>1. CASE origin = 0
            BY <1>0, <2>1, <2>2, <2>3, <3>1 DEF Shaped
        <3>2. CASE origin # 0
            <4>1. Len(stack) # origin + 1
                BY <1>0, <2>1, <3>2 DEF Shaped
            <4>2. At(stack, origin + 1) = "runtime" => Len(stack) # origin + 2
                BY <1>0, <2>1, <3>2 DEF Shaped
            <4>3. /\ \A h \in 1..origin : At(stack, h) = "app"
                  /\ At(stack, origin + 1) \in {"gopanic", "runtime"}
                  /\ At(stack, origin + 1) = "runtime"
                        => origin + 2 <= Len(stack) /\ At(stack, origin + 2) = "gopanic"
                  /\ \A h \in (origin + 2)..Len(stack) : At(stack, h) # "runtime"
                BY <1>0, <3>2 DEF Shaped
            <4>4. origin \in 1..Len(stack') /\ origin < Len(stack')
                BY <1>0, <2>2, <3>2, <4>1
            <4>5. /\ \A h \in 1..origin : At(stack', h) = "app"
                  /\ At(stack', origin + 1) = At(stack, origin + 1)
                BY <1>0, <2>2, <2>3, <4>3, <4>4
            <4>6. At(stack, origin + 1) = "runtime"
                    => origin + 2 <= Len(stack') /\ At(stack', origin + 2) = "gopanic"
                BY <1>0, <2>2, <2>3, <4>2, <4>3, <4>4
            <4>7. \A h \in (origin + 2)..Len(stack') : At(stack', h) # "runtime"
                BY <1>0, <2>2, <2>3, <4>3, <4>4
            <4> QED
                BY <2>2, <2>3, <3>2, <4>3, <4>4, <4>5, <4>6, <4>7 DEF Shaped
        <3> QED
            BY <3>1, <3>2
    <2> QED
        BY <1>a, <2>1, <2>4 DEF Reported
<1>4. CASE Stack!Panic
    <2>1. PICK fs \in {<<"gopanic">>, <<"gopanic", "runtime">>} : stack' = fs \o stack
        BY <1>4 DEF Stack!Panic, Stack!Push
    <2>2. origin = 0 /\ origin' = Len(stack) /\ frames' = <<>>
        BY <1>4 DEF Stack!Panic
    <2>3. Shaped(fs \o stack, Len(stack))
        BY <1>0, <2>2, Panics
    <2> QED
        BY <1>a, <2>1, <2>2, <2>3 DEF Reported
<1>5. CASE Stack!Guard
    <2>1. /\ Head(stack) = "gopanic" /\ stack' = <<"guard">> \o stack /\ origin' = origin
          /\ frames' = frames
        BY <1>5 DEF Stack!Guard, Stack!Push
    <2>2. Shaped(<<"guard">> \o stack, origin)
        BY <1>0, <2>1, OneMore DEF FrameKinds
    <2>3. frames = <<>>
        BY <1>0, <2>1 DEF Reported
    <2> QED
        BY <1>a, <2>1, <2>2, <2>3 DEF Reported
<1>6. CASE Stack!Capture
    <2>1. /\ Head(stack) \in {"app", "guard"} /\ frames' = Stack!captureStack
          /\ UNCHANGED <<stack, origin>>
        BY <1>6 DEF Stack!Capture
    <2>2. Stack!captureStack' = Stack!captureStack
        BY <2>1 DEF Stack!captureStack, Stack!trimRuntimeFrames, Stack!isNoise, Stack!Frame
    <2> QED
        BY <1>0, <1>a, <2>1, <2>2 DEF Reported
<1>7. CASE Stack!Repanic
    <2>1. /\ Head(stack) = "guard" /\ stack' = <<"gopanic">> \o stack /\ origin' = origin
          /\ frames' = <<>>
        BY <1>7 DEF Stack!Repanic, Stack!Push
    <2>2. Shaped(<<"gopanic">> \o stack, origin)
        BY <1>0, <2>1, OneMore DEF FrameKinds
    <2> QED
        BY <1>a, <2>1, <2>2 DEF Reported
<1>8. CASE Stack!Recovered
    <2> DEFINE n == Len(stack) + 1 - origin
    <2>1. /\ origin > 1 /\ stack' = SubSeq(stack, n + 1, Len(stack))
          /\ origin' = 0 /\ frames' = <<>>
        <3>1. Len(stack) + 2 - origin = n + 1
            BY <1>0
        <3> QED
            BY <1>8, <3>1 DEF Stack!Recovered
    <2>2. n \in 0..Len(stack) /\ n < Len(stack)
        BY <1>0, <2>1
    <2>3. /\ stack' \in Seq(FrameKinds) /\ Len(stack') = Len(stack) - n
          /\ \A i \in 1..(Len(stack) - n) : stack'[i] = stack[n + i]
        <3>1. \A i \in (n + 1)..Len(stack) : stack[i] \in FrameKinds
            <4> HIDE DEF FrameKinds
            <4> QED BY <1>0, <2>2
        <3>2. n + 1 \in Int /\ Len(stack) \in Int
            BY <1>0, <2>2
        <3> HIDE DEF FrameKinds, n
        <3>3. /\ stack' \in Seq(FrameKinds)
              /\ Len(stack') = IF n + 1 <= Len(stack) THEN Len(stack) - (n + 1) + 1 ELSE 0
              /\ \A i \in 1..(Len(stack) - (n + 1) + 1) : stack'[i] = stack[(n + 1) + i - 1]
            BY <2>1, <3>1, <3>2, SubSeqProperties
        <3>4. /\ Len(stack) - (n + 1) + 1 = Len(stack) - n /\ n + 1 <= Len(stack)
              /\ \A i \in 1..(Len(stack) - n) : (n + 1) + i - 1 = n + i
            BY <1>0, <2>2
        <3> QED
            BY <3>3, <3>4
    <2>4. stack' # <<>> /\ \A h \in 1..Len(stack') : At(stack', h) = At(stack, h)
        <3> HIDE DEF FrameKinds, n
        <3> QED BY <1>0, <2>2, <2>3, Unwound
    <2>5. Len(stack') = origin - 1
        BY <1>0, <2>3
    <2>6. Shaped(stack', 0)
        BY <1>0, <2>1, <2>3, <2>4, <2>5 DEF Shaped
    <2> QED
        BY <1>a, <2>1, <2>6 DEF Reported
<1> QED
    BY <1>1, <1>2, <1>3, <1>4, <1>5, <1>6, <1>7, <1>8 DEF Next, Stack!Next, vars, stackVars

\* The frames of an event start where things went wrong, whatever the depth of the stack
\* and however often the panic is raised again.
THEOREM StacksStartAtTheCause == Spec => []StackStartsAtTheCause
<1>1. Spec => []StackInv
    BY InitStack, StepStack, PTL DEF Spec
<1> QED
    BY <1>1, StacksStart, PTL

-----------------------------------------------------------------------------
(* The errors and the walk over them.                                       *)

\* Errors wrap earlier ones, two at most, a recorder one.
ErrorKinds == [kind : {"new", "wrap", "join", "own", "recorder"}, inner : Seq(Nat)]

Trees(es) ==
    /\ es \in Seq(ErrorKinds)
    /\ \A e \in DOMAIN es : /\ Len(es[e].inner) \in 0..2
                            /\ \A i \in DOMAIN es[e].inner : es[e].inner[i] \in 1..(e - 1)
                            /\ es[e].kind = "recorder" => Len(es[e].inner) = 1

ErrorInv == Trees(errors) /\ made \in 0..Len(errors)

\* walkErrors, of any errors.
Walks(es, w) ==
    w = [e \in DOMAIN es |->
            <<e>> \o Error!FlattenSeq([i \in DOMAIN es[e].inner |-> w[es[e].inner[i]]])]
Walk(es) == CHOOSE w : Walks(es, w)

\* There is such a function: one for the first n errors gives one for the next.
LEMMA WalkExists == ASSUME NEW es, Trees(es) PROVE Walks(es, Walk(es))
<1> DEFINE Step(w, e) ==
               <<e>> \o Error!FlattenSeq([i \in DOMAIN es[e].inner |-> w[es[e].inner[i]]])
           Upto(n, w) == w = [e \in 1..n |-> Step(w, e)]
           Bad == {n \in 0..Len(es) : ~\E w : Upto(n, w)}
<1>1. /\ es \in Seq(ErrorKinds) /\ Len(es) \in Nat /\ DOMAIN es = 1..Len(es)
      /\ \A e \in 1..Len(es) : \A i \in DOMAIN es[e].inner : es[e].inner[i] \in 1..(e - 1)
    BY DEF Trees
<1>2. ASSUME NEW e \in 1..Len(es), NEW v, NEW w, \A d \in 1..(e - 1) : v[d] = w[d]
      PROVE  Step(v, e) = Step(w, e)
    <2>1. [i \in DOMAIN es[e].inner |-> v[es[e].inner[i]]]
             = [i \in DOMAIN es[e].inner |-> w[es[e].inner[i]]]
        BY <1>1, <1>2
    <2> QED
        BY <2>1
<1>3. ASSUME Bad # {} PROVE FALSE
    <2>1. PICK n \in Bad : \A m \in Bad : n <= m
        <3>1. Bad \subseteq Nat
            BY <1>1
        <3> HIDE DEF Bad
        <3> QED BY <1>3, <3>1, SmallestNumber
    <2>2. n # 0
        <3>1. Upto(0, [e \in 1..0 |-> 0])
            <4>1. \A w : [e \in 1..0 |-> Step(w, e)] = [e \in 1..0 |-> 0]
                <5> HIDE DEF Step
                <5> QED OBVIOUS
            <4> QED
                BY <4>1
        <3> QED
            BY <3>1
    <2>3. n \in 1..Len(es) /\ n - 1 \in 0..Len(es) /\ n - 1 \notin Bad
        <3>1. n \in 0..Len(es)
            BY <2>1
        <3> HIDE DEF Bad
        <3> QED BY <1>1, <2>1, <2>2, <3>1
    <2>4. PICK v : Upto(n - 1, v)
        BY <2>3
    <2> DEFINE w == [e \in 1..n |-> IF e = n THEN Step(v, n) ELSE v[e]]
    <2>5. ASSUME NEW e \in 1..n PROVE w[e] = Step(w, e)
        <3>1. \A d \in 1..(n - 1) : d \in 1..n /\ d # n
            <4> HIDE DEF Step, Upto, Bad, w
            <4>1. n \in Int
                BY <1>1, <2>3
            <4> QED
                BY ONLY <4>1
        <3>2. \A d \in 1..(n - 1) : w[d] = v[d] /\ v[d] = Step(v, d)
            <4>1. \A d \in 1..n : w[d] = IF d = n THEN Step(v, n) ELSE v[d]
                <5> HIDE DEF Step
                <5> QED OBVIOUS
            <4>2. \A d \in 1..(n - 1) : v[d] = Step(v, d)
                <5> HIDE DEF Step
                <5> QED BY <2>4
            <4> HIDE DEF Step, w
            <4> QED
                BY <3>1, <4>1, <4>2
        <3>3. w[e] = Step(v, e) /\ \A d \in 1..(e - 1) : d \in 1..(n - 1)
            <4>1. CASE e = n
                <5> HIDE DEF Step
                <5> QED BY <2>3, <4>1
            <4>2. CASE e # n
                <5>1. e \in 1..(n - 1) /\ \A d \in 1..(e - 1) : d \in 1..(n - 1)
                    <6> HIDE DEF Step, Upto, Bad, w
                    <6>1. n \in Int /\ e \in Int /\ 1 <= e /\ e <= n
                        BY <1>1, <2>3
                    <6>2. e <= n - 1
                        BY <4>2, <6>1
                    <6> QED
                        BY <6>1, <6>2
                <5> HIDE DEF Step, w
                <5> QED BY <3>2, <5>1
            <4> QED
                BY <4>1, <4>2
        <3>4. e \in 1..Len(es)
            <4> HIDE DEF Step, w, Bad
            <4> QED BY <1>1, <2>3
        <3>5. Step(w, e) = Step(v, e)
            <4>1. \A d \in 1..(e - 1) : w[d] = v[d]
                <5> HIDE DEF Step, w
                <5> QED BY <3>2, <3>3
            <4> HIDE DEF Step, w
            <4> QED BY <4>1, <1>2, <3>2, <3>3, <3>4
        <3> QED
            BY <3>3, <3>5
    <2>6. Upto(n, w)
        <3> HIDE DEF Step
        <3>1. \A u : u = w => [e \in 1..n |-> Step(u, e)] = w
            BY <2>5
        <3> QED
            BY <3>1
    <2> QED
        BY <2>1, <2>6
<1>4. Len(es) \notin Bad /\ Len(es) \in 0..Len(es)
    <2> HIDE DEF Bad
    <2> QED BY <1>1, <1>3
<1>5. PICK w : Upto(Len(es), w)
    BY <1>4
<1>6. Walks(es, w)
    BY <1>1, <1>5 DEF Walks
<1> QED
    BY <1>6 DEF Walk

\* What one or two sequences come to.
LEMMA Flatten ==
    ASSUME NEW S, NEW q \in Seq(S), Len(q) \in 0..2
    PROVE  Error!FlattenSeq(q) = IF Len(q) = 0 THEN <<>>
                                 ELSE IF Len(q) = 1 THEN q[1] ELSE q[1] \o q[2]
<1> DEFINE Next1(f, i) == IF i = 1 THEN q[i] ELSE f[i - 1] \o q[i]
           Is(f) == f = [i \in 1..Len(q) |-> Next1(f, i)]
           flat == CHOOSE f : Is(f)
<1>1. Error!FlattenSeq(q) = IF Len(q) = 0 THEN q ELSE flat[Len(q)]
    BY DEF Error!FlattenSeq
<1>2. CASE Len(q) = 0
    BY <1>1, <1>2
<1>3. CASE Len(q) # 0
    <2> DEFINE g == [i \in 1..Len(q) |-> IF i = 1 THEN q[1] ELSE q[1] \o q[2]]
    <2>1. Len(q) \in {1, 2}
        BY <1>3
    <2>2. ASSUME NEW i \in 1..Len(q) PROVE g[i] = Next1(g, i)
        <3>1. i \in {1, 2} /\ 1 \in 1..Len(q) /\ 2 - 1 = 1 /\ 1 # 2
            <4> DEFINE n == Len(q)
            <4>1. n \in {1, 2} /\ i \in 1..n
                BY <2>1
            <4> HIDE DEF n, g
            <4>2. i \in {1, 2} /\ 1 \in 1..n /\ 2 - 1 = 1 /\ 1 # 2
                BY <4>1
            <4> QED
                BY <4>2 DEF n
        <3>2. g[1] = q[1] /\ (i = 2 => g[2] = q[1] \o q[2])
            BY <3>1
        <3> HIDE DEF g
        <3>3. CASE i = 1
            BY <3>2, <3>3
        <3>4. CASE i = 2
            BY <3>1, <3>2, <3>4
        <3> QED
            BY <3>1, <3>3, <3>4
    <2>3. Is(g)
        <3> HIDE DEF Next1
        <3>1. \A u : u = g => [i \in 1..Len(q) |-> Next1(u, i)] = g
            BY <2>2
        <3> QED BY <3>1
    <2>4. Is(flat)
        <3> HIDE DEF Is, g
        <3> QED BY <2>3
    <2> HIDE DEF flat
    <2>5. \A i \in 1..Len(q) : flat[i] = Next1(flat, i)
        <3> HIDE DEF Next1
        <3> QED BY <2>4
    <2>6. flat[1] = q[1]
        BY <2>1, <2>5
    <2>7. Len(q) = 2 => flat[2] = q[1] \o q[2]
        <3> SUFFICES ASSUME Len(q) = 2 PROVE flat[2] = q[1] \o q[2]
            OBVIOUS
        <3>1. 2 \in 1..Len(q) /\ 2 - 1 = 1 /\ 2 # 1
            OBVIOUS
        <3>2. flat[2] = flat[2 - 1] \o q[2]
            BY <2>5, <3>1
        <3> QED
            BY <2>6, <3>1, <3>2
    <2> QED
        BY <1>1, <1>3, <2>1, <2>6, <2>7
<1> QED
    BY <1>2, <1>3

\* A walk is the error itself and then the walks over what it wraps.
LEMMA WalkIs ==
    ASSUME NEW es, Trees(es), NEW w, Walks(es, w), NEW e \in 1..Len(es)
    PROVE  w[e] = <<e>> \o (IF Len(es[e].inner) = 0 THEN <<>>
                            ELSE IF Len(es[e].inner) = 1 THEN w[es[e].inner[1]]
                            ELSE w[es[e].inner[1]] \o w[es[e].inner[2]])
<1> DEFINE inner == es[e].inner
           S == {w[d] : d \in 1..Len(es)}
           q == [i \in DOMAIN inner |-> w[inner[i]]]
<1>1. /\ es \in Seq(ErrorKinds) /\ Len(es) \in Nat /\ DOMAIN es = 1..Len(es)
      /\ Len(inner) \in 0..2 /\ inner \in Seq(Nat) /\ DOMAIN inner = 1..Len(inner)
      /\ \A i \in DOMAIN inner : inner[i] \in 1..(e - 1)
    <2>1. es \in Seq(ErrorKinds) /\ Len(es) \in Nat /\ DOMAIN es = 1..Len(es)
        BY DEF Trees
    <2>2. es[e] \in ErrorKinds
        BY <2>1
    <2>3. /\ Len(inner) \in 0..2
          /\ \A i \in DOMAIN inner : inner[i] \in 1..(e - 1)
        BY <2>1 DEF Trees
    <2>4. inner \in Seq(Nat)
        BY <2>2 DEF ErrorKinds
    <2>5. DOMAIN inner = 1..Len(inner)
        <3> HIDE DEF inner
        <3> QED BY <2>4
    <2> QED
        BY <2>1, <2>3, <2>4, <2>5
<1>2. w[e] = <<e>> \o Error!FlattenSeq(q)
    <2> DEFINE Step(v, d) ==
                   <<d>> \o Error!FlattenSeq([i \in DOMAIN es[d].inner |-> v[es[d].inner[i]]])
    <2>1. w = [d \in DOMAIN es |-> Step(w, d)]
        BY DEF Walks
    <2>2. w[e] = Step(w, e)
        <3> HIDE DEF Step
        <3> QED BY <1>1, <2>1
    <2> QED
        BY <2>2
<1>3. /\ q \in Seq(S) /\ Len(q) = Len(inner)
      /\ \A i \in 1..Len(inner) : q[i] = w[inner[i]]
    <2>1. \A i \in 1..Len(inner) : inner[i] \in 1..Len(es)
        <3>1. ASSUME NEW i \in 1..Len(inner) PROVE inner[i] \in 1..Len(es)
            <4> DEFINE d == inner[i]
            <4>1. d \in 1..(e - 1)
                BY <1>1
            <4> HIDE DEF d, inner
            <4>2. d \in 1..Len(es)
                BY <1>1, <4>1
            <4> QED
                BY <4>2 DEF d
        <3> QED BY <3>1
    <2>2. \A i \in 1..Len(inner) : w[inner[i]] \in S
        BY <2>1
    <2> HIDE DEF inner, S
    <2> QED BY <1>1, <2>2
<1> HIDE DEF q, S
<1>4. Error!FlattenSeq(q) = IF Len(q) = 0 THEN <<>>
                            ELSE IF Len(q) = 1 THEN q[1] ELSE q[1] \o q[2]
    <2>1. Len(q) \in 0..2
        BY <1>1, <1>3
    <2> QED
        BY <1>3, <2>1, Flatten
<1>5. Len(inner) \in {0, 1, 2}
    <2> HIDE DEF inner
    <2> QED BY <1>1
<1>6. Error!FlattenSeq(q) = IF Len(inner) = 0 THEN <<>>
                            ELSE IF Len(inner) = 1 THEN w[inner[1]]
                            ELSE w[inner[1]] \o w[inner[2]]
    <2> HIDE DEF inner
    <2>1. CASE Len(inner) = 0
        BY <1>3, <1>4, <2>1
    <2>2. CASE Len(inner) = 1
        <3>1. 1 \in 1..Len(inner) /\ Len(inner) # 0
            BY <2>2
        <3> QED BY <1>3, <1>4, <2>2, <3>1
    <2>3. CASE Len(inner) = 2
        <3>1. 1 \in 1..Len(inner) /\ 2 \in 1..Len(inner) /\ Len(inner) # 0 /\ Len(inner) # 1
            BY <2>3
        <3> QED BY <1>3, <1>4, <3>1
    <2> QED
        BY <1>5, <2>1, <2>2, <2>3
<1> QED
    BY <1>2, <1>6

\* It begins with the error it is about, and the others are earlier ones.
LEMMA WalkType ==
    ASSUME NEW es, Trees(es), NEW w, Walks(es, w)
    PROVE  \A e \in 1..Len(es) : w[e] \in Seq(1..Len(es)) /\ Len(w[e]) >= 1 /\ w[e][1] = e
<1> DEFINE E == 1..Len(es)
           Typed(e) == w[e] \in Seq(E) /\ Len(w[e]) >= 1 /\ w[e][1] = e
           Bad == {e \in E : ~Typed(e)}
<1>1. /\ Len(es) \in Nat /\ DOMAIN es = E
      /\ \A e \in E : /\ Len(es[e].inner) \in 0..2
                      /\ DOMAIN es[e].inner = 1..Len(es[e].inner)
                      /\ \A i \in 1..Len(es[e].inner) : es[e].inner[i] \in 1..(e - 1)
    BY DEF Trees, ErrorKinds
<1>2. ASSUME Bad # {} PROVE FALSE
    <2>1. PICK e \in Bad : \A m \in Bad : e <= m
        <3>1. Bad \subseteq Nat
            BY <1>1
        <3> HIDE DEF Bad
        <3> QED BY <1>2, <3>1, SmallestNumber
    <2>2. e \in E
        BY <2>1
    <2>3. \A d \in 1..(e - 1) : Typed(d)
        <3>1. \A d \in 1..(e - 1) : d \in E /\ d \notin Bad
            <4> HIDE DEF Bad
            <4> QED BY <1>1, <2>1, <2>2
        <3> QED
            BY <3>1
    <2> DEFINE inner == es[e].inner
    <2>4. /\ Len(inner) \in 0..2
          /\ \A i \in 1..Len(inner) : Typed(inner[i])
        <3> HIDE DEF Typed
        <3> QED BY <1>1, <2>2, <2>3
    <2>5. w[e] = <<e>> \o (IF Len(inner) = 0 THEN <<>>
                           ELSE IF Len(inner) = 1 THEN w[inner[1]]
                           ELSE w[inner[1]] \o w[inner[2]])
        BY <2>2, WalkIs
    <2> HIDE DEF inner, E, Bad
    <2>6. CASE Len(inner) = 0
        <3>1. w[e] = <<e>> \o <<>>
            BY <2>5, <2>6
        <3>2. <<e>> \o <<>> \in Seq(E) /\ Len(<<e>> \o <<>>) = 1 /\ (<<e>> \o <<>>)[1] = e
            BY <2>2
        <3>3. Typed(e)
            BY <3>1, <3>2
        <3> HIDE DEF Typed
        <3> QED
            BY <2>1, <3>3 DEF Bad
    <2>7. CASE Len(inner) = 1
        <3> DEFINE v == w[inner[1]]
        <3>1. w[e] = <<e>> \o v
            BY <2>5, <2>7
        <3>2. v \in Seq(E) /\ Len(v) >= 1
            <4>1. 1 \in 1..Len(inner)
                BY <2>7
            <4> QED BY <2>4, <4>1
        <3> HIDE DEF v
        <3>3. <<e>> \o v \in Seq(E) /\ Len(<<e>> \o v) >= 1 /\ (<<e>> \o v)[1] = e
            BY <2>2, <3>2
        <3> QED
            BY <2>1, <3>1, <3>3 DEF Bad
    <2>8. CASE Len(inner) = 2
        <3> DEFINE v == w[inner[1]]
                   u == w[inner[2]]
        <3>1. w[e] = <<e>> \o (v \o u)
            BY <2>5, <2>8
        <3>2. v \in Seq(E) /\ Len(v) >= 1 /\ u \in Seq(E) /\ Len(u) >= 1
            <4>1. 1 \in 1..Len(inner) /\ 2 \in 1..Len(inner)
                BY <2>8
            <4> QED BY <2>4, <4>1
        <3> HIDE DEF v, u
        <3>3. /\ <<e>> \o (v \o u) \in Seq(E) /\ Len(<<e>> \o (v \o u)) >= 1
              /\ (<<e>> \o (v \o u))[1] = e
            <4>1. v \o u \in Seq(E)
                BY <3>2
            <4> QED BY <2>2, <4>1
        <3> QED
            BY <2>1, <3>1, <3>3 DEF Bad
    <2> QED
        BY <2>4, <2>6, <2>7, <2>8
<1> QED
    BY <1>2

\* U is found in V from place i on.
Occurs(V, i, U) == /\ i + Len(U) - 1 <= Len(V)
                   /\ \A k \in 1..Len(U) : V[i + k - 1] = U[k]

LEMMA OccursWithin ==
    ASSUME NEW E, NEW A \in Seq(E), NEW V \in Seq(E), NEW U \in Seq(E),
           NEW i \in Nat \ {0}, Occurs(V, i, U)
    PROVE  Occurs(A \o V, Len(A) + i, U) /\ Occurs(V \o A, i, U)
<1>1. /\ Len(A) \in Nat /\ Len(V) \in Nat /\ Len(U) \in Nat
      /\ Len(A \o V) = Len(A) + Len(V) /\ Len(V \o A) = Len(V) + Len(A)
      /\ \A k \in 1..Len(V) : (A \o V)[Len(A) + k] = V[k] /\ (V \o A)[k] = V[k]
    OBVIOUS
<1>2. i + Len(U) - 1 <= Len(V) /\ \A k \in 1..Len(U) : V[i + k - 1] = U[k]
    BY DEF Occurs
<1> DEFINE before == A \o V
           behind == V \o A
<1>3. ASSUME NEW k \in 1..Len(U)
      PROVE  before[(Len(A) + i) + k - 1] = U[k] /\ behind[i + k - 1] = U[k]
    <2>1. i + k - 1 \in 1..Len(V) /\ (Len(A) + i) + k - 1 = Len(A) + (i + k - 1)
        BY <1>1, <1>2
    <2> QED
        BY <1>1, <1>2, <2>1
<1>4. (Len(A) + i) + Len(U) - 1 <= Len(before) /\ i + Len(U) - 1 <= Len(behind)
    <2> HIDE DEF before, behind
    <2> QED BY <1>1, <1>2 DEF before, behind
<1> QED
    BY <1>3, <1>4 DEF Occurs

\* Every error met on a walk is followed there by its own walk.
Nested(w, V) == \A i \in 1..Len(V) : Occurs(V, i, w[V[i]])

LEMMA NestedBoth ==
    ASSUME NEW E, NEW w, \A e \in E : w[e] \in Seq(E),
           NEW u \in Seq(E), Nested(w, u), NEW v \in Seq(E), Nested(w, v)
    PROVE  Nested(w, u \o v)
<1>1. /\ Len(u) \in Nat /\ Len(v) \in Nat /\ Len(u \o v) = Len(u) + Len(v)
      /\ \A k \in 1..Len(u) : (u \o v)[k] = u[k]
      /\ \A k \in 1..Len(v) : (u \o v)[Len(u) + k] = v[k]
    OBVIOUS
<1> DEFINE V == u \o v
<1>2. SUFFICES ASSUME NEW i \in 1..Len(V) PROVE Occurs(V, i, w[V[i]])
    BY DEF Nested
<1>3. CASE i <= Len(u)
    <2>1. i \in 1..Len(u) /\ i \in Nat \ {0} /\ V[i] = u[i]
        BY <1>1, <1>3
    <2>2. Occurs(u, i, w[u[i]]) /\ w[u[i]] \in Seq(E)
        BY <2>1 DEF Nested
    <2>3. Occurs(u \o v, i, w[u[i]])
        BY <2>1, <2>2, OccursWithin
    <2> QED
        BY <2>1, <2>3
<1>4. CASE i > Len(u)
    <2> DEFINE j == i - Len(u)
    <2>1. j \in 1..Len(v) /\ j \in Nat \ {0} /\ i = Len(u) + j
        BY <1>1, <1>4
    <2> HIDE DEF j
    <2>2. Occurs(v, j, w[v[j]]) /\ w[v[j]] \in Seq(E) /\ V[i] = v[j]
        BY <1>1, <2>1 DEF Nested
    <2>3. Occurs(u \o v, Len(u) + j, w[v[j]])
        BY <2>1, <2>2, OccursWithin
    <2> QED
        BY <2>1, <2>2, <2>3
<1> QED
    BY <1>1, <1>2, <1>3, <1>4

LEMMA WalkNested ==
    ASSUME NEW es, Trees(es), NEW w, Walks(es, w)
    PROVE  \A e \in 1..Len(es) : Nested(w, w[e])
<1> DEFINE E == 1..Len(es)
           Bad == {e \in E : ~Nested(w, w[e])}
<1>1. /\ Len(es) \in Nat
      /\ \A e \in E : /\ Len(es[e].inner) \in 0..2
                      /\ \A i \in 1..Len(es[e].inner) : es[e].inner[i] \in 1..(e - 1)
    BY DEF Trees, ErrorKinds
<1>2. \A e \in E : w[e] \in Seq(E) /\ Len(w[e]) >= 1 /\ w[e][1] = e
    BY WalkType
<1>3. ASSUME Bad # {} PROVE FALSE
    <2>1. PICK e \in Bad : \A m \in Bad : e <= m
        <3>1. Bad \subseteq Nat
            BY <1>1
        <3> HIDE DEF Bad
        <3> QED BY <1>3, <3>1, SmallestNumber
    <2>2. e \in E
        BY <2>1
    <2>3. \A d \in 1..(e - 1) : d \in E /\ Nested(w, w[d])
        <3>1. \A d \in 1..(e - 1) : d \in E /\ d \notin Bad
            <4> HIDE DEF Bad
            <4> QED BY <1>1, <2>1, <2>2
        <3> QED
            BY <3>1
    <2> DEFINE inner == es[e].inner
               rest == IF Len(inner) = 0 THEN <<>>
                       ELSE IF Len(inner) = 1 THEN w[inner[1]]
                       ELSE w[inner[1]] \o w[inner[2]]
    <2>4. /\ Len(inner) \in {0, 1, 2}
          /\ \A i \in 1..Len(inner) : w[inner[i]] \in Seq(E) /\ Nested(w, w[inner[i]])
        <3>1. Len(inner) \in 0..2 /\ \A i \in 1..Len(inner) : inner[i] \in 1..(e - 1)
            BY <1>1, <2>2
        <3> HIDE DEF inner, E
        <3> QED BY <1>2, <2>3, <3>1
    <2>5. w[e] = <<e>> \o rest
        BY <2>2, WalkIs
    <2>6. rest \in Seq(E) /\ Nested(w, rest)
        <3> HIDE DEF inner, E, Bad
        <3>1. CASE Len(inner) = 0
            <4>1. <<>> \in Seq(E) /\ Nested(w, <<>>)
                BY DEF Nested
            <4> QED
                BY <3>1, <4>1
        <3>2. CASE Len(inner) = 1
            <4>1. 1 \in 1..Len(inner) /\ Len(inner) # 0
                BY <3>2
            <4> QED
                BY <2>4, <3>2, <4>1
        <3>3. CASE Len(inner) = 2
            <4>1. /\ 1 \in 1..Len(inner) /\ 2 \in 1..Len(inner)
                  /\ Len(inner) # 0 /\ Len(inner) # 1
                BY <3>3
            <4> DEFINE u == w[inner[1]]
                       v == w[inner[2]]
            <4>2. u \in Seq(E) /\ v \in Seq(E) /\ Nested(w, u) /\ Nested(w, v)
                BY <2>4, <4>1
            <4>3. rest = u \o v
                BY <4>1
            <4> HIDE DEF u, v, rest
            <4>4. \A d \in E : w[d] \in Seq(E)
                BY <1>2
            <4>5. Nested(w, u \o v) /\ u \o v \in Seq(E)
                BY <4>2, <4>4, NestedBoth
            <4> QED
                BY <4>3, <4>5
        <3> QED
            BY <2>4, <3>1, <3>2, <3>3
    <2> HIDE DEF rest, inner, Bad, E
    <2>7. ASSUME NEW i \in 1..Len(w[e]) PROVE Occurs(w[e], i, w[w[e][i]])
        <3>1. CASE i = 1
            <4> DEFINE V == w[e]
            <4>1. V \in Seq(E) /\ V[1] = e
                BY <1>2, <2>2
            <4> HIDE DEF V
            <4>2. Occurs(V, 1, V)
                BY <4>1 DEF Occurs
            <4> QED
                BY <3>1, <4>1, <4>2 DEF V
        <3>2. CASE i # 1
            <4> DEFINE j == i - 1
            <4>1. /\ Len(<<e>> \o rest) = 1 + Len(rest) /\ Len(rest) \in Nat /\ Len(<<e>>) = 1
                  /\ <<e>> \in Seq(E)
                  /\ \A k \in 1..Len(rest) : (<<e>> \o rest)[1 + k] = rest[k]
                BY <2>2, <2>6
            <4>2. j \in 1..Len(rest) /\ j \in Nat \ {0} /\ i = 1 + j
                BY <2>5, <3>2, <4>1
            <4> HIDE DEF j
            <4>3. Occurs(rest, j, w[rest[j]])
                BY <2>6, <4>2 DEF Nested
            <4>4. w[rest[j]] \in Seq(E)
                BY <1>2, <2>6, <4>2
            <4>5. Occurs(<<e>> \o rest, 1 + j, w[rest[j]])
                BY <2>6, <4>1, <4>2, <4>3, <4>4, OccursWithin
            <4> QED
                BY <2>5, <4>1, <4>2, <4>5
        <3> QED
            BY <3>1, <3>2
    <2>8. e \notin Bad
        BY <2>7 DEF Bad, Nested
    <2> QED
        BY <2>1, <2>8
<1> QED
    BY <1>3

\* The walk of the specification is that function.
LEMMA WalkErrors ==
    ASSUME Trees(errors)
    PROVE  Walks(errors, Error!walkErrors)
<1>1. Error!walkErrors = Walk(errors)
    BY DEF Error!walkErrors, Walk, Walks
<1> QED
    BY <1>1, WalkExists

\* The last place of a walk where a stack is met.
LEMMA LastStack ==
    ASSUME NEW e \in 1..Len(errors), Trees(errors), NEW V, V = Error!walkErrors[e],
           NEW P, P = Error!Stacks(V)
    PROVE  /\ P = {i \in 1..Len(V) : Error!Carries(V[i])}
           /\ P = {} => Error!errorCallers(e) = 0
           /\ P # {} => /\ Error!Max(P) \in P
                        /\ \A k \in P : k <= Error!Max(P)
                        /\ Error!errorCallers(e) = V[Error!Max(P)]
<1>1. V \in Seq(1..Len(errors)) /\ Len(V) \in Nat /\ DOMAIN V = 1..Len(V)
    BY WalkErrors, WalkType
<1>2. P = {i \in 1..Len(V) : Error!Carries(V[i])}
    BY <1>1 DEF Error!Stacks
<1>3. Error!errorCallers(e) = IF P = {} THEN 0 ELSE V[Error!Max(P)]
    BY DEF Error!errorCallers
<1>4. ASSUME P # {} PROVE Error!Max(P) \in P /\ \A k \in P : k <= Error!Max(P)
    <2>1. P \subseteq 0..Len(V)
        BY <1>1, <1>2
    <2>2. \E m \in P : \A k \in P : k <= m
        BY <1>1, <1>4, <2>1, LargestNumber
    <2>3. P \subseteq Int
        BY <1>1, <2>1
    <2>4. \E m \in P : \A k \in P : m >= k
        BY <2>2, <2>3
    <2>5. Error!Max(P) \in P /\ \A k \in P : Error!Max(P) >= k
        BY <2>4 DEF Error!Max
    <2> QED
        BY <2>3, <2>5
<1> QED
    BY <1>2, <1>3, <1>4

\* The last stack met is the cause's: behind it, and inside it, there is none; and one
\* that is wrapped alone is met one place later.
LEMMA StackIsOfTheCause == ErrorInv => StackOfTheCause
<1> SUFFICES ASSUME Trees(errors), made \in 0..Len(errors), made # 0
             PROVE  Error!StackOfTheCause
    BY DEF ErrorInv, StackOfTheCause, Error!StackOfTheCause
<1> DEFINE E == 1..Len(errors)
           w == Error!walkErrors
           V == w[made]
           P == Error!Stacks(V)
           found == Error!errorCallers(made)
<1>1. /\ Len(errors) \in Nat /\ made \in E
      /\ \A e \in E : /\ Len(errors[e].inner) \in 0..2
                      /\ \A i \in 1..Len(errors[e].inner) : errors[e].inner[i] \in 1..(e - 1)
    BY DEF Trees, ErrorKinds
<1>2. /\ Walks(errors, w)
      /\ \A e \in E : w[e] \in Seq(E) /\ Len(w[e]) >= 1 /\ w[e][1] = e
      /\ \A e \in E : Nested(w, w[e])
    BY WalkErrors, WalkType, WalkNested
<1>3. \A e \in E : Error!Inside(e) = {w[e][i] : i \in 1..Len(w[e])}
    <2>1. \A e \in E : DOMAIN w[e] = 1..Len(w[e])
        BY <1>2
    <2> QED
        BY <2>1 DEF Error!Inside, Error!ToSet
<1>4. /\ P = {i \in 1..Len(V) : Error!Carries(V[i])}
      /\ P = {} => found = 0
      /\ P # {} => /\ Error!Max(P) \in P
                   /\ \A k \in P : k <= Error!Max(P)
                   /\ found = V[Error!Max(P)]
    <2> HIDE DEF w
    <2> QED BY <1>1, LastStack DEF w
<1>5. V \in Seq(E) /\ \A i \in 1..Len(V) : V[i] \in E
    BY <1>1, <1>2
<1> HIDE DEF w, V, P, found
<1>6. (found = 0) = (P = {})
    BY <1>1, <1>4, <1>5
<1>7. (P = {}) = (\A e \in Error!Inside(made) : ~Error!Carries(e))
    <2>1. Error!Inside(made) = {V[i] : i \in 1..Len(V)}
        BY <1>1, <1>3 DEF V
    <2> QED
        BY <1>4, <2>1
<1>8. ASSUME found # 0, NEW e \in Error!Inside(found) \ {found}, Error!Carries(e)
      PROVE  FALSE
    <2> DEFINE m == Error!Max(P)
    <2>1. m \in P /\ m \in 1..Len(V) /\ (\A k \in P : k <= m) /\ found = V[m] /\ found \in E
        BY <1>4, <1>5, <1>6, <1>8
    <2> HIDE DEF m
    <2>2. Occurs(V, m, w[found]) /\ w[found] \in Seq(E) /\ w[found][1] = found
        BY <1>1, <1>2, <2>1 DEF Nested, V
    <2>3. PICK k \in 1..Len(w[found]) : e = w[found][k]
        BY <1>3, <1>8, <2>1
    <2>4. k # 1
        BY <1>8, <2>2, <2>3
    <2>5. e = V[m + k - 1] /\ m + Len(w[found]) - 1 <= Len(V)
        BY <2>2, <2>3 DEF Occurs
    <2>6. m + k - 1 \in 1..Len(V) /\ m + k - 1 > m
        BY <1>5, <2>1, <2>2, <2>3, <2>4, <2>5
    <2>7. m + k - 1 \in P
        BY <1>4, <1>8, <2>5, <2>6
    <2> QED
        BY <1>5, <2>1, <2>6, <2>7
<1>9. ASSUME Len(errors[made].inner) = 1, Error!errorCallers(errors[made].inner[1]) # 0
      PROVE  found = Error!errorCallers(errors[made].inner[1])
    <2> DEFINE a == errors[made].inner[1]
               U == w[a]
               Q == Error!Stacks(U)
               m == Error!Max(P)
               n == Error!Max(Q)
    <2>1. a \in E
        <3>1. 1 \in 1..Len(errors[made].inner)
            BY <1>9
        <3>2. a \in 1..(made - 1)
            BY <1>1, <3>1
        <3> HIDE DEF a
        <3> QED BY <1>1, <3>2
    <2>2. /\ Q = {i \in 1..Len(U) : Error!Carries(U[i])}
          /\ Q = {} => Error!errorCallers(a) = 0
          /\ Q # {} => /\ n \in Q
                       /\ \A k \in Q : k <= n
                       /\ Error!errorCallers(a) = U[n]
        <3>1. U = Error!walkErrors[a]
            BY DEF w
        <3>2. Q = Error!Stacks(U) /\ n = Error!Max(Q)
            OBVIOUS
        <3> HIDE DEF a, U, Q, n
        <3>3. Q = {i \in 1..Len(U) : Error!Carries(U[i])}
            BY <2>1, <3>1, <3>2, LastStack
        <3>4. Q = {} => Error!errorCallers(a) = 0
            BY <2>1, <3>1, <3>2, LastStack
        <3>5. Q # {} => n \in Q /\ (\A k \in Q : k <= n) /\ Error!errorCallers(a) = U[n]
            BY <2>1, <3>1, <3>2, LastStack
        <3> QED BY <3>3, <3>4, <3>5
    <2>3. V = <<made>> \o U
        <3>1. Len(errors[made].inner) = 1 /\ Len(errors[made].inner) # 0
            BY <1>9
        <3> QED BY <1>1, <1>2, <3>1, WalkIs DEF V
    <2>4. Q # {} /\ n \in Q /\ (\A k \in Q : k <= n) /\ Error!errorCallers(a) = U[n]
        BY <1>9, <2>2
    <2>5. U \in Seq(E) /\ Len(U) \in Nat
        BY <1>2, <2>1
    <2> HIDE DEF a, U, Q, m, n
    <2>6. Len(V) = Len(U) + 1 /\ \A i \in 1..Len(U) : V[i + 1] = U[i]
        <3>1. /\ Len(<<made>> \o U) = Len(U) + 1
              /\ \A i \in 1..Len(U) : (<<made>> \o U)[i + 1] = U[i]
            BY <1>1, <2>5
        <3> QED BY <2>3, <3>1
    <2>7. n + 1 \in P
        <3>1. n \in 1..Len(U) /\ Error!Carries(U[n])
            BY <2>2, <2>4
        <3>2. n + 1 \in 1..Len(V) /\ Error!Carries(V[n + 1])
            BY <2>5, <2>6, <3>1
        <3> QED BY <1>4, <3>2
    <2>8. m \in P /\ (\A k \in P : k <= m) /\ found = V[m]
        BY <1>4, <2>7 DEF m
    <2>9. m = n + 1
        <3>1. m \in 1..Len(V) /\ Error!Carries(V[m]) /\ m >= n + 1 /\ n \in 1..Len(U)
            BY <1>4, <2>2, <2>4, <2>7, <2>8
        <3>2. m - 1 \in 1..Len(U) /\ (m - 1) + 1 = m
            BY <2>5, <2>6, <3>1
        <3>3. m - 1 \in Q
            BY <2>2, <2>6, <3>1, <3>2
        <3>4. m - 1 <= n
            BY <2>4, <3>3
        <3> QED
            BY <3>1, <3>2, <3>4
    <2>10. V[n + 1] = U[n]
        BY <2>2, <2>4, <2>6
    <2> QED
        BY <2>4, <2>8, <2>9, <2>10 DEF a
<1> QED
    BY <1>6, <1>7, <1>8, <1>9 DEF found, Error!StackOfTheCause

-----------------------------------------------------------------------------
(* The names of a tree of errors.                                           *)

\* FlattenSeq, one sequence after the other.
Flats(q, f) == f = [i \in 1..Len(q) |-> IF i = 1 THEN q[i] ELSE f[i - 1] \o q[i]]
Flat(q) == CHOOSE f : Flats(q, f)

LEMMA FlatIs == ASSUME NEW q PROVE Error!FlattenSeq(q) = IF Len(q) = 0 THEN q ELSE Flat(q)[Len(q)]
BY DEF Error!FlattenSeq, Flat, Flats

\* There is such a function: one for the first n gives one for the next.
LEMMA FlatExists == ASSUME NEW q, Len(q) \in Nat PROVE Flats(q, Flat(q))
<1> DEFINE Step(f, i) == IF i = 1 THEN q[i] ELSE f[i - 1] \o q[i]
           Upto(n, f) == f = [i \in 1..n |-> Step(f, i)]
           Bad == {n \in 0..Len(q) : ~\E f : Upto(n, f)}
<1>3. ASSUME Bad # {} PROVE FALSE
    <2>1. PICK n \in Bad : \A m \in Bad : n <= m
        <3>1. Bad \subseteq Nat
            <4> HIDE DEF Upto
            <4> QED OBVIOUS
        <3> HIDE DEF Bad
        <3> QED BY <1>3, <3>1, SmallestNumber
    <2>2. n # 0
        <3>1. \A f : [i \in 1..0 |-> Step(f, i)] = [i \in 1..0 |-> 0]
            <4> HIDE DEF Step
            <4> QED OBVIOUS
        <3>2. Upto(0, [i \in 1..0 |-> 0])
            BY <3>1
        <3> QED
            BY <3>2
    <2>3. n \in 1..Len(q) /\ n - 1 \in 0..Len(q) /\ n - 1 \notin Bad
        <3>1. n \in 0..Len(q)
            BY <2>1
        <3> HIDE DEF Bad
        <3> QED BY <2>1, <2>2, <3>1
    <2>4. PICK g : Upto(n - 1, g)
        BY <2>3
    <2> DEFINE f == [i \in 1..n |-> IF i = n THEN Step(g, n) ELSE g[i]]
    <2>5. ASSUME NEW i \in 1..n PROVE f[i] = Step(f, i)
        <3>1. \A d \in 1..(n - 1) : d \in 1..n /\ d # n /\ f[d] = g[d] /\ g[d] = Step(g, d)
            <4>1. \A d \in 1..(n - 1) : d \in 1..n /\ d # n
                BY <2>3
            <4>2. \A d \in 1..(n - 1) : g[d] = Step(g, d)
                <5> HIDE DEF Step
                <5> QED BY <2>4
            <4> HIDE DEF Step
            <4> QED BY <4>1, <4>2
        <3>2. f[i] = Step(g, i)
            <4>1. f[i] = IF i = n THEN Step(g, n) ELSE g[i]
                <5> HIDE DEF Step
                <5> QED OBVIOUS
            <4>2. i = n \/ i \in 1..(n - 1)
                BY <2>3
            <4> HIDE DEF Step, f
            <4> QED BY <3>1, <4>1, <4>2
        <3>3. i = 1 \/ i - 1 \in 1..(n - 1)
            BY <2>3
        <3>4. Step(f, i) = Step(g, i)
            <4> HIDE DEF f
            <4> QED BY <3>1, <3>3
        <3> QED
            BY <3>2, <3>4
    <2>6. Upto(n, f)
        <3> HIDE DEF Step
        <3>1. \A h : h = f => [i \in 1..n |-> Step(h, i)] = f
            BY <2>5
        <3> QED
            BY <3>1
    <2> QED
        BY <2>1, <2>6
<1>4. Len(q) \notin Bad
    <2> HIDE DEF Bad
    <2> QED BY <1>3
<1>5. PICK f : Upto(Len(q), f)
    <2>1. Len(q) \in 0..Len(q)
        OBVIOUS
    <2> HIDE DEF Upto
    <2> QED BY <1>4, <2>1
<1> QED
    BY <1>5 DEF Flats, Flat

\* Flattening nothing, and one sequence more; what comes of it, and of two in a row.
LEMMA FlattenNone == Error!FlattenSeq(<<>>) = <<>>
BY FlatIs

LEMMA FlattenAppend ==
    ASSUME NEW S, NEW q \in Seq(Seq(S)), NEW x \in Seq(S), Error!FlattenSeq(q) \in Seq(S)
    PROVE  Error!FlattenSeq(Append(q, x)) = Error!FlattenSeq(q) \o x
<1> DEFINE p == Append(q, x)
           n == Len(q)
           f == Flat(q)
           g == Flat(p)
<1>1. /\ n \in Nat /\ Len(p) = n + 1 /\ p[n + 1] = x /\ \A i \in 1..n : p[i] = q[i]
    OBVIOUS
<1>2. Flats(q, f) /\ Flats(p, g)
    BY <1>1, FlatExists
<1> HIDE DEF p
<1>3. /\ Error!FlattenSeq(q) = IF n = 0 THEN q ELSE f[n]
      /\ Error!FlattenSeq(p) = g[n + 1]
    <2>1. Len(p) # 0
        BY <1>1
    <2> QED BY <1>1, <2>1, FlatIs
<1> HIDE DEF f, g
<1>4. /\ \A i \in 1..n : f[i] = IF i = 1 THEN q[i] ELSE f[i - 1] \o q[i]
      /\ \A i \in 1..(n + 1) : g[i] = IF i = 1 THEN p[i] ELSE g[i - 1] \o p[i]
    BY <1>1, <1>2 DEF Flats
<1> HIDE DEF n
<1>5. \A i \in 1..n : f[i] = g[i]
    <2> DEFINE Bad == {i \in 1..n : f[i] # g[i]}
    <2>1. ASSUME Bad # {} PROVE FALSE
        <3>1. PICK i \in Bad : \A m \in Bad : i <= m
            <4>1. Bad \subseteq Nat
                BY <1>1
            <4> HIDE DEF Bad
            <4> QED BY <2>1, <4>1, SmallestNumber
        <3>2. i \in 1..n /\ i \in 1..(n + 1)
            BY <1>1, <3>1
        <3>3. i = 1 \/ (i - 1 \in 1..n /\ i - 1 < i)
            BY <1>1, <3>2
        <3>4. i = 1 \/ f[i - 1] = g[i - 1]
            BY <1>1, <3>1, <3>2, <3>3
        <3>5. f[i] = g[i]
            BY <1>1, <1>4, <3>2, <3>4
        <3> QED
            BY <3>1, <3>5
    <2> QED
        BY <2>1
<1>6. CASE n = 0
    <2>1. q = <<>> /\ g[n + 1] = x /\ <<>> \o x = x
        BY <1>1, <1>4, <1>6 DEF n
    <2> QED
        BY <1>3, <1>6, <2>1 DEF p
<1>7. CASE n # 0
    <2>1. n \in 1..n /\ n + 1 \in 1..(n + 1) /\ n + 1 # 1 /\ (n + 1) - 1 = n
        BY <1>1, <1>7
    <2>2. g[n + 1] = g[n] \o x
        BY <1>1, <1>4, <2>1
    <2> QED
        BY <1>3, <1>5, <1>7, <2>1, <2>2 DEF p
<1> QED
    BY <1>6, <1>7

LEMMA FlattenIn ==
    ASSUME NEW S, NEW q \in Seq(Seq(S))
    PROVE  Error!FlattenSeq(q) \in Seq(S)
<1> DEFINE Bad == {n \in Nat : \E p \in Seq(Seq(S)) :
                                  Len(p) = n /\ Error!FlattenSeq(p) \notin Seq(S)}
<1>1. ASSUME Bad # {} PROVE FALSE
    <2>1. PICK n \in Bad : \A m \in Bad : n <= m
        <3>1. Bad \subseteq Nat
            OBVIOUS
        <3> HIDE DEF Bad
        <3> QED BY <1>1, <3>1, SmallestNumber
    <2>2. PICK p \in Seq(Seq(S)) : Len(p) = n /\ Error!FlattenSeq(p) \notin Seq(S)
        BY <2>1
    <2>3. p # <<>>
        BY <2>2, FlattenNone
    <2>4. PICK r \in Seq(Seq(S)), x \in Seq(S) : p = Append(r, x)
        BY <2>3, SequenceEmptyOrAppend
    <2>5. Error!FlattenSeq(r) \in Seq(S)
        <3>1. Len(r) \in Nat /\ ~(n <= Len(r))
            BY <2>2, <2>4
        <3> QED BY <2>1, <2>4, <3>1
    <2> HIDE DEF Bad
    <2>6. Error!FlattenSeq(p) = Error!FlattenSeq(r) \o x
        BY <2>4, <2>5, FlattenAppend
    <2> QED
        BY <2>2, <2>4, <2>5, <2>6
<1> QED
    BY <1>1

LEMMA FlattenBoth ==
    ASSUME NEW S, NEW p \in Seq(Seq(S)), NEW q \in Seq(Seq(S))
    PROVE  Error!FlattenSeq(p \o q) = Error!FlattenSeq(p) \o Error!FlattenSeq(q)
<1> DEFINE T == Seq(Seq(S))
           Fine(s) == Error!FlattenSeq(p \o s) = Error!FlattenSeq(p) \o Error!FlattenSeq(s)
           Bad == {n \in Nat : \E s \in T : Len(s) = n /\ ~Fine(s)}
<1>1. ASSUME Bad # {} PROVE FALSE
    <2>1. PICK n \in Bad : \A m \in Bad : n <= m
        <3>1. Bad \subseteq Nat
            OBVIOUS
        <3> HIDE DEF Bad
        <3> QED BY <1>1, <3>1, SmallestNumber
    <2>2. PICK s \in T : Len(s) = n /\ ~Fine(s)
        BY <2>1
    <2>3. Fine(<<>>)
        <3>1. p \o <<>> = p /\ Error!FlattenSeq(p) \in Seq(S)
            BY FlattenIn
        <3>2. Error!FlattenSeq(p) \o <<>> = Error!FlattenSeq(p)
            BY <3>1
        <3> QED
            BY <3>1, <3>2, FlattenNone
    <2>4. s # <<>>
        BY <2>2, <2>3
    <2>5. PICK r \in T, x \in Seq(S) : s = Append(r, x)
        BY <2>4, SequenceEmptyOrAppend
    <2>6. Fine(r)
        <3>1. Len(r) \in Nat /\ ~(n <= Len(r))
            BY <2>2, <2>5
        <3> HIDE DEF Fine
        <3> QED BY <2>1, <2>5, <3>1
    <2>7. p \o s = Append(p \o r, x) /\ p \o r \in T
        <3> DEFINE SS == Seq(S)
        <3>1. p \in Seq(SS) /\ r \in Seq(SS) /\ x \in SS /\ s = Append(r, x)
            BY <2>5
        <3> HIDE DEF SS
        <3>2. p \o Append(r, x) = Append(p \o r, x) /\ p \o r \in Seq(SS)
            <4>1. /\ Append(r, x) = r \o <<x>> /\ <<x>> \in Seq(SS) /\ p \o r \in Seq(SS)
                BY <3>1, AppendIsConcat
            <4>2. Append(p \o r, x) = (p \o r) \o <<x>>
                BY <3>1, <4>1, AppendIsConcat
            <4>3. (p \o r) \o <<x>> = p \o (r \o <<x>>)
                BY ONLY <3>1, <4>1, ConcatAssociative
            <4> QED
                BY ONLY <4>1, <4>2, <4>3
        <3> QED
            BY <3>1, <3>2 DEF SS
    <2>8. /\ Error!FlattenSeq(p) \in Seq(S) /\ Error!FlattenSeq(r) \in Seq(S)
          /\ Error!FlattenSeq(p \o r) \in Seq(S)
        BY <2>5, <2>7, FlattenIn
    <2>9. /\ Error!FlattenSeq(p \o s) = Error!FlattenSeq(p \o r) \o x
          /\ Error!FlattenSeq(s) = Error!FlattenSeq(r) \o x
        BY <2>5, <2>7, <2>8, FlattenAppend
    <2>10. (Error!FlattenSeq(p) \o Error!FlattenSeq(r)) \o x
              = Error!FlattenSeq(p) \o (Error!FlattenSeq(r) \o x)
        <3> DEFINE a == Error!FlattenSeq(p)
                   b == Error!FlattenSeq(r)
        <3>1. a \in Seq(S) /\ b \in Seq(S) /\ x \in Seq(S)
            BY <2>5, <2>8
        <3> HIDE DEF a, b, Bad, Fine, T
        <3>2. (a \o b) \o x = a \o (b \o x)
            BY ONLY <3>1, ConcatAssociative
        <3> QED BY <3>2 DEF a, b
    <2> QED
        BY <2>2, <2>6, <2>9, <2>10
<1>2. Len(q) \notin Bad /\ Len(q) \in Nat
    <2> HIDE DEF Bad
    <2> QED BY <1>1
<1>3. Fine(q)
    <2> HIDE DEF Fine
    <2> QED BY <1>2
<1> QED
    BY <1>3

\* The errors of a walk that are no recorders.
Picks(walk) == [i \in DOMAIN walk |-> IF Error!Recorder(walk[i]) THEN <<>> ELSE <<walk[i]>>]
Named(walk) == Error!FlattenSeq(Picks(walk))

LEMMA PicksIn ==
    ASSUME NEW E, NEW u \in Seq(E)
    PROVE  /\ Picks(u) \in Seq(Seq(E)) /\ Len(Picks(u)) = Len(u)
           /\ \A i \in 1..Len(u) : Picks(u)[i] = IF Error!Recorder(u[i]) THEN <<>> ELSE <<u[i]>>
<1>1. DOMAIN u = 1..Len(u) /\ Len(u) \in Nat /\ \A i \in 1..Len(u) : u[i] \in E
    OBVIOUS
<1>2. \A i \in 1..Len(u) : (IF Error!Recorder(u[i]) THEN <<>> ELSE <<u[i]>>) \in Seq(E)
    BY <1>1
<1> QED
    BY <1>1, <1>2 DEF Picks

\* Of two walks in a row, and of a single error.
LEMMA NamedBoth ==
    ASSUME NEW E, NEW u \in Seq(E), NEW v \in Seq(E)
    PROVE  Named(u \o v) = Named(u) \o Named(v)
<1> DEFINE P == Picks(u)
           Q == Picks(v)
           R == Picks(u \o v)
<1>1. u \o v \in Seq(E) /\ Len(u \o v) = Len(u) + Len(v) /\ Len(u) \in Nat /\ Len(v) \in Nat
      /\ (\A i \in 1..Len(u) : (u \o v)[i] = u[i])
      /\ (\A i \in 1..Len(v) : (u \o v)[Len(u) + i] = v[i])
    OBVIOUS
<1>2. /\ P \in Seq(Seq(E)) /\ Len(P) = Len(u)
      /\ \A i \in 1..Len(u) : P[i] = IF Error!Recorder(u[i]) THEN <<>> ELSE <<u[i]>>
    BY PicksIn
<1>3. /\ Q \in Seq(Seq(E)) /\ Len(Q) = Len(v)
      /\ \A i \in 1..Len(v) : Q[i] = IF Error!Recorder(v[i]) THEN <<>> ELSE <<v[i]>>
    BY PicksIn
<1>4. /\ R \in Seq(Seq(E)) /\ Len(R) = Len(u \o v)
      /\ \A i \in 1..Len(u \o v) :
            R[i] = IF Error!Recorder((u \o v)[i]) THEN <<>> ELSE <<(u \o v)[i]>>
    BY <1>1, PicksIn
<1> HIDE DEF P, Q, R
<1> DEFINE S == Seq(E)
<1>S. P \in Seq(S) /\ Q \in Seq(S) /\ R \in Seq(S)
    BY <1>2, <1>3, <1>4
<1> HIDE DEF S
<1>5. P \o Q \in Seq(S) /\ Len(P \o Q) = Len(R)
    <2>1. /\ Len(P) = Len(u) /\ Len(Q) = Len(v) /\ Len(R) = Len(u) + Len(v)
          /\ Len(u) \in Nat /\ Len(v) \in Nat
        BY <1>1, <1>2, <1>3, <1>4
    <2>2. P \o Q \in Seq(S) /\ Len(P \o Q) = Len(P) + Len(Q)
        BY ONLY <1>S
    <2> QED BY <2>1, <2>2
<1>6. ASSUME NEW i \in 1..Len(R) PROVE R[i] = (P \o Q)[i]
    <2>1. CASE i <= Len(u)
        <3>1. i \in 1..Len(u) /\ (P \o Q)[i] = P[i]
            BY <1>1, <1>2, <1>3, <1>4, <1>S, <2>1
        <3> QED BY <1>1, <1>2, <1>4, <3>1
    <2>2. CASE i > Len(u)
        <3> DEFINE j == i - Len(u)
        <3>1. j \in 1..Len(v) /\ i = Len(u) + j
            BY <1>1, <1>4, <2>2
        <3> HIDE DEF j
        <3>2. (P \o Q)[Len(u) + j] = Q[j]
            BY <1>1, <1>2, <1>3, <1>S, <3>1
        <3>3. (u \o v)[Len(u) + j] = v[j] /\ i \in 1..Len(u \o v)
            BY <1>1, <1>4, <3>1
        <3> QED BY <1>3, <1>4, <3>1, <3>2, <3>3
    <2>3. i <= Len(u) \/ i > Len(u)
        BY <1>1, <1>4
    <2> QED
        BY <2>1, <2>2, <2>3
<1>7. R = P \o Q
    BY <1>S, <1>5, <1>6, SeqEqual
<1> QED
    BY <1>2, <1>3, <1>7, FlattenBoth DEF Named, P, Q, R

LEMMA NamedOne ==
    ASSUME NEW e PROVE Named(<<e>>) = IF Error!Recorder(e) THEN <<>> ELSE <<e>>
<1> DEFINE x == IF Error!Recorder(e) THEN <<>> ELSE <<e>>
<1>1. x \in Seq({e}) /\ <<>> \in Seq(Seq({e})) /\ <<>> \in Seq({e})
    <2>1. <<e>> \in Seq({e}) /\ <<>> \in Seq({e}) /\ <<>> \in Seq(Seq({e}))
        OBVIOUS
    <2> QED BY <2>1
<1>2. Picks(<<e>>) = Append(<<>>, x)
    <2>1. Picks(<<e>>) \in Seq(Seq({e})) /\ Len(Picks(<<e>>)) = 1 /\ Picks(<<e>>)[1] = x
        <3>1. <<e>> \in Seq({e}) /\ Len(<<e>>) = 1 /\ <<e>>[1] = e /\ 1 \in 1..1
            OBVIOUS
        <3> QED BY <3>1, PicksIn
    <2>2. Append(<<>>, x) \in Seq(Seq({e})) /\ Len(Append(<<>>, x)) = 1 /\ Append(<<>>, x)[1] = x
        BY <1>1
    <2> HIDE DEF x
    <2> QED BY <2>1, <2>2, SeqEqual
<1> HIDE DEF x
<1>3. Error!FlattenSeq(Append(<<>>, x)) = <<>> \o x
    BY <1>1, FlattenAppend, FlattenNone
<1>4. <<>> \o x = x
    BY <1>1
<1> QED
    BY <1>2, <1>3, <1>4 DEF Named, x

\* The first m of a sequence, or all.
Cut(q, m) == SubSeq(q, 1, IF Len(q) > m THEN m ELSE Len(q))

LEMMA CutIs ==
    ASSUME NEW E, NEW q \in Seq(E), NEW m \in Nat
    PROVE  /\ Cut(q, m) \in Seq(E)
           /\ Len(Cut(q, m)) = IF Len(q) > m THEN m ELSE Len(q)
           /\ \A i \in 1..Len(Cut(q, m)) : Cut(q, m)[i] = q[i]
           /\ Len(q) <= m => Cut(q, m) = q
<1> DEFINE n == IF Len(q) > m THEN m ELSE Len(q)
<1>1. n \in Nat /\ n <= Len(q) /\ Len(q) \in Nat /\ \A i \in 1..n : q[i] \in E
    OBVIOUS
<1>2. Cut(q, m) = SubSeq(q, 1, n)
    BY DEF Cut
<1>3. Len(q) <= m => n = Len(q)
    OBVIOUS
<1> HIDE DEF n
<1>4. SubSeq(q, 1, n) \in Seq(E) /\ Len(SubSeq(q, 1, n)) = n
      /\ \A i \in 1..n : SubSeq(q, 1, n)[i] = q[i]
    BY <1>1
<1>5. n = Len(q) => SubSeq(q, 1, n) = q
    BY <1>1, <1>4, SeqEqual
<1> QED
    BY <1>2, <1>3, <1>4, <1>5 DEF n

\* Cutting before more is added makes no difference.
LEMMA CutTwice ==
    ASSUME NEW E, NEW p \in Seq(E), NEW q \in Seq(E), NEW m \in Nat
    PROVE  Cut(Cut(p, m) \o q, m) = Cut(p \o q, m)
<1>1. CASE Len(p) <= m
    BY <1>1, CutIs
<1>2. CASE Len(p) > m
    <2> DEFINE c == Cut(p, m)
    <2>1. c \in Seq(E) /\ Len(c) = m /\ \A i \in 1..m : c[i] = p[i]
        BY <1>2, CutIs
    <2> HIDE DEF c
    <2> DEFINE l == Cut(c \o q, m)
               r == Cut(p \o q, m)
    <2>2. /\ c \o q \in Seq(E) /\ Len(c \o q) >= m /\ p \o q \in Seq(E) /\ Len(p \o q) >= m
          /\ \A i \in 1..m : (c \o q)[i] = (p \o q)[i]
        BY <1>2, <2>1
    <2>3. /\ l \in Seq(E) /\ Len(l) = m /\ \A i \in 1..m : l[i] = (c \o q)[i]
          /\ r \in Seq(E) /\ Len(r) = m /\ \A i \in 1..m : r[i] = (p \o q)[i]
        <3>1. ASSUME NEW s \in Seq(E), Len(s) >= m
              PROVE  /\ Cut(s, m) \in Seq(E) /\ Len(Cut(s, m)) = m
                     /\ \A i \in 1..m : Cut(s, m)[i] = s[i]
            <4>1. Len(s) \in Nat /\ (Len(s) > m \/ Len(s) = m)
                BY <3>1
            <4> QED BY <4>1, CutIs
        <3> DEFINE a == c \o q
                   b == p \o q
        <3>2. a \in Seq(E) /\ Len(a) >= m /\ b \in Seq(E) /\ Len(b) >= m
            BY <2>2
        <3> HIDE DEF a, b
        <3> QED BY <3>1, <3>2 DEF a, b
    <2> HIDE DEF l, r
    <2>4. l = r
        BY <2>2, <2>3, SeqEqual
    <2> QED
        BY <2>4 DEF l, r, c
<1> QED
    BY <1>1, <1>2

\* Nor does what comes before, if the bound allows for it; and a full one takes no more.
LEMMA CutAfter ==
    ASSUME NEW E, NEW x \in E, NEW q \in Seq(E), NEW m \in Nat
    PROVE  Cut(<<x>> \o q, m + 1) = <<x>> \o Cut(q, m)
<1> DEFINE c == Cut(q, m)
           l == Cut(<<x>> \o q, m + 1)
<1>1. /\ <<x>> \o q \in Seq(E) /\ Len(<<x>> \o q) = Len(q) + 1 /\ (<<x>> \o q)[1] = x
      /\ (\A i \in 1..Len(q) : (<<x>> \o q)[i + 1] = q[i]) /\ Len(q) \in Nat
    OBVIOUS
<1>2. /\ c \in Seq(E) /\ Len(c) = (IF Len(q) > m THEN m ELSE Len(q))
      /\ \A i \in 1..Len(c) : c[i] = q[i]
    BY CutIs
<1>3. /\ l \in Seq(E)
      /\ Len(l) = (IF Len(<<x>> \o q) > m + 1 THEN m + 1 ELSE Len(<<x>> \o q))
      /\ \A i \in 1..Len(l) : l[i] = (<<x>> \o q)[i]
    <2> DEFINE s == <<x>> \o q
    <2>1. s \in Seq(E) /\ m + 1 \in Nat
        OBVIOUS
    <2> HIDE DEF s
    <2> QED BY <2>1, CutIs DEF s
<1> HIDE DEF c, l
<1>4. /\ <<x>> \o c \in Seq(E) /\ Len(<<x>> \o c) = Len(c) + 1 /\ (<<x>> \o c)[1] = x
      /\ \A i \in 1..Len(c) : (<<x>> \o c)[i + 1] = c[i]
    BY <1>2
<1>5. Len(l) = Len(c) + 1 /\ Len(c) \in Nat /\ Len(c) <= Len(q)
    BY <1>1, <1>2, <1>3
<1>6. ASSUME NEW i \in 1..Len(l) PROVE l[i] = (<<x>> \o c)[i]
    <2>1. CASE i = 1
        BY <1>1, <1>3, <1>4, <2>1
    <2>2. CASE i # 1
        <3> DEFINE j == i - 1
        <3>1. j \in 1..Len(c) /\ j \in 1..Len(q) /\ i = j + 1
            BY <1>1, <1>5, <2>2
        <3> HIDE DEF j
        <3> QED BY <1>1, <1>2, <1>3, <1>4, <3>1
    <2> QED
        BY <2>1, <2>2
<1>7. l = <<x>> \o c
    BY <1>3, <1>4, <1>5, <1>6, SeqEqual
<1> QED
    BY <1>7 DEF l, c

\* errorChain's loop over what an error wraps.
Through(f, base, inner) == Error!FoldLeft(LAMBDA c, i : f[i][1][c], base, inner)

\* FoldLeft as a function of the places it has been through.
Throughs(iter, f, base, inner) ==
    iter = [s \in SUBSET DOMAIN inner |->
               IF s = {} THEN base
               ELSE f[inner[Error!Max(s)]][1][iter[s \ {Error!Max(s)}]]]
ThroughAll(f, base, inner) == CHOOSE iter : Throughs(iter, f, base, inner)

LEMMA ThroughIs ==
    ASSUME NEW f, NEW base, NEW inner
    PROVE  Through(f, base, inner) = ThroughAll(f, base, inner)[DOMAIN inner]
BY DEF Through, Error!FoldLeft, Error!MapThenFoldSet, ThroughAll, Throughs

LEMMA MaxTwo ==
    /\ Error!Max({1}) = 1 /\ Error!Max({2}) = 2 /\ Error!Max({1, 2}) = 2
<1>1. ASSUME NEW n \in Nat, NEW T, T \subseteq 0..n, n \in T PROVE Error!Max(T) = n
    <2>1. \E m \in T : \A k \in T : m >= k
        BY <1>1
    <2>2. Error!Max(T) \in T /\ \A k \in T : Error!Max(T) >= k
        BY <2>1 DEF Error!Max
    <2>3. Error!Max(T) \in 0..n /\ Error!Max(T) >= n
        BY <1>1, <2>2
    <2> QED
        BY <1>1, <2>3
<1> QED
    BY <1>1

\* One walk for each error wrapped, in their order.
LEMMA ThroughTwo ==
    ASSUME NEW f, NEW base, NEW inner, Len(inner) \in 0..2, DOMAIN inner = 1..Len(inner)
    PROVE  Through(f, base, inner)
              = IF Len(inner) = 0 THEN base
                ELSE IF Len(inner) = 1 THEN f[inner[1]][1][base]
                ELSE f[inner[2]][1][f[inner[1]][1][base]]
<1> DEFINE D == DOMAIN inner
           a == f[inner[1]][1][base]
           b == f[inner[2]][1][base]
           c == f[inner[2]][1][a]
           Step(iter, s) == IF s = {} THEN base
                            ELSE f[inner[Error!Max(s)]][1][iter[s \ {Error!Max(s)}]]
           h == [s \in SUBSET D |-> IF s = {} THEN base ELSE IF s = {1} THEN a
                                    ELSE IF s = {2} THEN b ELSE c]
<1>1. \/ Len(inner) = 0 /\ D = {}
      \/ Len(inner) = 1 /\ D = {1}
      \/ Len(inner) = 2 /\ D = {1, 2}
    <2> DEFINE n == Len(inner)
    <2>1. n \in {0, 1, 2} /\ D = 1..n
        OBVIOUS
    <2> HIDE DEF n, D
    <2>2. (n = 0 /\ D = {}) \/ (n = 1 /\ D = {1}) \/ (n = 2 /\ D = {1, 2})
        <3>1. 1..0 = {} /\ 1..1 = {1} /\ 1..2 = {1, 2}
            OBVIOUS
        <3>2. \A m \in {0, 1, 2} : \/ m = 0 /\ 1..m = {}
                                   \/ m = 1 /\ 1..m = {1}
                                   \/ m = 2 /\ 1..m = {1, 2}
            BY ONLY <3>1
        <3> QED BY ONLY <2>1, <3>2
    <2> QED
        BY <2>2 DEF n
<1>2. ASSUME NEW s \in SUBSET D PROVE h[s] = Step(h, s)
    <2>1. /\ {} # {1} /\ {} # {2} /\ {1} # {2} /\ {1, 2} # {1} /\ {1, 2} # {2}
          /\ {1, 2} # {} /\ {1, 2} \ {2} = {1} /\ {1} \ {1} = {} /\ {2} \ {2} = {}
        <3>1. 1 # 2
            OBVIOUS
        <3>2. {} # {1} /\ {} # {2} /\ {1} # {2} /\ {1, 2} # {1} /\ {1, 2} # {2} /\ {1, 2} # {}
            BY ONLY <3>1
        <3>3. {1, 2} \ {2} = {1} /\ {1} \ {1} = {} /\ {2} \ {2} = {}
            BY ONLY <3>1
        <3> QED
            BY ONLY <3>2, <3>3
    <2>8. {} \in SUBSET D /\ (s = {1, 2} => {1} \in SUBSET D)
        <3> HIDE DEF D
        <3> QED OBVIOUS
    <2>2. s = {} \/ s = {1} \/ s = {2} \/ s = {1, 2}
        <3> HIDE DEF D
        <3>1. D \subseteq {1, 2}
            BY <1>1
        <3>2. s \subseteq {1, 2}
            BY <3>1
        <3> QED BY ONLY <3>2
    <2>3. /\ \A t \in SUBSET D : h[t] = IF t = {} THEN base ELSE IF t = {1} THEN a
                                        ELSE IF t = {2} THEN b ELSE c
        <3> HIDE DEF a, b, c, D
        <3> QED OBVIOUS
    <2> HIDE DEF h, D
    <2>4. CASE s = {}
        BY <2>1, <2>8, <2>3, <2>4
    <2>5. CASE s = {1}
        BY <2>1, <2>8, <2>3, <2>5, MaxTwo
    <2>6. CASE s = {2}
        BY <2>1, <2>8, <2>3, <2>6, MaxTwo
    <2>7. CASE s = {1, 2}
        BY <2>1, <2>8, <2>3, <2>7, MaxTwo
    <2> QED
        BY <2>2, <2>4, <2>5, <2>6, <2>7
<1>3. Throughs(h, f, base, inner)
    <2> HIDE DEF Step
    <2>1. \A g : g = h => [s \in SUBSET D |-> Step(g, s)] = h
        BY <1>2
    <2>2. h = [s \in SUBSET D |-> Step(h, s)]
        BY <2>1
    <2> HIDE DEF h
    <2> QED
        BY <2>2 DEF Throughs, Step
<1> DEFINE g == ThroughAll(f, base, inner)
<1>4. Throughs(g, f, base, inner)
    BY <1>3 DEF ThroughAll
<1> HIDE DEF g, h
<1>5. \A s \in SUBSET D : g[s] = Step(g, s)
    BY <1>4 DEF Throughs
<1>6. g[{}] = base
    BY <1>5
<1>7. CASE D = {}
    BY <1>1, <1>6, <1>7, ThroughIs DEF g
<1>8. CASE D = {1}
    <2>1. g[{1}] = a
        <3>1. {1} \in SUBSET D /\ {1} \ {1} = {} /\ {1} # {}
            BY <1>8
        <3> HIDE DEF D
        <3> QED BY <1>5, <1>6, <3>1, MaxTwo
    <2> QED
        BY <1>1, <1>8, <2>1, ThroughIs DEF g
<1>9. CASE D = {1, 2}
    <2>1. {1} \in SUBSET D /\ {1} \ {1} = {} /\ {1} # {} /\ {1, 2} \in SUBSET D
          /\ {1, 2} # {} /\ {1, 2} \ {2} = {1}
        BY <1>9
    <2>2. g[{1}] = a
        <3> HIDE DEF D
        <3> QED BY <1>5, <1>6, <2>1, MaxTwo
    <2>3. g[{1, 2}] = c
        <3> HIDE DEF D, a
        <3> QED BY <1>5, <2>1, <2>2, MaxTwo
    <2> QED
        BY <1>1, <1>9, <2>3, ThroughIs DEF g
<1> QED
    BY <1>1, <1>7, <1>8, <1>9

\* What chainFrom is for one error, given what it is for the errors it wraps.
Chained(f, e) ==
    [depth \in 0..1 |-> [chain \in Seq(DOMAIN errors) |->
        IF Len(chain) >= MaxChain THEN chain
        ELSE IF Error!Recorder(e) THEN f[errors[e].inner[1]][depth][chain]
        ELSE Through(f, IF depth > 0 THEN Append(chain, e) ELSE chain, errors[e].inner)]]
\* The same for errorType.
Typing(t, e) == IF Error!Recorder(e) THEN t[errors[e].inner[1]] ELSE e

\* The facts of Trees that are used here.
LEMMA ErrorsAre ==
    ASSUME Trees(errors)
    PROVE  /\ Len(errors) \in Nat /\ DOMAIN errors = 1..Len(errors)
           /\ \A e \in 1..Len(errors) :
                 /\ Len(errors[e].inner) \in 0..2
                 /\ DOMAIN errors[e].inner = 1..Len(errors[e].inner)
                 /\ \A i \in 1..Len(errors[e].inner) : errors[e].inner[i] \in 1..(e - 1)
                 /\ Error!Recorder(e) => Len(errors[e].inner) = 1
BY DEF Trees, ErrorKinds, Error!Recorder

\* Both depend on nothing else.
LEMMA ChainedSame ==
    ASSUME Trees(errors), NEW e \in 1..Len(errors), NEW f, NEW g,
           \A d \in 1..(e - 1) : f[d] = g[d]
    PROVE  Chained(f, e) = Chained(g, e) /\ Typing(f, e) = Typing(g, e)
<1> DEFINE inner == errors[e].inner
<1>1. /\ Len(inner) \in 0..2 /\ DOMAIN inner = 1..Len(inner)
      /\ \A i \in 1..Len(inner) : f[inner[i]] = g[inner[i]]
      /\ Error!Recorder(e) => f[inner[1]] = g[inner[1]]
    <2>1. /\ Len(inner) \in 0..2 /\ DOMAIN inner = 1..Len(inner)
          /\ \A i \in 1..Len(inner) : inner[i] \in 1..(e - 1)
          /\ Error!Recorder(e) => Len(inner) = 1
        BY ErrorsAre
    <2> HIDE DEF inner
    <2> QED BY <2>1
<1> HIDE DEF inner
<1>2. ASSUME NEW base PROVE Through(f, base, inner) = Through(g, base, inner)
    <2>1. Len(inner) \in {0, 1, 2}
        BY <1>1
    <2>2. CASE Len(inner) = 0
        BY <1>1, <2>2, ThroughTwo
    <2>3. CASE Len(inner) = 1
        <3>1. 1 \in 1..Len(inner) /\ Len(inner) # 0
            BY <2>3
        <3> QED BY <1>1, <2>3, <3>1, ThroughTwo
    <2>4. CASE Len(inner) = 2
        <3>1. 1 \in 1..Len(inner) /\ 2 \in 1..Len(inner) /\ Len(inner) # 0 /\ Len(inner) # 1
            BY <2>4
        <3>2. f[inner[1]] = g[inner[1]] /\ f[inner[2]] = g[inner[2]]
            BY <1>1, <3>1
        <3>3. ASSUME NEW h
              PROVE  Through(h, base, inner) = h[inner[2]][1][h[inner[1]][1][base]]
            <4>1. Len(inner) \in 0..2 /\ DOMAIN inner = 1..Len(inner)
                BY <1>1
            <4>2. Through(h, base, inner)
                     = IF Len(inner) = 0 THEN base
                       ELSE IF Len(inner) = 1 THEN h[inner[1]][1][base]
                       ELSE h[inner[2]][1][h[inner[1]][1][base]]
                BY ONLY <4>1, ThroughTwo
            <4> QED BY ONLY <3>1, <4>2
        <3> QED BY <3>2, <3>3
    <2> QED
        BY <2>1, <2>2, <2>3, <2>4
<1>3. Chained(f, e) = Chained(g, e)
    BY <1>1, <1>2 DEF Chained, inner
<1> QED
    BY <1>1, <1>3 DEF Typing, inner

\* There are such functions.
LEMMA ChainExists ==
    ASSUME Trees(errors)
    PROVE  \E f : f = [e \in 1..Len(errors) |-> Chained(f, e)]
<1> DEFINE Upto(n, f) == f = [e \in 1..n |-> Chained(f, e)]
           Bad == {n \in 0..Len(errors) : ~\E f : Upto(n, f)}
<1>1. Len(errors) \in Nat
    BY ErrorsAre
<1>2. ASSUME Bad # {} PROVE FALSE
    <2>1. PICK n \in Bad : \A m \in Bad : n <= m
        <3>1. Bad \subseteq Nat
            <4> HIDE DEF Upto
            <4> QED BY <1>1
        <3> HIDE DEF Bad
        <3> QED BY <1>2, <3>1, SmallestNumber
    <2>2. n # 0
        <3>1. \A f : [e \in 1..0 |-> Chained(f, e)] = [e \in 1..0 |-> 0]
            OBVIOUS
        <3>2. Upto(0, [e \in 1..0 |-> 0])
            BY <3>1
        <3> QED
            BY <3>2
    <2>3. n \in 1..Len(errors) /\ n - 1 \in 0..Len(errors) /\ n - 1 \notin Bad
        <3>1. n \in 0..Len(errors)
            BY <2>1
        <3> HIDE DEF Bad
        <3> QED BY <1>1, <2>1, <2>2, <3>1
    <2>4. PICK g : Upto(n - 1, g)
        <3> HIDE DEF Upto
        <3> QED BY <2>3
    <2> DEFINE f == [e \in 1..n |-> IF e = n THEN Chained(g, n) ELSE g[e]]
    <2>5. /\ f[n] = Chained(g, n)
          /\ \A d \in 1..(n - 1) : d \in 1..n /\ f[d] = g[d] /\ g[d] = Chained(g, d)
        <3>1. n \in 1..n /\ \A d \in 1..(n - 1) : d \in 1..n /\ d # n
            BY <1>1, <2>3
        <3>2. \A d \in 1..(n - 1) : g[d] = Chained(g, d)
            BY <2>4
        <3>3. \A d \in 1..n : f[d] = IF d = n THEN Chained(g, n) ELSE g[d]
            OBVIOUS
        <3> HIDE DEF f, Bad, Upto
        <3> QED BY <3>1, <3>2, <3>3
    <2>6. ASSUME NEW e \in 1..n PROVE f[e] = Chained(f, e)
        <3>1. e \in 1..Len(errors) /\ (e = n \/ e \in 1..(n - 1))
              /\ \A d \in 1..(e - 1) : d \in 1..(n - 1)
            BY <1>1, <2>3
        <3> HIDE DEF f, Bad
        <3>2. Chained(f, e) = Chained(g, e)
            BY <2>5, <3>1, ChainedSame
        <3> QED
            BY <2>5, <3>1, <3>2
    <2>7. Upto(n, f)
        <3>1. \A h : h = f => [e \in 1..n |-> Chained(h, e)] = f
            BY <2>6
        <3> QED
            BY <3>1
    <2> QED
        BY <2>1, <2>7
<1> QED
    <2>1. Len(errors) \in 0..Len(errors) /\ Len(errors) \notin Bad
        <3> HIDE DEF Bad
        <3> QED BY <1>1, <1>2
    <2>2. \E f : Upto(Len(errors), f)
        <3> HIDE DEF Upto
        <3> QED BY <2>1
    <2> QED
        BY <2>2

LEMMA TypeExists ==
    ASSUME Trees(errors)
    PROVE  \E f : f = [e \in 1..Len(errors) |-> Typing(f, e)]
<1> DEFINE Upto(n, f) == f = [e \in 1..n |-> Typing(f, e)]
           Bad == {n \in 0..Len(errors) : ~\E f : Upto(n, f)}
<1>1. Len(errors) \in Nat
    BY ErrorsAre
<1>2. ASSUME Bad # {} PROVE FALSE
    <2>1. PICK n \in Bad : \A m \in Bad : n <= m
        <3>1. Bad \subseteq Nat
            <4> HIDE DEF Upto
            <4> QED BY <1>1
        <3> HIDE DEF Bad
        <3> QED BY <1>2, <3>1, SmallestNumber
    <2>2. n # 0
        <3>1. \A f : [e \in 1..0 |-> Typing(f, e)] = [e \in 1..0 |-> 0]
            OBVIOUS
        <3>2. Upto(0, [e \in 1..0 |-> 0])
            BY <3>1
        <3> QED
            BY <3>2
    <2>3. n \in 1..Len(errors) /\ n - 1 \in 0..Len(errors) /\ n - 1 \notin Bad
        <3>1. n \in 0..Len(errors)
            BY <2>1
        <3> HIDE DEF Bad
        <3> QED BY <1>1, <2>1, <2>2, <3>1
    <2>4. PICK g : Upto(n - 1, g)
        <3> HIDE DEF Upto
        <3> QED BY <2>3
    <2> DEFINE f == [e \in 1..n |-> IF e = n THEN Typing(g, n) ELSE g[e]]
    <2>5. /\ f[n] = Typing(g, n)
          /\ \A d \in 1..(n - 1) : d \in 1..n /\ f[d] = g[d] /\ g[d] = Typing(g, d)
        <3>1. n \in 1..n /\ \A d \in 1..(n - 1) : d \in 1..n /\ d # n
            BY <1>1, <2>3
        <3>2. \A d \in 1..(n - 1) : g[d] = Typing(g, d)
            BY <2>4
        <3>3. \A d \in 1..n : f[d] = IF d = n THEN Typing(g, n) ELSE g[d]
            OBVIOUS
        <3> HIDE DEF f, Bad, Upto
        <3> QED BY <3>1, <3>2, <3>3
    <2>6. ASSUME NEW e \in 1..n PROVE f[e] = Typing(f, e)
        <3>1. e \in 1..Len(errors) /\ (e = n \/ e \in 1..(n - 1))
              /\ \A d \in 1..(e - 1) : d \in 1..(n - 1)
            BY <1>1, <2>3
        <3> HIDE DEF f, Bad
        <3>2. Typing(f, e) = Typing(g, e)
            BY <2>5, <3>1, ChainedSame
        <3> QED
            BY <2>5, <3>1, <3>2
    <2>7. Upto(n, f)
        <3>1. \A h : h = f => [e \in 1..n |-> Typing(h, e)] = f
            BY <2>6
        <3> QED
            BY <3>1
    <2> QED
        BY <2>1, <2>7
<1> QED
    <2>1. Len(errors) \in 0..Len(errors) /\ Len(errors) \notin Bad
        <3> HIDE DEF Bad
        <3> QED BY <1>1, <1>2
    <2>2. \E f : Upto(Len(errors), f)
        <3> HIDE DEF Upto
        <3> QED BY <2>1
    <2> QED
        BY <2>2

\* The definitions of the specification are these functions.
LEMMA ChainFrom ==
    ASSUME Trees(errors), NEW e \in 1..Len(errors)
    PROVE  Error!chainFrom[e] = Chained(Error!chainFrom, e)
<1> DEFINE Is(f) == f = [d \in DOMAIN errors |-> Chained(f, d)]
           g == Error!chainFrom
<1>1. g = CHOOSE f : Is(f)
    BY DEF Error!chainFrom, Chained, Through
<1>2. DOMAIN errors = 1..Len(errors)
    BY ErrorsAre
<1>3. \E f : Is(f)
    BY <1>2, ChainExists
<1>4. Is(g)
    <2> HIDE DEF Is, g
    <2> QED BY <1>1, <1>3
<1> HIDE DEF g
<1>5. \A d \in DOMAIN errors : g[d] = Chained(g, d)
    BY <1>4
<1> QED
    BY <1>2, <1>5 DEF g

LEMMA ErrorType ==
    ASSUME Trees(errors), NEW e \in 1..Len(errors)
    PROVE  Error!errorType[e] = Typing(Error!errorType, e)
<1> DEFINE Is(f) == f = [d \in DOMAIN errors |-> Typing(f, d)]
           g == Error!errorType
<1>1. g = CHOOSE f : Is(f)
    BY DEF Error!errorType, Typing
<1>2. DOMAIN errors = 1..Len(errors)
    BY ErrorsAre
<1>3. \E f : Is(f)
    BY <1>2, TypeExists
<1>4. Is(g)
    <2> HIDE DEF Is, g
    <2> QED BY <1>1, <1>3
<1> HIDE DEF g
<1>5. \A d \in DOMAIN errors : g[d] = Typing(g, d)
    BY <1>4
<1> QED
    BY <1>2, <1>5 DEF g

LEMMA CutFull ==
    ASSUME NEW E, NEW p \in Seq(E), NEW q \in Seq(E)
    PROVE  Cut(p \o q, Len(p)) = p
<1> DEFINE m == Len(p)
           s == p \o q
<1>1. s \in Seq(E) /\ m \in Nat /\ Len(s) \in Nat /\ Len(s) >= m /\ \A i \in 1..m : s[i] = p[i]
    OBVIOUS
<1> HIDE DEF s
<1>2. /\ Cut(s, m) \in Seq(E) /\ Len(Cut(s, m)) = (IF Len(s) > m THEN m ELSE Len(s))
      /\ \A i \in 1..Len(Cut(s, m)) : Cut(s, m)[i] = s[i]
    BY <1>1, CutIs
<1> DEFINE c == Cut(s, m)
<1> HIDE DEF c
<1>3. c \in Seq(E) /\ Len(c) = m /\ \A i \in 1..m : c[i] = p[i]
    BY <1>1, <1>2 DEF c
<1>4. c = p
    BY <1>3, SeqEqual
<1> QED
    BY <1>4 DEF c, s

\* The names of an error's tree, and of what it wraps.
NamesOf(e) == Named(Error!walkErrors[e])
NamesBelow(e) ==
    LET inner == errors[e].inner
    IN  IF Len(inner) = 0 THEN <<>>
        ELSE IF Len(inner) = 1 THEN NamesOf(inner[1])
        ELSE NamesOf(inner[1]) \o NamesOf(inner[2])

LEMMA NamedIn == ASSUME NEW E, NEW u \in Seq(E) PROVE Named(u) \in Seq(E)
BY PicksIn, FlattenIn DEF Named

LEMMA NamedNone == Named(<<>>) = <<>>
<1>1. Picks(<<>>) = <<>>
    <2>1. <<>> \in Seq({0}) /\ Len(<<>>) = 0
        OBVIOUS
    <2>2. Picks(<<>>) \in Seq(Seq({0})) /\ Len(Picks(<<>>)) = 0
        BY <2>1, PicksIn
    <2> QED BY <2>2
<1> QED
    BY <1>1, FlattenNone DEF Named

\* An error's own name, but for a recorder, and those below it.
LEMMA NamesAre ==
    ASSUME Trees(errors), NEW e \in 1..Len(errors)
    PROVE  /\ NamesOf(e) = (IF Error!Recorder(e) THEN <<>> ELSE <<e>>) \o NamesBelow(e)
           /\ NamesOf(e) \in Seq(1..Len(errors)) /\ NamesBelow(e) \in Seq(1..Len(errors))
<1> DEFINE E == 1..Len(errors)
           inner == errors[e].inner
           w == Error!walkErrors
           rest == IF Len(inner) = 0 THEN <<>>
                   ELSE IF Len(inner) = 1 THEN w[inner[1]] ELSE w[inner[1]] \o w[inner[2]]
<1>1. /\ Len(errors) \in Nat /\ e \in E /\ Len(inner) \in {0, 1, 2}
      /\ \A i \in 1..Len(inner) : inner[i] \in E
    <2>1. /\ Len(errors) \in Nat /\ Len(inner) \in 0..2
          /\ \A i \in 1..Len(inner) : inner[i] \in 1..(e - 1)
        BY ErrorsAre
    <2> HIDE DEF inner
    <2>2. \A d \in 1..(e - 1) : d \in E
        BY <2>1
    <2> HIDE DEF E
    <2> QED BY <2>1, <2>2 DEF E
<1>2. Walks(errors, w) /\ \A d \in E : w[d] \in Seq(E)
    BY WalkErrors, WalkType
<1>3. w[e] = <<e>> \o rest
    BY <1>2, WalkIs
<1> HIDE DEF w, inner, E
<1>4. rest \in Seq(E) /\ Named(rest) = NamesBelow(e)
    <2>1. CASE Len(inner) = 0
        <3>1. NamesBelow(e) = <<>> /\ rest = <<>>
            BY <2>1 DEF NamesBelow, inner
        <3>2. <<>> \in Seq(E)
            OBVIOUS
        <3> HIDE DEF rest
        <3> QED
            BY <3>1, <3>2, NamedNone
    <2>2. CASE Len(inner) = 1
        <3>1. 1 \in 1..Len(inner) /\ Len(inner) # 0
            BY <2>2
        <3>2. NamesBelow(e) = Named(w[inner[1]]) /\ rest = w[inner[1]]
            BY <2>2, <3>1 DEF NamesBelow, inner, NamesOf, w
        <3> QED
            BY <1>1, <1>2, <3>1, <3>2
    <2>3. CASE Len(inner) = 2
        <3>1. 1 \in 1..Len(inner) /\ 2 \in 1..Len(inner) /\ Len(inner) # 0 /\ Len(inner) # 1
            BY <2>3
        <3>2. /\ NamesBelow(e) = Named(w[inner[1]]) \o Named(w[inner[2]])
              /\ rest = w[inner[1]] \o w[inner[2]]
            BY <3>1 DEF NamesBelow, inner, NamesOf, w
        <3>3. w[inner[1]] \in Seq(E) /\ w[inner[2]] \in Seq(E)
            BY <1>1, <1>2, <3>1
        <3> HIDE DEF rest
        <3> QED
            BY <3>2, <3>3, NamedBoth
    <2> QED
        BY <1>1, <2>1, <2>2, <2>3
<1> HIDE DEF rest
<1>5. <<e>> \in Seq(E)
    BY <1>1
<1>6. Named(<<e>> \o rest) = Named(<<e>>) \o Named(rest)
    BY <1>4, <1>5, NamedBoth
<1>7. NamesOf(e) = (IF Error!Recorder(e) THEN <<>> ELSE <<e>>) \o NamesBelow(e)
    BY <1>3, <1>4, <1>6, NamedOne DEF NamesOf, w
<1>8. NamesOf(e) \in Seq(E) /\ NamesBelow(e) \in Seq(E)
    BY <1>1, <1>2, <1>4, NamedIn DEF NamesOf, w
<1> QED
    BY <1>7, <1>8 DEF E

\* A recorder has the names of the error it records a stack in.
LEMMA NamesRecorded ==
    ASSUME Trees(errors), NEW e \in 1..Len(errors), Error!Recorder(e)
    PROVE  /\ errors[e].inner[1] \in 1..(e - 1) /\ errors[e].inner[1] \in 1..Len(errors)
           /\ NamesOf(e) = NamesOf(errors[e].inner[1])
<1> DEFINE d == errors[e].inner[1]
<1>1. Len(errors) \in Nat /\ Len(errors[e].inner) = 1 /\ d \in 1..(e - 1)
    <2>1. Len(errors[e].inner) = 1 /\ 1 \in 1..1
        BY ErrorsAre
    <2> QED
        BY <2>1, ErrorsAre
<1>2. d \in 1..Len(errors)
    <2> HIDE DEF d
    <2> QED BY <1>1
<1>3. NamesOf(e) = <<>> \o NamesBelow(e) /\ NamesOf(d) \in Seq(1..Len(errors))
    BY <1>2, NamesAre
<1>4. NamesBelow(e) = NamesOf(d)
    BY <1>1 DEF NamesBelow
<1> HIDE DEF d
<1>5. <<>> \o NamesOf(d) = NamesOf(d)
    BY <1>3
<1> QED
    BY <1>1, <1>2, <1>3, <1>4, <1>5 DEF d

\* The first of the names is the event's type.
LEMMA NamesFirst ==
    ASSUME Trees(errors)
    PROVE  \A e \in 1..Len(errors) : /\ NamesOf(e) # <<>>
                                     /\ Head(NamesOf(e)) = Error!errorType[e]
<1> DEFINE E == 1..Len(errors)
           Fine(e) == NamesOf(e) # <<>> /\ Head(NamesOf(e)) = Error!errorType[e]
           Bad == {e \in E : ~Fine(e)}
<1>1. ASSUME Bad # {} PROVE FALSE
    <2>1. PICK e \in Bad : \A m \in Bad : e <= m
        <3>1. Bad \subseteq Nat
            BY ErrorsAre
        <3> HIDE DEF Bad
        <3> QED BY <1>1, <3>1, SmallestNumber
    <2>2. e \in E /\ Error!errorType[e] = Typing(Error!errorType, e)
        BY <2>1, ErrorType
    <2>3. CASE Error!Recorder(e)
        <3> DEFINE d == errors[e].inner[1]
        <3>1. d \in 1..(e - 1) /\ d \in E /\ NamesOf(e) = NamesOf(d)
            BY <2>2, <2>3, NamesRecorded
        <3>2. Error!errorType[e] = Error!errorType[d]
            BY <2>2, <2>3 DEF Typing
        <3> HIDE DEF d, Fine
        <3>3. Fine(d)
            <4>1. ~(e <= d)
                BY <2>2, <3>1, ErrorsAre
            <4> QED BY <2>1, <3>1, <4>1
        <3>4. Fine(e)
            BY <3>1, <3>2, <3>3 DEF Fine
        <3> QED
            BY <2>1, <3>4
    <2>4. CASE ~Error!Recorder(e)
        <3>1. NamesOf(e) = <<e>> \o NamesBelow(e) /\ NamesBelow(e) \in Seq(E)
            BY <2>2, <2>4, NamesAre
        <3>2. Error!errorType[e] = e
            BY <2>2, <2>4 DEF Typing
        <3>3. \A q \in Seq(E) : <<e>> \o q # <<>> /\ Head(<<e>> \o q) = e
            <4> HIDE DEF Bad
            <4> QED BY <2>2
        <3> QED
            BY <2>1, <3>1, <3>2, <3>3
    <2> QED
        BY <2>3, <2>4
<1> QED
    BY <1>1

\* A walk below the first level adds the names of the tree to the chain, up to the bound.
Longer(e, chain) == Error!chainFrom[e][1][chain] = Cut(chain \o NamesOf(e), MaxChain)

\* A walk over what an error wraps adds the names below it.
LEMMA ThroughNames ==
    ASSUME Trees(errors), NEW e \in 1..Len(errors),
           \A d \in 1..(e - 1) : \A chain \in Seq(1..Len(errors)) :
               Len(chain) <= MaxChain => Longer(d, chain),
           NEW base \in Seq(1..Len(errors)), Len(base) <= MaxChain
    PROVE  Through(Error!chainFrom, base, errors[e].inner) = Cut(base \o NamesBelow(e), MaxChain)
<1> DEFINE E == 1..Len(errors)
           f == Error!chainFrom
           inner == errors[e].inner
           M == MaxChain
<1>1. /\ Len(errors) \in Nat /\ Len(inner) \in 0..2 /\ DOMAIN inner = 1..Len(inner)
      /\ \A i \in 1..Len(inner) : inner[i] \in 1..(e - 1) /\ inner[i] \in E
    <2>1. /\ Len(errors) \in Nat /\ Len(inner) \in 0..2 /\ DOMAIN inner = 1..Len(inner)
          /\ \A i \in 1..Len(inner) : inner[i] \in 1..(e - 1)
        BY ErrorsAre
    <2> HIDE DEF inner
    <2>2. \A d \in 1..(e - 1) : d \in E
        BY <2>1
    <2> HIDE DEF E
    <2> QED BY <2>1, <2>2
<1>2. Through(f, base, inner) = IF Len(inner) = 0 THEN base
                                ELSE IF Len(inner) = 1 THEN f[inner[1]][1][base]
                                ELSE f[inner[2]][1][f[inner[1]][1][base]]
    <2> HIDE DEF inner, f
    <2> QED BY <1>1, ThroughTwo
<1>3. M \in Nat
    BY MaxChainAssumption
<1>4. \A d \in E : NamesOf(d) \in Seq(E)
    BY NamesAre
<1>5. \A d \in 1..(e - 1) : \A chain \in Seq(E) :
          Len(chain) <= M => f[d][1][chain] = Cut(chain \o NamesOf(d), M)
    BY DEF Longer
<1>6. base \in Seq(E) /\ Len(base) <= M
    OBVIOUS
<1> HIDE DEF f, M, E
<1>7. CASE Len(inner) = 0
    <2>1. NamesBelow(e) = <<>> /\ base \o <<>> = base /\ Through(f, base, inner) = base
        BY <1>2, <1>6, <1>7 DEF NamesBelow
    <2> QED
        BY <1>3, <1>6, <2>1, CutIs DEF M, f
<1>8. CASE Len(inner) = 1
    <2>1. 1 \in 1..Len(inner) /\ Len(inner) # 0
        BY <1>8
    <2>2. NamesBelow(e) = NamesOf(inner[1]) /\ Through(f, base, inner) = f[inner[1]][1][base]
        BY <1>2, <1>8, <2>1 DEF NamesBelow
    <2>3. inner[1] \in 1..(e - 1)
        BY <1>1, <2>1
    <2> HIDE DEF inner
    <2> QED
        BY <1>5, <1>6, <2>2, <2>3 DEF M, f, inner
<1>9. CASE Len(inner) = 2
    <2>1. 1 \in 1..Len(inner) /\ 2 \in 1..Len(inner) /\ Len(inner) # 0 /\ Len(inner) # 1
        BY <1>9
    <2> DEFINE a == inner[1]
               b == inner[2]
               p == NamesOf(a)
               q == NamesOf(b)
               c == f[a][1][base]
    <2>2. NamesBelow(e) = p \o q /\ Through(f, base, inner) = f[b][1][c]
        BY <1>2, <2>1 DEF NamesBelow
    <2>3. a \in 1..(e - 1) /\ a \in E /\ b \in 1..(e - 1) /\ b \in E
        BY <1>1, <2>1
    <2> HIDE DEF a, b, inner
    <2>4. p \in Seq(E) /\ q \in Seq(E)
        BY <1>4, <2>3
    <2>5. c = Cut(base \o p, M)
        BY <1>5, <1>6, <2>3
    <2> HIDE DEF c, p, q
    <2>6. base \o p \in Seq(E)
        BY <1>6, <2>4
    <2>7. c \in Seq(E) /\ Len(c) <= M
        <3> DEFINE s == base \o p
        <3>1. s \in Seq(E)
            BY <2>6
        <3> HIDE DEF s
        <3>2. Cut(s, M) \in Seq(E) /\ Len(Cut(s, M)) = IF Len(s) > M THEN M ELSE Len(s)
            BY <1>3, <3>1, CutIs
        <3>3. Len(s) \in Nat
            BY <3>1
        <3>4. Len(Cut(s, M)) <= M
            BY <1>3, <3>2, <3>3
        <3> QED BY <2>5, <3>2, <3>4 DEF s
    <2>8. f[b][1][c] = Cut(c \o q, M)
        BY <1>5, <2>3, <2>7 DEF q
    <2>9. Cut(c \o q, M) = Cut((base \o p) \o q, M)
        BY <1>3, <2>4, <2>5, <2>6, CutTwice
    <2>10. (base \o p) \o q = base \o (p \o q)
        BY ONLY <1>6, <2>4, ConcatAssociative
    <2> QED
        BY <2>2, <2>8, <2>9, <2>10 DEF M, f, inner
<1> QED
    <2>1. Len(inner) \in {0, 1, 2}
        <3> HIDE DEF inner
        <3> QED BY <1>1
    <2> QED
        BY <2>1, <1>7, <1>8, <1>9 DEF f, M

\* Below the first level a walk adds the names of the whole tree.
LEMMA ChainNames ==
    ASSUME Trees(errors)
    PROVE  \A e \in 1..Len(errors) : \A chain \in Seq(1..Len(errors)) :
               Len(chain) <= MaxChain => Longer(e, chain)
<1> DEFINE E == 1..Len(errors)
           M == MaxChain
           f == Error!chainFrom
           Fine(e) == \A chain \in Seq(E) : Len(chain) <= M => Longer(e, chain)
           Bad == {e \in E : ~Fine(e)}
<1>1. ASSUME Bad # {} PROVE FALSE
    <2>1. PICK e \in Bad : \A m \in Bad : e <= m
        <3>1. Bad \subseteq Nat
            <4> HIDE DEF Fine
            <4> QED BY ErrorsAre
        <3> HIDE DEF Bad
        <3> QED BY <1>1, <3>1, SmallestNumber
    <2>2. /\ e \in E /\ DOMAIN errors = E /\ M \in Nat
          /\ \A d \in 1..(e - 1) : d \in E /\ ~(e <= d)
        <3>1. e \in E
            <4> HIDE DEF Fine
            <4> QED BY <2>1
        <3> HIDE DEF Bad
        <3> QED BY <3>1, ErrorsAre, MaxChainAssumption
    <2>3. \A d \in 1..(e - 1) : Fine(d)
        <3> HIDE DEF Fine, E
        <3> QED BY <2>1, <2>2
    <2>4. PICK chain \in Seq(E) : Len(chain) <= M /\ ~Longer(e, chain)
        <3> HIDE DEF E, M
        <3> QED BY <2>1
    <2> DEFINE n == NamesOf(e)
               r == NamesBelow(e)
    <2>5. n = (IF Error!Recorder(e) THEN <<>> ELSE <<e>>) \o r /\ n \in Seq(E) /\ r \in Seq(E)
        BY <2>2, NamesAre
    <2>6. f[e][1][chain]
             = IF Len(chain) >= M THEN chain
               ELSE IF Error!Recorder(e) THEN f[errors[e].inner[1]][1][chain]
               ELSE Through(f, Append(chain, e), errors[e].inner)
        <3>1. f[e] = Chained(f, e)
            BY <2>2, ChainFrom
        <3> HIDE DEF f, E, M, Bad
        <3>2. Chained(f, e)[1][chain]
                 = IF Len(chain) >= M THEN chain
                   ELSE IF Error!Recorder(e) THEN f[errors[e].inner[1]][1][chain]
                   ELSE Through(f, Append(chain, e), errors[e].inner)
            BY <2>2, <2>4 DEF Chained, M
        <3> QED BY <3>1, <3>2
    <2> HIDE DEF Bad
    <2>7. CASE Len(chain) >= M
        <3>1. Len(chain) = M /\ f[e][1][chain] = chain
            <4> HIDE DEF f
            <4> QED BY <2>2, <2>4, <2>6, <2>7
        <3> HIDE DEF n, E, Fine
        <3>2. Cut(chain \o n, Len(chain)) = chain
            BY <2>4, <2>5, CutFull
        <3> QED
            BY <2>4, <3>1, <3>2 DEF Longer, n
    <2>8. CASE Len(chain) < M /\ Error!Recorder(e)
        <3> DEFINE d == errors[e].inner[1]
        <3>1. d \in 1..(e - 1) /\ n = NamesOf(d)
            BY <2>2, <2>8, NamesRecorded
        <3>2. f[e][1][chain] = f[d][1][chain]
            <4> HIDE DEF f, d
            <4>1. ~(Len(chain) >= M)
                BY <2>2, <2>4, <2>8
            <4> QED BY <2>6, <2>8, <4>1 DEF d
        <3> HIDE DEF d, E
        <3>3. Longer(d, chain)
            BY <2>3, <2>4, <3>1
        <3> QED
            BY <2>4, <3>1, <3>2, <3>3 DEF Longer
    <2>9. CASE Len(chain) < M /\ ~Error!Recorder(e)
        <3> DEFINE base == Append(chain, e)
        <3>1. base \in Seq(E) /\ Len(base) <= M /\ base = chain \o <<e>> /\ <<e>> \in Seq(E)
            <4> HIDE DEF E
            <4> QED BY <2>2, <2>4, <2>9, AppendIsConcat
        <3>2. f[e][1][chain] = Through(f, base, errors[e].inner)
            <4> HIDE DEF f, base
            <4>1. ~(Len(chain) >= M)
                BY <2>2, <2>4, <2>9
            <4> QED BY <2>6, <2>9, <4>1 DEF base
        <3> HIDE DEF base
        <3>3. Through(f, base, errors[e].inner) = Cut(base \o r, M)
            BY <2>2, <2>3, <3>1, ThroughNames
        <3>4. base \o r = chain \o n
            <4>1. n = <<e>> \o r
                BY <2>5, <2>9
            <4> HIDE DEF n, r, E
            <4>2. (chain \o <<e>>) \o r = chain \o (<<e>> \o r)
                BY ONLY <2>4, <2>5, <3>1, ConcatAssociative
            <4> QED BY <3>1, <4>1, <4>2
        <3> QED
            BY <2>4, <3>2, <3>3, <3>4 DEF Longer
    <2>10. Len(chain) >= M \/ Len(chain) < M
        BY <2>2, <2>4
    <2> QED
        BY <2>7, <2>8, <2>9, <2>10
<1> QED
    BY <1>1

\* The chain of an event has the names behind the first.
LEMMA ChainOfNames ==
    ASSUME Trees(errors)
    PROVE  \A e \in 1..Len(errors) : Error!errorChain(e) = Cut(Tail(NamesOf(e)), MaxChain)
<1> DEFINE E == 1..Len(errors)
           M == MaxChain
           f == Error!chainFrom
           Fine(e) == f[e][0][<<>>] = Cut(Tail(NamesOf(e)), M)
           Bad == {e \in E : ~Fine(e)}
<1>1. ASSUME Bad # {} PROVE FALSE
    <2>1. PICK e \in Bad : \A m \in Bad : e <= m
        <3>1. Bad \subseteq Nat
            <4> HIDE DEF Fine
            <4> QED BY ErrorsAre
        <3> HIDE DEF Bad
        <3> QED BY <1>1, <3>1, SmallestNumber
    <2>2. /\ e \in E /\ DOMAIN errors = E /\ M \in Nat
          /\ \A d \in 1..(e - 1) : d \in E /\ ~(e <= d)
        <3>1. e \in E
            <4> HIDE DEF Fine
            <4> QED BY <2>1
        <3> HIDE DEF Bad
        <3> QED BY <3>1, ErrorsAre, MaxChainAssumption
    <2>3. \A d \in 1..(e - 1) : Fine(d)
        <3> HIDE DEF Fine, E
        <3> QED BY <2>1, <2>2
    <2>4. ~Fine(e)
        BY <2>1
    <2> DEFINE n == NamesOf(e)
               r == NamesBelow(e)
    <2>5. n = (IF Error!Recorder(e) THEN <<>> ELSE <<e>>) \o r /\ n \in Seq(E) /\ r \in Seq(E)
        BY <2>2, NamesAre
    <2>6. f[e][0][<<>>]
             = IF 0 >= M THEN <<>>
               ELSE IF Error!Recorder(e) THEN f[errors[e].inner[1]][0][<<>>]
               ELSE Through(f, <<>>, errors[e].inner)
        <3>1. f[e] = Chained(f, e)
            BY <2>2, ChainFrom
        <3> HIDE DEF f, E, M, Bad, Fine
        <3>2. Chained(f, e)[0][<<>>]
                 = IF 0 >= M THEN <<>>
                   ELSE IF Error!Recorder(e) THEN f[errors[e].inner[1]][0][<<>>]
                   ELSE Through(f, <<>>, errors[e].inner)
            <4>1. <<>> \in Seq(E) /\ Len(<<>>) = 0 /\ ~(0 > 0)
                OBVIOUS
            <4> QED BY <2>2, <4>1 DEF Chained, M
        <3> QED BY <3>1, <3>2
    <2> HIDE DEF Bad
    <2>7. CASE M = 0
        <3>1. f[e][0][<<>>] = <<>>
            <4> HIDE DEF f, M
            <4> QED BY <2>6, <2>7
        <3>2. n # <<>>
            BY <2>2, NamesFirst
        <3>3. Tail(n) \in Seq(E)
            <4> HIDE DEF n, E
            <4> QED BY <2>5, <3>2
        <3>4. \A s \in Seq(E) : Cut(s, 0) = <<>>
            <4> HIDE DEF E
            <4> QED BY CutIs
        <3> QED
            BY <2>4, <2>7, <3>1, <3>3, <3>4
    <2>8. CASE M # 0 /\ Error!Recorder(e)
        <3> DEFINE d == errors[e].inner[1]
        <3>1. d \in 1..(e - 1) /\ n = NamesOf(d)
            BY <2>2, <2>8, NamesRecorded
        <3>2. f[e][0][<<>>] = f[d][0][<<>>]
            <4> HIDE DEF f, d, M
            <4>1. ~(0 >= M)
                BY <2>2, <2>8
            <4> QED BY <2>6, <2>8, <4>1 DEF d
        <3> HIDE DEF d, E
        <3>3. Fine(d)
            BY <2>3, <3>1
        <3> QED
            BY <2>4, <3>1, <3>2, <3>3
    <2>9. CASE M # 0 /\ ~Error!Recorder(e)
        <3>1. f[e][0][<<>>] = Through(f, <<>>, errors[e].inner)
            <4> HIDE DEF f, M
            <4>1. ~(0 >= M)
                BY <2>2, <2>9
            <4> QED BY <2>6, <2>9, <4>1
        <3>2. <<>> \in Seq(E) /\ Len(<<>>) <= M
            BY <2>2
        <3>3. Through(f, <<>>, errors[e].inner) = Cut(<<>> \o r, M)
            <4>1. \A d \in 1..(e - 1) : \A chain \in Seq(E) :
                      Len(chain) <= M => Longer(d, chain)
                BY <2>2, ChainNames
            <4> QED BY <2>2, <3>2, <4>1, ThroughNames
        <3>4. <<>> \o r = r /\ Tail(n) = r
            <4>1. n = <<e>> \o r
                BY <2>5, <2>9
            <4> HIDE DEF n, r
            <4>2. <<>> \o r = r /\ Tail(<<e>> \o r) = r
                <5> HIDE DEF E
                <5> QED BY <2>2, <2>5
            <4> QED BY <4>1, <4>2
        <3> QED
            BY <2>4, <3>1, <3>3, <3>4
    <2> QED
        BY <2>7, <2>8, <2>9
<1> QED
    BY <1>1 DEF Error!errorChain

\* Type and chain are the names of the tree, as far as there is room.
LEMMA ReportNames == ErrorInv => ReportNamesEveryError
<1> SUFFICES ASSUME Trees(errors), made \in 0..Len(errors), made # 0
             PROVE  Error!ReportNamesEveryError
    BY DEF ErrorInv, ReportNamesEveryError, Error!ReportNamesEveryError
<1> DEFINE E == 1..Len(errors)
           M == MaxChain
           n == NamesOf(made)
           t == Error!errorType[made]
<1>1. made \in E /\ M \in Nat
    BY ErrorsAre, MaxChainAssumption
<1>2. Error!errorChain(made) = Cut(Tail(n), M)
    BY <1>1, ChainOfNames
<1>3. n # <<>> /\ Head(n) = t /\ n \in Seq(E)
    BY <1>1, NamesFirst, NamesAre
<1> HIDE DEF E, M, t, n
<1>4. Head(n) \in E /\ Tail(n) \in Seq(E) /\ n = <<Head(n)>> \o Tail(n)
    BY <1>3
<1>5. Cut(n, M + 1) = <<t>> \o Cut(Tail(n), M)
    <2> DEFINE q == Tail(n)
    <2>1. t \in E /\ q \in Seq(E) /\ n = <<t>> \o q
        BY <1>3, <1>4
    <2> HIDE DEF q
    <2> QED BY <1>1, <2>1, CutAfter DEF q
<1>6. <<t>> \o Error!errorChain(made) = Cut(n, M + 1)
    BY <1>2, <1>5
<1> QED
    BY <1>6 DEF Error!ReportNamesEveryError, Cut, n, t, M, NamesOf, Named, Picks

-----------------------------------------------------------------------------
(* Errors are made.                                                         *)

\* One more error that wraps earlier ones, two at most.
LEMMA OneMoreError ==
    ASSUME NEW es, Trees(es), NEW kind \in {"new", "wrap", "join", "own", "recorder"},
           NEW inner \in Seq(1..Len(es)), Len(inner) \in 0..2,
           kind = "recorder" => Len(inner) = 1
    PROVE  Trees(Append(es, [kind |-> kind, inner |-> inner]))
<1> DEFINE one == [kind |-> kind, inner |-> inner]
           more == Append(es, one)
<1>1. /\ es \in Seq(ErrorKinds) /\ Len(es) \in Nat /\ DOMAIN es = 1..Len(es)
      /\ \A e \in 1..Len(es) : /\ Len(es[e].inner) \in 0..2
                               /\ \A i \in DOMAIN es[e].inner : es[e].inner[i] \in 1..(e - 1)
                               /\ es[e].kind = "recorder" => Len(es[e].inner) = 1
    BY DEF Trees
<1>2. one \in ErrorKinds
    <2>1. 1..Len(es) \subseteq Nat
        BY <1>1
    <2>2. inner \in Seq(Nat)
        BY <2>1
    <2> QED
        BY <2>2 DEF ErrorKinds
<1>3. one.inner = inner /\ one.kind = kind /\ DOMAIN inner = 1..Len(inner)
      /\ \A i \in DOMAIN inner : inner[i] \in 1..Len(es)
    OBVIOUS
<1> HIDE DEF one
<1>4. /\ more \in Seq(ErrorKinds) /\ Len(more) = Len(es) + 1 /\ DOMAIN more = 1..(Len(es) + 1)
      /\ \A e \in 1..Len(es) : more[e] = es[e]
      /\ more[Len(es) + 1] = one
    BY <1>1, <1>2
<1> HIDE DEF more
<1>5. ASSUME NEW e \in DOMAIN more
      PROVE  /\ Len(more[e].inner) \in 0..2
             /\ \A i \in DOMAIN more[e].inner : more[e].inner[i] \in 1..(e - 1)
             /\ more[e].kind = "recorder" => Len(more[e].inner) = 1
    <2>1. CASE e \in 1..Len(es)
        BY <1>1, <1>4, <2>1
    <2>2. CASE e = Len(es) + 1
        <3>1. more[e].inner = inner /\ more[e].kind = kind /\ e - 1 = Len(es)
            BY <1>1, <1>3, <1>4, <2>2
        <3> QED
            BY <1>3, <3>1
    <2> QED
        BY <1>1, <1>4, <2>1, <2>2
<1> QED
    BY <1>4, <1>5 DEF Trees, more, one

\* Before the first error, and after every step.
LEMMA InitErrors == Init => ErrorInv
BY DEF Init, Error!Init, ErrorInv, Trees

LEMMA StepErrors == ErrorInv /\ [Next]_vars => ErrorInv'
<1> SUFFICES ASSUME ErrorInv, [Next]_vars PROVE ErrorInv'
    OBVIOUS
<1> USE DEF ErrorInv
<1>1. CASE UNCHANGED errorVars
    BY <1>1 DEF errorVars
<1>2. /\ Trees(errors) /\ made \in 0..Len(errors) /\ Len(errors) \in Nat
      /\ DOMAIN errors = 1..Len(errors)
      /\ \A e \in DOMAIN errors : /\ <<e>> \in Seq(1..Len(errors)) /\ Len(<<e>>) \in 0..2
                                  /\ Len(<<e>>) = 1
      /\ \A e, f \in DOMAIN errors : /\ <<e, f>> \in Seq(1..Len(errors))
                                     /\ Len(<<e, f>>) \in 0..2
      /\ <<>> \in Seq(1..Len(errors)) /\ Len(<<>>) \in 0..2
    BY DEF Trees
<1>3. ASSUME NEW kind \in {"new", "wrap", "join", "own", "recorder"},
             NEW inner \in Seq(1..Len(errors)), Len(inner) \in 0..2,
             kind = "recorder" => Len(inner) = 1, Error!Make(kind, inner)
      PROVE  ErrorInv'
    <2>1. /\ errors' = Append(errors, [kind |-> kind, inner |-> inner])
          /\ made' = Len(errors) + 1
        BY <1>3 DEF Error!Make
    <2>2. Trees(Append(errors, [kind |-> kind, inner |-> inner]))
        BY <1>2, <1>3, OneMoreError
    <2>3. Len(errors') = Len(errors) + 1
        BY <1>2, <2>1 DEF Trees
    <2>4. made' \in 0..Len(errors')
        BY <1>2, <2>1, <2>3
    <2> QED
        BY <2>1, <2>2, <2>4
<1>4. CASE Error!New
    BY <1>2, <1>3, <1>4 DEF Error!New
<1>5. CASE Error!Wrap
    BY <1>2, <1>3, <1>5 DEF Error!Wrap
<1>6. CASE Error!Join
    BY <1>2, <1>3, <1>6 DEF Error!Join
<1>7. CASE Error!WithStack
    <2>1. PICK e \in DOMAIN errors : \/ made' = e /\ UNCHANGED errors
                                     \/ Error!Make("recorder", <<e>>)
        BY <1>7 DEF Error!WithStack
    <2>2. CASE made' = e /\ UNCHANGED errors
        BY <1>2, <2>2
    <2>3. CASE Error!Make("recorder", <<e>>)
        BY <1>2, <1>3, <2>3
    <2> QED
        BY <2>1, <2>2, <2>3
<1>8. CASE Error!Errorf
    <2>1. PICK inner \in {<<>>} \cup {<<e>> : e \in DOMAIN errors} :
              errors' = errors \o << [kind |-> IF inner = <<>> THEN "new" ELSE "wrap",
                                      inner |-> inner],
                                     [kind |-> "recorder", inner |-> <<Len(errors) + 1>>] >>
        BY <1>8 DEF Error!Errorf
    <2>2. made' = Len(errors) + 2
        BY <1>8 DEF Error!Errorf
    <2> DEFINE kind == IF inner = <<>> THEN "new" ELSE "wrap"
               one == [kind |-> kind, inner |-> inner]
               two == [kind |-> "recorder", inner |-> <<Len(errors) + 1>>]
               more == Append(errors, one)
    <2>3. inner \in Seq(1..Len(errors)) /\ Len(inner) \in 0..2
          /\ kind \in {"new", "wrap", "join", "own", "recorder"} /\ kind # "recorder"
        BY <1>2
    <2>4. Trees(more)
        <3> HIDE DEF kind
        <3> QED BY <1>2, <2>3, OneMoreError
    <2> HIDE DEF one
    <2>5. more \in Seq(ErrorKinds) /\ Len(more) = Len(errors) + 1
        BY <2>4 DEF Trees, one
    <2> HIDE DEF more
    <2>6. /\ <<Len(errors) + 1>> \in Seq(1..Len(more)) /\ Len(<<Len(errors) + 1>>) = 1
          /\ Len(<<Len(errors) + 1>>) \in 0..2
        BY <1>2, <2>5
    <2>7. Trees(Append(more, two))
        BY <2>4, <2>6, OneMoreError
    <2> HIDE DEF two
    <2>8. errors' = errors \o <<one, two>>
        BY <2>1 DEF one, two
    <2>9. errors' = Append(more, two)
        BY <2>8 DEF more
    <2>10. Len(errors') = Len(errors) + 2
        BY <2>5, <2>9, <1>2
    <2>11. made' \in 0..Len(errors')
        BY <1>2, <2>2, <2>10
    <2> QED
        BY <2>7, <2>9, <2>11
<1> QED
    BY <1>1, <1>4, <1>5, <1>6, <1>7, <1>8 DEF Next, Error!Next, vars

\* The stack of an event is the cause's, however the errors are wrapped and joined.
THEOREM StacksOfTheCause == Spec => []StackOfTheCause
<1>1. Spec => []ErrorInv
    BY InitErrors, StepErrors, PTL DEF Spec
<1> QED
    BY <1>1, StackIsOfTheCause, PTL

\* Type and chain of an event name every error of the tree, none of the recorders, in the
\* order of the walk, up to the bound.
THEOREM ReportsNameAll == Spec => []ReportNamesEveryError
<1>1. Spec => []ErrorInv
    BY InitErrors, StepErrors, PTL DEF Spec
<1> QED
    BY <1>1, ReportNames, PTL
=============================================================================
