---------------------------- MODULE TraceContext -----------------------------
(***************************************************************************)
(* How one trace goes through services: the traceparent header a request   *)
(* arrives with, the transaction that continues it and the decision to     *)
(* record it (src/tracing.go), and the calls on to the next service, with  *)
(* their spans (src/http-breadcrumbs.go).  What is sampled is decided from *)
(* the head of the trace id, a number below Range; a rate of r is r/Range. *)
(***************************************************************************)
EXTENDS Naturals, SequencesExt

CONSTANTS
    IdRange,    \* the trace ids told apart
    Services,   \* [rate, trust, own]: TracesSampleRate, TrustIncomingSampling; and
                \* whether its calls are the SDK's own
    MaxHops,    \* services one request goes through
    MaxCalls    \* how often a service makes the same call

VARIABLES
    wire,       \* the header of the request that is on its way
    hops,       \* the services it reached, with their transactions and calls
    request     \* the traceparent in the application's own copy of its request

vars == <<wire, hops, request>>

Ids == 0..(IdRange - 1)
NoHeader == [ok |-> FALSE, trace |-> 0, parent |-> <<0, 0>>, flag |-> FALSE]

\* parseTraceparent refuses an empty or malformed header; the rest name a trace, a
\* span of the caller, and whether that records it.
Headers == {NoHeader} \cup [ok : {TRUE}, trace : Ids, parent : {<<0, 1>>}, flag : BOOLEAN]

Init == wire \in Headers /\ hops = <<>> /\ request = NoHeader

\* Decided alike by every service of the trace.  A slip first: one id too many.
traceSampled_OneMore(id, rate) == rate >= IdRange \/ (rate > 0 /\ id <= rate)
traceSampled(id, rate) == rate >= IdRange \/ (rate > 0 /\ id < rate)

\* The span ids are fresh: <<n, 0>> is the transaction of the nth hop, <<n, k>> the
\* span of its kth call.
Traceparent(hop, span) ==
    [ok |-> TRUE, trace |-> hop.trace, parent |-> span, flag |-> hop.sampled]

\* A slip: the flag of the header counts for every service.
StartTransaction_Trusts(service) ==
    \E fresh \in Ids :
        LET trace == IF wire.ok THEN wire.trace ELSE fresh
        IN  hops' = Append(hops,
                [service |-> service, traced |-> service.rate > 0, trace |-> trace,
                 parent  |-> wire.parent, calls |-> <<>>,
                 sampled |-> IF wire.ok THEN wire.flag
                             ELSE traceSampled(trace, service.rate)])

StartTransaction(service) ==
    \E fresh \in Ids :
        LET trace == IF wire.ok THEN wire.trace ELSE fresh
        IN  hops' = Append(hops,
                [service |-> service, traced |-> service.rate > 0, trace |-> trace,
                 parent  |-> wire.parent, calls |-> <<>>,
                 sampled |-> IF wire.ok /\ service.trust THEN wire.flag
                             ELSE traceSampled(trace, service.rate)])

\* With tracing off there is no span and no header.
Receive(service) ==
    /\ Len(hops) < MaxHops
    /\ \A i \in DOMAIN hops : hops[i].calls # <<>>
    /\ StartTransaction(service)
    /\ request' = NoHeader
    /\ UNCHANGED wire

\* A slip: the header is set on the caller's request.
RoundTrip_NoClone ==
    /\ hops # <<>> /\ Len(Last(hops).calls) < MaxCalls
    /\ LET hop  == Last(hops)
           span == <<Len(hops), Len(hop.calls) + 1>>
           call == [id |-> span, parent |-> <<Len(hops), 0>>, span |-> hop.traced]
       IN  /\ hops' = [hops EXCEPT ![Len(hops)].calls = Append(@, call)]
           /\ wire' = IF hop.traced THEN Traceparent(hop, span) ELSE request
           /\ request' = wire'

\* However it ends: a request that is sent again, the caller's to keep, gets a span
\* each time.
RoundTrip ==
    /\ hops # <<>> /\ Len(Last(hops).calls) < MaxCalls
    /\ LET hop  == Last(hops)
           span == <<Len(hops), Len(hop.calls) + 1>>
           call == [id |-> span, parent |-> <<Len(hops), 0>>,
                    span |-> hop.traced /\ ~hop.service.own]
       IN  /\ hops' = [hops EXCEPT ![Len(hops)].calls = Append(@, call)]
           /\ wire' = IF call.span THEN Traceparent(hop, span) ELSE request
    /\ UNCHANGED request

Next == \/ \E service \in Services : Receive(service)
        \/ RoundTrip

-----------------------------------------------------------------------------
Traced == {i \in DOMAIN hops : hops[i].traced}

\* What the server keeps of the traces of a service, by the same rule.
Share(rate) == {id \in Ids : id < rate}

\* No caller decides what a service records that does not trust it, and the services
\* that decide for themselves agree: a trace that one of them records, all with the
\* same or a higher rate do (traceSampled, StartTransaction; tracing.go:118, 433).
WholeOrNotAtAll ==
    LET deciding == {i \in Traced : ~hops[i].service.trust}
    IN  /\ \A i \in deciding : hops[i].sampled = (hops[i].trace \in Share(hops[i].service.rate))
        /\ \A i, j \in deciding :
              (/\ hops[i].trace = hops[j].trace
               /\ hops[i].service.rate <= hops[j].service.rate
               /\ hops[i].sampled)
              => hops[j].sampled

\* Services that trust each other and trace are of one mind.
TrustFollows ==
    \A i \in Traced \ {1} : (i - 1) \in Traced /\ hops[i].service.trust
        /\ ~hops[i - 1].service.own => hops[i].sampled = hops[i - 1].sampled

\* Two services in a row that trace are in one trace, the second below the span of
\* the call that reached it and that below the first; and the request the
\* application holds stays as it made it (RoundTrip, http-breadcrumbs.go:37).
Connected ==
    /\ request = NoHeader
    /\ \A i \in Traced \ {1} : (i - 1) \in Traced /\ ~hops[i - 1].service.own =>
          /\ hops[i].trace = hops[i - 1].trace
          /\ \E call \in ToSet(hops[i - 1].calls) :
                /\ call.span /\ call.id = hops[i].parent
                /\ call.parent = <<i - 1, 0>>

TraceHoldsTogether == WholeOrNotAtAll /\ TrustFollows /\ Connected
=============================================================================
