------------------------------ MODULE MCReports ------------------------------
(* Reports on small instances.                                              *)
EXTENDS Reports

Leaf(key, value) == [key |-> key, inner |-> <<>>, value |-> value]
Nest(key, inner) == [key |-> key, inner |-> inner, value |-> "group"]

\* A value and an error under one key, an error under another, a value without a key, a
\* group with a value and an error, one without a name, and one inside another.
Value   == Leaf(<<"a">>, "x")
Other   == Leaf(<<"b">>, "err2")
Keyless == Leaf(<<>>, "y")
Group   == Nest(<<"g">>, <<Value, Other>>)
AttrSet == { Value, Leaf(<<"a">>, "err1"), Other, Keyless, Group,
             Nest(<<>>, <<Value>>), Nest(<<"h">>, <<Group, Keyless>>) }

\* Below, at and between slog's own levels.
LevelSet == {-4, 0, 8}

\* Every rate between off and all, with and without trust, and a service whose calls
\* are the SDK's own.
ServiceSet == [rate : 1..IdRange, trust : BOOLEAN, own : {FALSE}]
                \cup [rate : {0}, trust : {FALSE}, own : {FALSE}]
                \cup [rate : {IdRange}, trust : {FALSE}, own : {TRUE}]
=============================================================================
