------------------------------ MODULE MCSpans --------------------------------
(* Spans on small instances.                                                *)
EXTENDS Spans, TLC

\* Children are interchangeable, and so are the calls of Finish.
Symmetry == Permutations(Children) \cup Permutations(Calls)
=============================================================================
