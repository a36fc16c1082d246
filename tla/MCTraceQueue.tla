---------------------------- MODULE MCTraceQueue -----------------------------
(* TraceQueue on small instances.                                           *)
EXTENDS TraceQueue, TLC

\* Transactions are interchangeable, and so are closers.
Symmetry == Permutations(Transactions) \cup Permutations(Closers)
=============================================================================
