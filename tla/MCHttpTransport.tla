--------------------------- MODULE MCHttpTransport ---------------------------
(* HttpTransport on small instances.                                        *)
EXTENDS HttpTransport, TLC

\* Events are interchangeable, and so are closers: symmetry for the safety runs.
Symmetry == Permutations(Events) \cup Permutations(Closers)
=============================================================================
