------------------------------ MODULE MCCapture ------------------------------
(* Capture on small instances.                                              *)
EXTENDS Capture, TLC

\* Captures differ in what they capture only, and so do signatures.
Symmetry == Permutations(Calls) \cup Permutations(Signatures)

\* A window of two ticks, or none (a configuration holds no negative number).
TwoOrOff == {2, -1}
=============================================================================
