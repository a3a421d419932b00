---------------------------- MODULE MCStreamOwner ----------------------------
(* Streams are interchangeable; the runs with a liveness property use no   *)
(* symmetry.                                                               *)
EXTENDS StreamOwner, TLC

Symmetry == Permutations(Streams)
=============================================================================
