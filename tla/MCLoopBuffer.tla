---------------------------- MODULE MCLoopBuffer ----------------------------
(***************************************************************************)
(* Instances of LoopBuffer for TLC.  Word is twice the size, so that the   *)
(* counters wrap again and again.                                          *)
(***************************************************************************)
EXTENDS LoopBuffer, TLC

CONSTANTS p1, p2

TwoProducers == {p1, p2}

Symmetry == Permutations(TwoProducers)
=============================================================================
