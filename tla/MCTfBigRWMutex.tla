--------------------------- MODULE MCTfBigRWMutex ---------------------------
(* Instances of TfBigRWMutex for TLC.                                      *)
EXTENDS TfBigRWMutex, TLC

CONSTANTS t1, t2, t3

Symmetry == Permutations(Threads)
=============================================================================
