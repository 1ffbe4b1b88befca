--------------------------- MODULE MCTfSpinRWMutex ---------------------------
(* Instances of TfSpinRWMutex for TLC.                                     *)
EXTENDS TfSpinRWMutex

CONSTANTS t1, t2, t3
=============================================================================
