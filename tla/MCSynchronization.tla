-------------------------- MODULE MCSynchronization --------------------------
(* Instances of Synchronization for TLC.                                   *)
EXTENDS Synchronization, TLC

CONSTANTS
  t1, t2, t3,             \* threads of the lock and of the registry
  main, h1, h2, h3,       \* threads of the renderer
  l1, l2, la, lb, lc, sp, sq   \* layers, their identifiers and real paths

(* Two identifiers of one asset and an identifier of another.              *)
TwoAssets == la :> sp @@ lb :> sp @@ lc :> sq
=============================================================================
