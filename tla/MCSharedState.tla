----------------------------- MODULE MCSharedState -----------------------------
(* Instances of SharedState for TLC.                                       *)
EXTENDS SharedState, TLC

CONSTANTS
  t1, t2, t3,          \* threads or tokens
  u1, u2,              \* interchangeable threads, handles, strings, buffers
  n1, n2, n3,          \* memory: layer stacks, nodes or representations
  x, y, z,             \* names, deliverers, requests or identifiers
  la, lb, lc, sp, sq,  \* layers, stages and caches
  main, helper

(* One thread edits the layers of both stages, another a layer of none.    *)
TwoEditors == la :> main @@ lb :> main @@ lc :> helper
TwoStages  == sp :> {la, lb} @@ sq :> {lb}

(* No two identifiers resolve to one path.                                 *)
OwnPaths == x :> 1 @@ y :> 2 @@ z :> 3
Opened   == la :> x @@ lb :> y

(* A request for x is satisfied by a stage that was made for y.            *)
WiderRequest == {<<x, x>>, <<y, y>>, <<x, y>>}

Symmetry == Permutations({u1, u2})
=============================================================================
