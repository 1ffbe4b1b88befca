-------------------------- MODULE MCSdfChangeManager --------------------------
(* An instance of SdfChangeManager for TLC: stage sp is composed of layers *)
(* la and lb, stage sq of lb alone, and one thread edits both.             *)
EXTENDS SdfChangeManager, TLC

CONSTANTS t1, t2, la, lb, lc, sp, sq

OneEditor == la :> t1 @@ lb :> t1 @@ lc :> t2
TwoStages == sp :> {la, lb} @@ sq :> {lb}
=============================================================================
