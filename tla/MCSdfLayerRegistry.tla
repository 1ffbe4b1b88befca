------------------------- MODULE MCSdfLayerRegistry -------------------------
(* Instances of SdfLayerRegistry for TLC.                                  *)
EXTENDS SdfLayerRegistry, TLC

CONSTANTS t1, t2, t3, l1, l2, l3, a, b, c, p, q

(* Two identifiers of one asset, say a search path and an absolute path.   *)
OneAsset == a :> p @@ b :> p

(* The same, and an identifier of another asset.                           *)
TwoAssets == a :> p @@ b :> p @@ c :> q

Symmetry == Permutations(Threads) \cup Permutations(Layers)
=============================================================================
