------------------------ MODULE MCUsdStageRecompose ------------------------
(* Instances of UsdStageRecompose for TLC.                                 *)
EXTENDS UsdStageRecompose, TLC

RootSymmetry == Permutations(Roots)

(* Two of three root prims change, or are said to, at once only when the   *)
(* third is absent: a bound.                                               *)
IsSmall(s, touched) ==
  LET changed == {r \in Roots : Edited(s, r) \/ \E p \in touched : IsPrefix(<<r>>, p)}
  IN  Cardinality(changed) > 1 => \E r \in Roots \ changed : scene.root[r] = Absent

SmallEdit ==
  /\ phase = "idle"
  /\ \/ \E s \in Batches, touched \in {{}} \cup {{p} : p \in Prims} :
          IsSmall(s, touched) /\ ChangeSignificantly(s, touched)
     \/ \E p \in Prims \ {<<>>} : ChangePrim(p)

BoundedSpec == Init /\ [][SmallEdit \/ Compose]_vars
=============================================================================
