--------------------------- MODULE MCStageContents ---------------------------
(* Instances of StageContents for TLC.                                     *)
EXTENDS StageContents

CONSTANTS
  t1, t2, t3,       \* threads of the pool
  ra, rb, rc, ka,   \* root prims and the key of those that are instances
  x, y, z,          \* items of lists
  top, lib, sub     \* layer stacks: the stage's and those it refers to

SomeRulePaths == {<<>>, <<1>>, <<1, 1>>, <<1, 1, 1>>, <<2>>}
SomeBatches   == {{}, {<<1>>}, {<<1>>, <<1, 1, 1>>}, {<<1, 1>>, <<2>>}}
SomeMaskPaths == {<<>>, <<1>>, <<1, 1>>, <<1, 2>>, <<1, 2, 1>>, <<2>>, <<2, 1>>}

(* References to a root prim, to one below it, and from where the latter   *)
(* finds ancestral opinions.                                               *)
SomePrimPaths == [s \in LayerStacks |-> {<<>>, <<1>>, <<1, 1>>}]
SomeArcs ==
  {<<<<top, <<1>>>>, <<lib, <<1>>>>>>, <<<<top, <<1>>>>, <<lib, <<1, 1>>>>>>,
   <<<<lib, <<1>>>>, <<sub, <<1>>>>>>}
=============================================================================
