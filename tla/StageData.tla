------------------------------ MODULE StageData ------------------------------
(***************************************************************************)
(* What a stage's contents are given in: the pool that path nodes come     *)
(* from, the list ops of opinions, and the mask of paths, side by side.    *)
(***************************************************************************)
EXTENDS SdfPool

CONSTANTS
  Items, MaxItems,   \* of SdfListOp
  MaskPaths          \* of UsdStagePopulationMask

VARIABLES op, effect, mask, wanted

listVars == <<op, effect>>
maskVars == <<mask, wanted>>

LO == INSTANCE SdfListOp

PM == INSTANCE UsdStagePopulationMask WITH Paths <- MaskPaths

ASSUME DataAssumptions == LO!ListOpAssumption /\ PM!MaskAssumption
=============================================================================
