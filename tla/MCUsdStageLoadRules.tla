------------------------- MODULE MCUsdStageLoadRules -------------------------
(* Instances of UsdStageLoadRules for TLC.                                 *)
EXTENDS UsdStageLoadRules

RulePaths   == {<<>>, <<1>>, <<1, 1>>, <<1, 1, 1>>, <<2>>}
RuleBatches == {{}}
=============================================================================
