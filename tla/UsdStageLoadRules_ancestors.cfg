CONSTANTS
  Paths <- RulePaths
  Batches <- RuleBatches
SPECIFICATION StageSpec
CHECK_DEADLOCK FALSE
PROPERTIES LoadsAncestors
