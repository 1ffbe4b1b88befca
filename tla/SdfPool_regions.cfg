SPECIFICATION FairSpec
CONSTANTS
  Threads = {t1, t2}
  NumRegions = 2
  MaxIndex = 4
  ElemsPerSpan = 2
  MaxRegions = 2
  MaxUsed = 9
INVARIANT RegionsExist
