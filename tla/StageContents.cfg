CONSTANTS
  t1 = t1
  t2 = t2
  t3 = t3
  Threads = {t1, t2, t3}
  NumRegions = 4
  MaxIndex = 4
  ElemsPerSpan = 2
  MaxRegions = 3
  MaxUsed = 2
  ra = ra
  rb = rb
  rc = rc
  ka = ka
  Plain = Plain
  Absent = Absent
  None = None
  \* Three instances, of which two change together, without children.
  Roots = {ra, rb, rc}
  Names = {}
  OuterKeys = {ka}
  InnerKeys = {}
  ChildStatuses = {Absent}
  MaxPrototypes = 3
  MaxBatch = 2
  RulePaths <- SomeRulePaths
  RuleBatches <- SomeBatches
  MaskPaths <- SomeMaskPaths
  x = x
  y = y
  z = z
  Items = {x, y, z}
  MaxItems = 2
  top = top
  lib = lib
  sub = sub
  LayerStacks = {top, lib, sub}
  Top = top
  PrimPaths <- SomePrimPaths
  Arcs <- SomeArcs
SPECIFICATION ContentsSpec
INVARIANTS OneOwner NothingLost HaveStorage GrowthBounded LoadedAsAsked MaskIsExact ComposedInTurn IndexesAreCurrent
PROPERTIES AllocationEnds RecomposesFully
