CONSTANTS
  t1 = t1
  t2 = t2
  t3 = t3
  u1 = u1
  u2 = u2
  n1 = n1
  n2 = n2
  n3 = n3
  x = x
  y = y
  z = z
  la = la
  lb = lb
  lc = lc
  sp = sp
  sq = sq
  main = main
  helper = helper
  None = None
  Root = Root
  Threads = {t1, t2, t3}
  Stacks = {n1, n2, n3}
  Ids = {x}
  Layers = {la}
  Strings = {u1, u2}
  Tokens = {t1, t2, t3}
  Reps = {n1, n2}
  Handles = {u1, u2}
  Names = {x, y}
  Nodes = {n1, n2, n3}
  MaxDepth = 2
  Callers = {u1, u2}
  Deliverers = {x, y}
  NumLists = 1
  MaxCalls = 2
  NamedLayers = {la, lb}
  Identifiers = {x, y, z}
  RealPath <- OwnPaths
  Original <- Opened
  Caches = {la, lb}
  Requests = {x, y}
  Satisfies <- WiderRequest
  Racing = {"erase"}
  Workers = {main, helper}
  Main = main
  EditedLayers = {la, lb, lc}
  Stages = {sp, sq}
  Editor <- TwoEditors
  Uses <- TwoStages
  EditPhases = {"layer"}
  MaxChanges = 3
  Buffers = {u1, u2}
  Objects = {x}
  NumBits = 2
  MaxHolds = 1
  MaxPyRefs = 1
SPECIFICATION SharedSpec
CHECK_DEADLOCK FALSE
SYMMETRY Symmetry
INVARIANTS TablesAreExact NothingFreedInUse DeliveredOnce StagesKeepUp KeptWhileShared NotDeletedInUse LayersStayRegistered CreatedOnce WaitersAreServed
PROPERTIES ImplementsSharing ObjectsAreShared
