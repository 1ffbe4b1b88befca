CONSTANTS
  t1 = t1
  t2 = t2
  t3 = t3
  main = main
  h1 = h1
  h2 = h2
  h3 = h3
  Render = Render
  l1 = l1
  l2 = l2
  la = la
  lb = lb
  lc = lc
  sp = sp
  sq = sq
  None = None
  Threads = {t1, t2, t3}
  Operations <- AllOperations
  HydraThreads = {main, h1, h2, h3}
  Main = main
  Openers = {t1, t2}
  Layers = {l1, l2}
  Idents = {la, lb, lc}
  Paths = {sp, sq}
  RealPath <- TwoAssets
  SaveCanFail = FALSE
SPECIFICATION SyncSpec
CHECK_DEADLOCK FALSE
INVARIANTS StateIsExact EditsExcludeRendering StopsAreRequested
PROPERTIES ImplementsRWLock WriterNotStarved StopsReturn StartedRenderRuns LayerCallsReturn
