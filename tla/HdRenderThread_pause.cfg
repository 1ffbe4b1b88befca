CONSTANTS
  main = main
  h1 = h1
  h2 = h2
  h3 = h3
  Main = main
  HydraThreads = {main}
  Render = Render
  None = None
SPECIFICATION Spec
INVARIANTS PauseChangesAreDirty
