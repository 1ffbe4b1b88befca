CONSTANTS
  t1 = t1
  t2 = t2
  t3 = t3
  l1 = l1
  l2 = l2
  l3 = l3
  a = a
  b = b
  c = c
  p = p
  q = q
  None = None
  Threads = {t1, t2, t3}
  Layers = {l1, l2, l3}
  Idents = {a, b, c}
  Paths = {p, q}
  RealPath <- TwoAssets
  SaveCanFail = TRUE
SPECIFICATION Spec
CHECK_DEADLOCK FALSE
SYMMETRY Symmetry
INVARIANTS UniqueLayer OnlyReadLayersReturned RegistryTracksLayers
PROPERTIES ImplementsSharing
