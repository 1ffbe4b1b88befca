CONSTANTS
  t1 = t1
  t2 = t2
  t3 = t3
  l1 = l1
  l2 = l2
  l3 = l3
  a = a
  b = b
  c = c
  p = p
  q = q
  None = None
  Threads = {t1, t2}
  Layers = {l1, l2}
  Idents = {a, b}
  Paths = {p, q}
  RealPath <- OneAsset
  SaveCanFail = TRUE
SPECIFICATION FairSpec
CHECK_DEADLOCK FALSE
PROPERTIES CallsReturn
