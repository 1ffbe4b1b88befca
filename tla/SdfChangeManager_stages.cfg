CONSTANTS
  t1 = t1
  t2 = t2
  la = la
  lb = lb
  lc = lc
  sp = sp
  sq = sq
  Threads = {t1, t2}
  Layers = {la, lb, lc}
  Stages = {sp, sq}
  Editor <- OneEditor
  Uses <- TwoStages
  EditPhases = {"layer", "stages"}
  MaxChanges = 3
SPECIFICATION Spec
CHECK_DEADLOCK FALSE
INVARIANTS NoFalseAlarm
