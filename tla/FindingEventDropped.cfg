CONSTANTS
  t1 = t1
  t2 = t2
  f1 = f1
  Tools = {t1, t2}
  Fingerprints = {f1}
  MaxSteps = 2
  PreStage = {}
  MaxLost = 0
  StoreMayFail = FALSE
SPECIFICATION Spec
INVARIANTS
  EveryFindingEventStored
CHECK_DEADLOCK FALSE
