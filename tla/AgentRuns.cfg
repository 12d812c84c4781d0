CONSTANTS
  t1 = t1
  t2 = t2
  f1 = f1
  Tools = {t1, t2}
  Fingerprints = {f1}
  MaxSteps = 3
  PreStage = {t2}
  MaxLost = 1
  StoreMayFail = TRUE
SPECIFICATION FairSpec
INVARIANTS
  TypeOK
  CancelStopsTools
  StatusIsEarned
  RowsShowTheirOwnResult
  AuditIsAligned
PROPERTIES
  EventuallyReturns
CHECK_DEADLOCK FALSE
