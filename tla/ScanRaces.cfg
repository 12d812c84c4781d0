CONSTANTS
  s1 = s1  s2 = s2  s3 = s3
  p1 = p1  p2 = p2
  Scans = {s1, s2, s3}
  ProjectOf <- MCProjectOf
  LiveScans = {s3}
  Requests = {r1, r2}
  NoScan = NoScan
  MaxWorkers = 2
  RowLocked = FALSE
  MaxRestarts = 1
  MaxErrors = 1
  MaxDbFaults = 1
SPECIFICATION Spec
SYMMETRY ScanSymmetry
INVARIANTS
  TypeOK
  OneActivePerProject
  ExecutedAtMostOnce
  CompletedOnlyIfFinished
  CancelledOnlyIfAsked
  OneTerminalEvent
  TerminalMappingIsValid
CHECK_DEADLOCK FALSE
