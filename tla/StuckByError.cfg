CONSTANTS
  s1 = s1  s2 = s2  s3 = s3
  p1 = p1  p2 = p2
  Scans = {s1}
  ProjectOf <- MCProjectOf
  LiveScans = {}
  Requests = {r1}
  NoScan = NoScan
  MaxWorkers = 1
  RowLocked = TRUE
  MaxRestarts = 0
  MaxErrors = 1
  MaxDbFaults = 0
SPECIFICATION FairSpec
PROPERTIES
  CancellingEventuallyCancelled
CHECK_DEADLOCK FALSE
