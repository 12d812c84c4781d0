CONSTANTS
  Parents = 2
  Hosts = {1, 2, 3}
  Under <- MCUnder
  BatchSize = 2
SPECIFICATION Spec
INVARIANTS
  TypeOK
  PromotedIsCommitted
  FailedParentsAreSkipped
  CancelStopsDiscovery
CHECK_DEADLOCK FALSE
