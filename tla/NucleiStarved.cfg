CONSTANTS
  h1 = h1
  h2 = h2
  h3 = h3
  a1 = a1
  a2 = a2
  p1 = p1
  HostLists <- MCHostLists
  Names = {h1, h2, h3}
  Addresses = {a1, a2}
  Promotable = {p1, h1}
  Foreign = Foreign
  NoUrl = NoUrl
  MaxTargets = 2
  StepLimits = {1, 3, 4, 5, 6}
SPECIFICATION Spec
INVARIANTS
  PromotionSparesNuclei
CHECK_DEADLOCK FALSE
