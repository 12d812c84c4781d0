CONSTANTS
  o1 = o1  o2 = o2  p1 = p1  p2 = p2
  a1 = a1  a2 = a2  c1 = c1  c2 = c2
  v1 = v1  v2 = v2

  Auths = {a1, a2}
  Scans = {c1, c2}
  Projects = {p1, p2}
  Origins = {o1, o2}
  Applications <- MCApplications
  Requests = {r1}
  Versions = {v1, v2}
  MaxLifetime = 2
  MaxTime = 2
  MaxDeploys = 1
  MaxEdits = 2
  None = None
SYMMETRY AuthSymmetry
SPECIFICATION Spec
INVARIANTS
  TypeOK
  VerifiedAsIssued
PROPERTIES
  WithdrawnNeverVerified
  UntouchedIsVerified
CHECK_DEADLOCK FALSE
