SPECIFICATION Spec
CONSTANTS
  Pods = {p1, p2, p3, p4}
  Workers = {w1}
  Artifacts = {a1}
  PodSpecs = {img1}
  Specs <- MCOnDemand
  MaxRetries = 2
  DepthLimit = 16
  EarlyGrants = TRUE
  MaxBatch = 1
  None = None
  Never = Never
INVARIANTS
  NoOrphanVm
