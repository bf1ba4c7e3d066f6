CONSTANTS
  Workloads = {wl}
  Workers = {w1, w2}
  Artifacts = {a1}
  Specs = {s1, s2}
  None = None
SPECIFICATION FairSpec
INVARIANTS
  ReapedExactlyWhenDone
  EveryWaitHasItsTimeout
  PlacementFollowsLease
PROPERTIES
  AbandonedPodDies
  LinearLifecycle
  WaitsAreBounded
CHECK_DEADLOCK FALSE
