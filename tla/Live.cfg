\* The worker's channel is large enough for everything one pod reports.
SPECIFICATION LiveSpec
CHECK_DEADLOCK FALSE
CONSTANTS
  Parts = {"endpoint", "namespace", "worker", "events"}
  Pods = {p1}
  Workers = {w1, w2}
  Workloads = {wl}
  None = None
  NsPods = {p1, p2, p3, p4}
  NsWorkers = {w1}
  Artifacts = {a1, a2, a3}
  PodSpecs = {img1}
  MaxRetries = 2
  DepthLimit = 16
  MaxBatch = 1
  Never = Never
  Namespaces = {n1}
  BgCapacity = 12
  Telemetry = 1
  MaxSuspends = 1
  MaxCreates = 1
  Traffic = 1
  Sizes = {1, 2}
  MaxOom = 3
INVARIANTS
  NoStrayVm
  StoryIsInOrder
  GuestIsReported
PROPERTIES
  DemandEnds
  CycleEnds
  
