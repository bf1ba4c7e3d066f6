\* Every part at the size at which its known failures can happen; the parts
\* stop at their bounds.
SPECIFICATION ControlSpec
CHECK_DEADLOCK FALSE
CONSTANTS
  Parts = {"workload", "orchestrator", "addresses", "announce", "logs", "watch",
           "link"}
  Pods = {p1, p2}
  Workers = {w1}
  Artifacts = {a1}
  Endpoints = {e1}
  PodSpecs = {img1, img2}
  Specs <- AllSpecs
  MaxRetries = 2
  None = None
  MaxWorkers = 2
  Tunnelled = {1}
  Names = {"a", "b"}
  MaxNs = 3
  Segments = 3
  UnitPods = {1}
  MaxArtifacts = 1
  Pressured = {1}
  Drainable = {2}
  Failing = {2}
  Addressed = {"a", "b", "c"}
  Written = {2, 4}
  Resources = {"a", "b"}
  Subnet = 8
  WgReserve = 2
  MaxPatch = 1
  MaxConnects = 1
  Peers = {"p"}
  Connections = {"v"}
  Activated = {"a"}
  MaxQueue = 3
  Topics = {"t", "u"}
  Subs = {"x"}
  LogRing = 1
  LogChannel = 2
  SweepThreshold = 1
  MaxSeq = 2
  MaxStreams = 2
  Statuses = {1, 2, 3}
  Watched = {"p"}
  RingSize = 2
  ChannelSize = 2
  MaxEvents = 5
  Links = {"v", "w"}
  Chan = 1
  Wire = 1
  MaxClients = 1
  MaxCommands = 2
INVARIANTS
  WorkloadIsReconciled
  SchedulerIsSettled
  LayersAgree
  
  WorkersAreCurrent
  ChunksComeOnceInOrder
  ReadUpMeansAgreed
  CommandsComeInOrder
