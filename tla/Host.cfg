\* Every part at the size at which its known failures can happen; the parts
\* stop at their bounds.
SPECIFICATION Spec
CHECK_DEADLOCK FALSE
CONSTANTS
  Parts = {"init", "memory", "boot", "vm", "images", "transfer", "capacity"}
  Containers = {"a", "b"}
  Captured = {"a"}
  Capacity = 1
  MaxChunks = 2
  MaxConnections = 2
  VmMem = 14
  Balloon = 6
  Kernel = 2
  Gap = 1
  InitialStep = 4
  MaxStep = 8
  InflationStep = 2
  Headroom = 1
  StreakRequired = 2
  Chunk = 2
  MaxAsked = 4
  MaxChanges = 2
  Booted = {"a"}
  MaxCount = 1
  MaxClock = 2
  Jobs = {"s", "t"}
  Layers = 2
  MaxRuns = 3
  NearPools = {"x", "y"}
  FarPools = {"z"}
  Files = {1, 2}
  MaxTransfers = 2
  Size = 100
  Free = {3, 4, 5, 6, 14, 15, 16, 17}
  Loads = {0, 1, 2}
  Soft = 85
  Hard = 95
INVARIANTS
  StartedAreAccountedFor
  PendingCoversReleases
  FilesOutliveTheVm
  

  
  
  
