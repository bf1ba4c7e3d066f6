CONSTANTS
  Containers = {"a", "b"}
  Captured = {"a"}
  Capacity = 1
  MaxChunks = 1
  MaxConnections = 2
INIT Init
NEXT Next
INVARIANT ThreadNeverWaitsForItself
