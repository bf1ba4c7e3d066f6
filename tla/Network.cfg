\* Every part at the size at which its known failures can happen; the parts
\* stop at their bounds.
SPECIFICATION Spec
CHECK_DEADLOCK FALSE
CONSTANTS
  Parts = {"fabric", "proxy", "wireguard", "tunnel", "stream", "network"}
  BufferFrames = 1
  MaxPorts = 2
  Policies = {1}
  Flags = {"syn", "synack", "fin"}
  MaxStreams = 4
  H2Ids = {1}
  PeerKeys = {"k", "l"}
  Sources = {"x", "y"}
  MaxPeerStates = 2
  MaxIncarnations = 2
  CleanupBuffer = 2
  PortFrames = 1
  Workers = {1, 2}
  Segments = {1}
  MaxChanges = 3
  BufLimit = 2
  SockLimit = 2
  MaxIn = 3
  MaxOut = 3
  Callers = {"a", "b"}
  Ports = {1, 2}
  QueueLimit = 1
  MaxSockets = 2
INVARIANTS
  NothingWaitsAtAnOpenPort
  
  PeersAreIndexed
  
  
  CallersAreAnswered
