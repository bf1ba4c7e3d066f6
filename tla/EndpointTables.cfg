\* Two services with activation, of which one is removed as the other is added.
SPECIFICATION NSpec
CHECK_DEADLOCK FALSE
CONSTANTS
  Resources = {"a", "b"}
  Explicit = {}
  Subnet = 8
  WgReserve = 2
  MaxPatch = 1
  MaxConnects = 1
  Peers = {"p"}
  Gateways = {"v"}
  Workers = {"v"}
  Activated = {"a", "b"}
  MaxQueue = 3
INVARIANT EndpointTablesAreInSync
