\* Two namespaces on one worker, with the default subnet.
SPECIFICATION GSpec
CHECK_DEADLOCK FALSE
CONSTANTS
  Namespaces = {"m", "n"}
  Names = {"db"}
  Buffer = 1
  MaxLookups = 1
  MaxChanges = 3
INVARIANT NatWhileRunning
