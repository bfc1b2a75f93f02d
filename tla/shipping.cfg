SPECIFICATION FairSpec
CONSTANTS
  QueueSize = 2
  Batch = 2
  MaxEntries = 3
  MaxCounted = 1
  MaxFaults = 2
  None = None
INVARIANT CountsKept
INVARIANT LogKept
PROPERTY EntriesShip
CHECK_DEADLOCK FALSE
