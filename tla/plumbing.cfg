SPECIFICATION Spec
CONSTANTS
  Threshold = 1
  MaxEntries = 2
  MaxRestarts = 1
  Running = {"firehose", "analyzer", "trimmer"}
  Restarting = {"firehose", "trimmer"}
  Inf = Inf
  None = None
INVARIANT TrimmedWasSeen
INVARIANT NothingUnprinted
INVARIANT SeenOnce
INVARIANT NoMissedEntry
CHECK_DEADLOCK FALSE
