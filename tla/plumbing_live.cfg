SPECIFICATION FairSpec
CONSTANTS
  Threshold = 2
  MaxEntries = 2
  MaxRestarts = 0
  Running = {"firehose", "recorder"}
  Restarting = {}
  Inf = Inf
  None = None
INVARIANT RecordedHasDocument
PROPERTY EntriesReachReaders
CHECK_DEADLOCK FALSE
