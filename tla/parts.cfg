SPECIFICATION PartsSpec
CONSTANTS
  Url <- MCUrl
  Crawlable = {"a", "b"}
  PrimaryOf <- MCPrimaryOf
  Pattern <- MCPattern
  Valid = {"here", "all"}
  Matching <- MCMatching
  Lists <- MCLists
  MaxUpdates = 3
  None = None
  Client = {"c1", "c2"}
  MaxQueue = 2
  MaxBuffer = 3
  MaxLines = 4
  MaxVisits = 2
  Reader = "reader"
  Nobody = "nobody"
  TweetJob = {"j1", "j2"}
  Tries = 2
  MaxMail = 2
  MaxFaults = 1
  MaxRemovals = 1
  Nothing = "nothing"
  Ident = {"j1", "j2"}
  Threshold = 2
  MaxBeats = 3
  MaxTimer = 3
  MaxLives = 2
  MaxCrashes = 1
  PendingJob = {"j1", "j2", "j3"}
  Tool = {"t1", "t2"}
  MaxRuns = 2
 
INVARIANT DelayIsWhole
INVARIANT StreamsKept
INVARIANT TweetedOnce
 
INVARIANT EachOnce
