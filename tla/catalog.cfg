SPECIFICATION FairSpec
CONSTANTS
  Item <- MCItem
  File <- MCFile
  Job <- MCJob
  ItemOf <- MCItemOf
  JobOf <- MCJobOf
  KindOf <- MCKindOf
  Json <- MCJson
  BatchSize = 2
  Quota = 1
  LookBack = 1
  RefreshWindow = 1
  MaxTime = 2
  MaxFaults = 1
  None = None
INVARIANT CountsMatchFiles
INVARIANT IndexMatchesJobs
INVARIANT SumsAreNumbers
INVARIANT NoItemSkipped
PROPERTY UrlsArrive
