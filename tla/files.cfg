SPECIFICATION FairSpec
CONSTANTS
  u1 = u1
  u2 = u2
  Job = {1}
  UrlJob = {1}
  Uploader = {u1, u2}
  Environments <- MCEnvironments
  MaxRuns = 1
  MaxFaults = 1
  None = None
INVARIANT OneSender
INVARIANT OutputsKept
INVARIANT InfoMatchesLabel
PROPERTY FilesGetStored
CHECK_DEADLOCK FALSE
