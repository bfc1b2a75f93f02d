SPECIFICATION Spec
CONSTANTS
  Item = {1, 2}
  Day <- MCDay
  File <- MCFile
  MaxFaults = 1
  None = None
INVARIANT NothingPending
INVARIANT PagesAgree
