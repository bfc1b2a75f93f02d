SPECIFICATION Spec
CONSTANTS
  Ident = {i1, i2}
  Handler = {h1, h2}
  w1 = w1
  w2 = w2
  w3 = w3
  Worker = {w1, w2}
  NamedQueue = {"pending:nick"}
  Nick <- MCNick
  AoOnly <- MCAoOnly
  Large <- MCLarge
  Op = {h1}
  PendingLimit = 1
  Faults = {"handler_fail", "lost_take", "task_fail", "crash"}
  MaxFaults = 1
  MaxRequests = 2
  MaxCommands = 1
  MaxReaps = 1
  None = None
INVARIANT CarefulInv
INVARIANT MutualExclusion
INVARIANT CrawlIsCurrent
INVARIANT LabelsMatchCounters
 
PROPERTY OnlyEndedRecordsVanish
 
SYMMETRY MCSymmetry
CHECK_DEADLOCK FALSE
