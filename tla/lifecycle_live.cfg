SPECIFICATION FairSpec
CONSTANTS
  Ident = {i1, i2}
  Handler = {h1}
  w1 = w1
  w2 = w2
  w3 = w3
  Worker = {w1, w2}
  NamedQueue = {"pending:nick"}
  Nick <- MCNick
  AoOnly <- MCAoOnly
  Large <- MCLarge
  Op = {h1}
  PendingLimit = 1
  Faults = {"lost_done"}
  MaxFaults = 1
  MaxRequests = 2
  MaxCommands = 1
  MaxReaps = 0
  None = None
PROPERTY QueuedJobEnds
PROPERTY EndedJobVanishes
CHECK_DEADLOCK FALSE
