SPECIFICATION Spec
CONSTANTS
  Ident = {i1}
  Handler = {h1, h2}
  w1 = w1
  w2 = w2
  w3 = w3
  Worker = {w1}
  NamedQueue = {}
  Nick <- MCNick
  AoOnly <- MCAoOnly
  Large <- MCLarge
  Op = {h1}
  PendingLimit = 1
  Faults = {"overlap"}
  MaxFaults = 0
  MaxRequests = 2
  MaxCommands = 1
  MaxReaps = 0
  None = None
PROPERTY OnlyEndedRecordsVanish
CHECK_DEADLOCK FALSE
