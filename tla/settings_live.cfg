SPECIFICATION FairSpec
CONSTANTS
  h1 = h1
  h2 = h2
  Handler = {h1}
  Command <- MCCommand
  MaxCommands = 2
  MaxFaults = 1
PROPERTY ChangesArrive
PROPERTY AbortEndsCrawl
CHECK_DEADLOCK FALSE
