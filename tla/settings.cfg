SPECIFICATION Spec
CONSTANTS
  h1 = h1
  h2 = h2
  Handler = {h1, h2}
  Command <- MCCommand
  MaxCommands = 2
  MaxFaults = 1
INVARIANT AgeCoversChanges
INVARIANT LoopIsCurrent
PROPERTY NeverGoesBack
CHECK_DEADLOCK FALSE
