SPECIFICATION Spec
CONSTANTS
  Nodes = 2
  Faults = {"latency"}
  Slots = {c1}
  MaxCommands = 4
  MaxAborts = 0
  MaxRestarts = 0
INVARIANT RegionalReapplies
CHECK_DEADLOCK FALSE
