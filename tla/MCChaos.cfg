SPECIFICATION Spec
CONSTANTS
  Nodes = 2
  Faults = {"latency"}
  Slots = {c1, c2}
  MaxCommands = 4
  MaxAborts = 1
  MaxRestarts = 1
SYMMETRY SlotSymmetry
INVARIANTS TypeOK ClearLeavesOnlyNewer RegionalIsComplete SetupRepairs
CHECK_DEADLOCK FALSE
