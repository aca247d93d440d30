SPECIFICATION Spec
CONSTANTS
  MaxNodes = 3
  Sizes = {2}
  MaxCommands = 2
  MaxFaults = 0
INVARIANT ScaleRegistersProxy
CHECK_DEADLOCK FALSE
