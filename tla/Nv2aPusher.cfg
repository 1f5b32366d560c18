SPECIFICATION Spec
CONSTANTS
  Ring = 11
  Commands = {"matrix", "call", "begin", "end", "draws"}
  MaxCommands = 5
INVARIANTS  NeverAhead IdleIsDone
PROPERTIES IsChannel Drains
CHECK_DEADLOCK FALSE
