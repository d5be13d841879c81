CONSTANTS
  MaxProgram = 4
  IdleTicks = 2
  SType = "RR"
  Failures = {}
SPECIFICATION Spec
INVARIANT OrphansReaped
CHECK_DEADLOCK FALSE
