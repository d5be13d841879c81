CONSTANTS
  MaxProgram = 4
  IdleTicks = 2
  SType = "RR"
  Failures = {"argv", "initSpace", "execDir", "execPool"}
SPECIFICATION Spec
INVARIANTS TypeOK ReadyQueueExact OneRunning AllListed
PROPERTY NoResurrection
CHECK_DEADLOCK FALSE
