CONSTANTS
  MaxProgram = 4
  IdleTicks = 2
  SType = "RR"
  Failures = {"argv", "initSpace"}
SPECIFICATION FairSpec
INVARIANTS ParentAlive NeverPanics
PROPERTIES ReadyRuns WaitReturns InitReaps
CHECK_DEADLOCK FALSE
