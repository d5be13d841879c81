\* The last shell may exit: nothing starts another one.
CONSTANTS
  MaxProgram = 5
  MaxJobs = 2
  MaxJid = 3
SPECIFICATION Spec
INVARIANTS
  JobsAreChildren
PROPERTY
  PromptReturns
CHECK_DEADLOCK FALSE
