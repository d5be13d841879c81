SPECIFICATION FairSpec
CONSTANTS
  BufferSize = 3
  Readers = {r1, r2}
  Sizes = {1, 3}
  MaxPresses = 6
INVARIANTS TypeOK LineEdited
PROPERTIES ImplementsQueue ReadersServed
CHECK_DEADLOCK FALSE
