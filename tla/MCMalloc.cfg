CONSTANTS
  MaxGroup = 2
  MaxIncr = 6
  Page = 8
  MaxPages = 2
  Sizes = {0, 1}
  NewSizes = {0, 2}
SPECIFICATION Spec
INVARIANTS HeapTiled ListsSound
PROPERTY IsArena
CHECK_DEADLOCK FALSE
