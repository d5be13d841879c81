SPECIFICATION Spec
CONSTANTS
  Procs = {p1, p2, p3}
  InitProc = p1
  Frames = {f1, f2, f3, f4}
  KFrame = k
  NoFrame = nil
  TextPages = {1}
  DataPages = {2}
  HeapPages = {3}
  StackPages = {5}
  StackTop = 5
  LowStackPages = {}
  Values = {0, 1}
  CountCap = 2
  MaxTables = 6
SYMMETRY Symmetry
INVARIANTS TypeOK FramesExact SharedReadOnly CountsCover TLBCoherent
PROPERTIES StackPrivate
CHECK_DEADLOCK FALSE
