CONSTANTS
  ClusterCount = 5
  ClusterSize = 2
  RootEntries = 1
  EntriesPerCluster = 2
  MaxInodes = 4
  Names <- MCNames
  NoName = "none"
  Procs = {p, q}
  Paths <- MCPaths
  DirPaths <- MCDirPaths
  RemoveDirs = FALSE
  MaxFd = 4
  MaxOpenFiles = 2
  Amounts = {1, 2}
  MaxSize = 4
SPECIFICATION Spec
INVARIANT ChainHoldsFile
SYMMETRY Symmetry
CHECK_DEADLOCK FALSE
