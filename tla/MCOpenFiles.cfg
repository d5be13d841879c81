CONSTANTS
  ClusterCount = 4
  ClusterSize = 1
  RootEntries = 1
  EntriesPerCluster = 1
  MaxInodes = 4
  Names <- MCNames
  NoName = "none"
  Procs = {p, q}
  Paths <- MCPaths
  DirPaths <- MCDirPaths
  RemoveDirs = FALSE
  MaxFd = 5
  MaxOpenFiles = 2
  Amounts = {1, 2}
  MaxSize = 2
SPECIFICATION Spec
INVARIANTS TypeOK RefcountExact InodesExact OffsetInFile OpenIsLinked VolumeConsistent
PROPERTY DescriptorsPrivate
SYMMETRY Symmetry
CHECK_DEADLOCK FALSE
