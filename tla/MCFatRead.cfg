CONSTANTS
  ClusterCount = 6
  ClusterSize = 1
  RootEntries = 1
  EntriesPerCluster = 1
  MaxInodes = 1
  Names = {a, b}
  NoName = none
  FatRead = 4
  FatWritten = 8
  Amounts = {1, 2}
  MaxSize = 2
SPECIFICATION Spec
INVARIANT CleanIsDurable
SYMMETRY Symmetry
