CONSTANTS
  ClusterCount = 6
  ClusterSize = 2
  RootEntries = 1
  EntriesPerCluster = 1
  MaxInodes = 1
  Names = {a, b}
  NoName = none
  FatRead = 8
  FatWritten = 8
  Amounts = {1, 2}
  MaxSize = 3
SPECIFICATION Spec
INVARIANTS CleanIsDurable FilesSurvive
SYMMETRY Symmetry
