SPECIFICATION Spec
CONSTANTS
  Names = {"A", "B", "C"}
  ClusterCount = 3
  ClusterSize = 2
  RootEntries = 2
  FatCopies = 2
  MaxSize = 5
  MaxCalls = 5
INVARIANTS
  TypeOK
  FilesReadBack
  TableExact
  CopiesAgree
