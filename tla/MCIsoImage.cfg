SPECIFICATION Spec
CONSTANTS
  Names = {1, 2, 3, 4}
  RecordLen <- MCRecordLen
  Sector = 8
  DotLen = 2
  MaxSize = 2
  MaxCalls = 3
INVARIANTS
  TypeOK
  DirectorySound
  FilesReadBack
  OthersSurvive
