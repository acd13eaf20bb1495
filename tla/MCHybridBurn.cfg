SPECIFICATION Spec
CONSTANTS
  Chunk = 4
  Block = 2
  Capacity = 8
  IsoSizes <- MCIsoSizes
  MaxRuns = 2
  MaxEdits = 1
INVARIANTS
  TypeOK
  VerifiedMeansIdentical
  WrittenExactly
PROPERTIES
  RunsEnd
