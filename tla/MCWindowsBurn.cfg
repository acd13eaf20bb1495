SPECIFICATION Spec
CONSTANTS
  IsoFiles = {f1, f2}
  OtherFiles = {o1}
  MaxRuns = 2
  MaxPolls = 2
  Lossy <- MCLossy
INVARIANTS
  TypeOK
  PartitionStepsUndisturbed
  Mbr7Undisturbed
  SuccessMeansBootable
  IsoReleased
PROPERTIES
  BootRecordLast
  RunsEnd
  ContractKept
