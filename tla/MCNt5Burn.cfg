SPECIFICATION Spec
CONSTANTS
  MaxRuns = 2
  MaxPolls = 2
  Lossy <- MCLossy
INVARIANTS
  TypeOK
  FormatUndisturbed
  SuccessMeansInstallable
PROPERTIES
  ContractKept
