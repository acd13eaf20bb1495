SPECIFICATION Spec
CONSTANTS
  IsoFiles = {f1, f2}
  OtherFiles = {o1}
  MaxRuns = 2
  MaxPolls = 2
  Lossy <- MCLossy
INVARIANT
  IsoIsCopied
