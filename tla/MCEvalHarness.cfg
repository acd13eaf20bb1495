SPECIFICATION Spec
CONSTANTS
  MaxShots = 2
  MaxReads = 2
  MaxInbox = 3
INVARIANTS
  TypeOK
  QemuReaped
  VerdictJustified
  ReplyLag
PROPERTIES
  RunsEnd
