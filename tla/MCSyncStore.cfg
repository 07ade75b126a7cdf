SPECIFICATION Spec
CONSTANTS
  Accounts = {a1, a2}
  Requests = {r1}
  Idle = Idle
  Sizes = {2, 3, 8}
  MinCipher = 3
  ShrinkFrom = 8
  MaxBackups = 2
  MaxBackupBytes = 5
  MaxAccount = 12
  MaxGlobal = 16
  MaxLitter = 2
INVARIANTS
  TypeOK
  RetentionHolds
  QuotasExceededByOneVersion
PROPERTIES
  PreviousVersionKept
SYMMETRY AccountSymmetry
