SPECIFICATION FairSpec
CONSTANTS
  Outputs = {stdout}
  Banner = banner
  MaxChunks = 3
  OutCap = 1
  FlushAt = 2
  PendingCap = 2
INVARIANTS
  SshTypeOK
  ShownInOrder
  HolesAreVisible
CHECK_DEADLOCK FALSE
PROPERTIES
  ReadersEnd
  NothingWaitsForEver
