SPECIFICATION Spec
CONSTANTS
  Sessions = {s1, s2}
  Paths = {p, q}
  MaxVersions = 2
  Chunks = 2
  Idle = Idle
  None = None
SYMMETRY SftpSymmetry
INVARIANTS
  TypeOK
  NoLitter
PROPERTIES
  KeepsPromise
  LossLeavesNewVersion
