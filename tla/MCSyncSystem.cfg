SPECIFICATION Spec
CONSTANTS
  Clients = {c1, c2}
  Slots = {s1, s2}
  MaxChanges = 2
  MaxRunning = 2
  None = None
  Idle = Idle
SYMMETRY SyncSymmetry
INVARIANTS
  TypeOK
  FilesOfOneState
PROPERTIES
  SettingsSurvive
