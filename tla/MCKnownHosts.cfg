SPECIFICATION Spec
CONSTANTS
  name = name
  address = address
  Hosts <- TheHosts
  Remote <- TheRemote
  Keys = {k1, k2}
  Flows = {f1, f2}
  MaxLines = 2
  MaxChanges = 1
  NoFile = NoFile
  Idle = Idle
SYMMETRY HostsSymmetry
INVARIANTS
  TypeOK
  OnlyConfirmed
PROPERTIES
  ChangedKeyBlocked
