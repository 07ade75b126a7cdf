SPECIFICATION Spec
CONSTANTS
  Users = {u1, u2}
  Addresses = {x1, x2, x3}
  Nobody = Nobody
  Idle = Idle
INVARIANTS
  TypeOK
  DataReachable
PROPERTY RollbackRestores
