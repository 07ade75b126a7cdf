SPECIFICATION Spec
CONSTANTS
  Records = {r1, r2}
  Keys = {k1, k2}
  Calls = {c1}
  Ops <- AllOps
  NoKey = NoKey
  Blank = Blank
  Plain = Plain
  Absent = Absent
  Idle = Idle
  Nobody = Nobody
SYMMETRY VaultSymmetry
PROPERTY ImportKeepsSecrets
