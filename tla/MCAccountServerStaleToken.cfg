SPECIFICATION Spec
CONSTANTS
  Accounts = {a1, a2}
  Usernames = {u1, u2}
  EnvAdmins = {a1}
  Requests = {r1}
  NoRec = NoRec
  NoName = NoName
  Idle = Idle
  MaxIssued = 4
PROPERTY InvalidTokensStayInvalid
