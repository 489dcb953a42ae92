SPECIFICATION Spec
CONSTANTS
  None = None
  Invites = {i1}
  Sessions = {n1, n2}
  Accounts = {a1}
  Requests = {r1, r2}
PROPERTY GradeKept
CHECK_DEADLOCK FALSE
