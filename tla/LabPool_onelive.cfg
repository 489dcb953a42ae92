SPECIFICATION Spec
CONSTANTS
  s1 = s1
  s2 = s2
  s3 = s3
  u1 = u1
  u2 = u2
  labA = labA
  labB = labB
  None = None
  Sessions = {s1, s2, s3}
  Users = {u1}
  Labs = {labA, labB}
  PrimaryLab = labA
  Accounts = {a1, a2}
  Workers = {w1}
  userId <- MCOneUser
  labSlug <- MCLabSlug
  Faults = {"end_lost", "lease_crash", "late_throw"}
SYMMETRY SymmetricToo
INVARIANT OneLiveSession
CHECK_DEADLOCK FALSE
