SPECIFICATION FairSpec
CONSTANTS
  s1 = s1
  s2 = s2
  s3 = s3
  u1 = u1
  u2 = u2
  labA = labA
  labB = labB
  None = None
  Sessions = {s1, s2}
  Users = {u1}
  Labs = {labA, labB}
  PrimaryLab = labA
  Accounts = {a1}
  Workers = {w1}
  userId <- MCUserId
  labSlug <- MCLabSlug
  Faults = {"late_throw"}
PROPERTIES AccountReturns LockClears
CHECK_DEADLOCK FALSE
