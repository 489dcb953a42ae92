SPECIFICATION Spec
CONSTANTS
  s1 = s1
  s2 = s2
  s3 = s3
  u1 = u1
  u2 = u2
  labA = labA
  labB = labB
  None = None
  Sessions = {s1, s2, s3}
  Users = {u1, u2}
  Labs = {labA, labB}
  PrimaryLab = labA
  Accounts = {a1}
  Workers = {w1, w2}
  userId <- MCUserId
  labSlug <- MCLabSlug
  Faults = {"end_lost", "lease_crash", "warm_crash"}
SYMMETRY Symmetric
INVARIANTS TypeOK AccountExclusive TenantIsolation WipesOwnAccount
PROPERTY PoolContract
CHECK_DEADLOCK FALSE
