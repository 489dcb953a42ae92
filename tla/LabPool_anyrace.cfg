SPECIFICATION Spec
CONSTANTS
  s1 = s1
  s2 = s2
  s3 = s3
  u1 = u1
  u2 = u2
  labA = labA
  labB = labB
  None = None
  Sessions = {s1}
  Users = {u1}
  Labs = {labA, labB}
  PrimaryLab = labA
  Accounts = {a1}
  Workers = {w1, w2}
  userId <- MCUserId
  labSlug <- MCLabSlug
  Faults = {"late_end", "end_mid_build", "slow_wipe", "lock_timeout", "stale_heal", "stale_scan",
            "redelivery", "slow_build", "mark_lost", "release_lost", "late_throw"}
SYMMETRY Symmetric
INVARIANT NobodyForgotten
PROPERTY NoZombie
CHECK_DEADLOCK FALSE
