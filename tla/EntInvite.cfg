SPECIFICATION FairSpec
CONSTANTS
  None = None
  Invites = {i1}
  Sessions = {n1, n2}
  Accounts = {a1}
  Requests = {r1, r2}
INVARIANTS TypeOK ConsentFirst OneLease SubmittedHasResult
PROPERTIES AccountsComeBack OneAttempt DeadStaysDead GradeSettles
CHECK_DEADLOCK FALSE
