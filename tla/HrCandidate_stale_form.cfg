SPECIFICATION HrSpec
CONSTANTS
  None = None
  Invites = {i1}
  Requests = {r1}
  HrRequests = {h1, h2, h3, h4}
SYMMETRY Symm
INVARIANT MeetingsKept
CHECK_DEADLOCK FALSE
