SPECIFICATION RecordsSpec
CONSTANTS
  None = None
  Invites = {i1, i2}
  Requests = {r1, r2}
  Slots = {k1, k2}
  Capacity = 1
  Orders = {o1, o2}
  OrderCredits = 1
  MaxAdjust = 2
  Rows = {d1}
  MaxTries = 2
  MaxCodes = 2
  Papers = {p1, p2}
  Texts = {t1, t2}
  Recorders = {x1, x2}
  MaxEpochs = 2
  MaxGen = 1
  MaxShots = 1
  MaxClicks = 1
  HrRequests = {h1, h2, h3}
  FreeLaunches = {l1, l2, l3}
  Users = {u1}
  MaxLaunches = 2
  FreeShare = 1
SYMMETRY Symm
INVARIANTS RecordsTypeOK FirstBookingsFit
  CreditsBalance OneWinner GuessesBounded AcceptedForGood
  EvidenceKept NoZombieCapture AnswersStay FreeRunsCapped
PROPERTIES SignedForGood
CHECK_DEADLOCK FALSE
