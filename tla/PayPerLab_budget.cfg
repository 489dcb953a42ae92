SPECIFICATION Spec
CONSTANTS
  None = None
  Orders = {o1, o2}
  Confirms = {c1, c2}
  Launches = {l1, l2, l3}
  MaxLaunches = 2
SYMMETRY Symmetric
INVARIANTS TypeOK BudgetRefilled NeverOvercharged ClockNeedsLaunch PaidIsGranted OneReservePerReading
CHECK_DEADLOCK FALSE
