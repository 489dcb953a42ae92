SPECIFICATION Spec
CONSTANTS
  None = None
  Orders = {o1, o2}
  Confirms = {c1, c2, c3}
  Launches = {l1}
  MaxLaunches = 2
SYMMETRY Symmetric
INVARIANT RefillOncePerOrder
CHECK_DEADLOCK FALSE
