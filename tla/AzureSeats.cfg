SPECIFICATION AzSpec
CONSTANTS
  None = None
  Invites = {i1, i2}
  Seats = {s1}
  Groups = {g1, g2, g3}
  Requests = {r1, r2}
  MaxFaults = 1
SYMMETRY Symm
INVARIANTS AzTypeOK  NoGroupForgotten AccessEnds
 
CHECK_DEADLOCK FALSE
