CONSTANTS
  Customers = {c1, c2}
  Rows = {a1, a2, a3}
  Keys = {k1, k2}
  Copies = {x1, x2}
  Requests = {r1, r2}
  MaxRequests = 3
  MaxVisits = 1
  None = None
SPECIFICATION Spec
SYMMETRY MCSymmetry
INVARIANTS
  TypeOK
  SomeDefault
  OneDefault
  OneCopyOfEach
CHECK_DEADLOCK FALSE
