CONSTANTS
  Customers = {c1, c2}
  Carts = {k1, k2}
  Variants = {v1}
  Products = {p1, p2}
  Views = {w1, w2, w3}
  Requests = {r1, r2}
  Limit = 1
  MaxQuantity = 2
  MaxRequests = 5
  None = None
SPECIFICATION Spec
SYMMETRY MCSymmetry
INVARIANTS
  TypeOK
  NothingLost
  RecentIsRecent
CHECK_DEADLOCK FALSE
