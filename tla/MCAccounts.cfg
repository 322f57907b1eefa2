CONSTANTS
  Customers = {c1, c2}
  Phones = {p1}
  Emails = {e1, e2}
  Store = {s1}
  Imported = {s1}
  Fresh = {f1}
  Requests = {r1, r2}
  MaxRequests = 3
  CreateOnSignup = TRUE
  None = None
SPECIFICATION Spec
SYMMETRY MCSymmetry
INVARIANTS
  TypeOK
  OwnRecordsOnly
  PointsAtExisting
PROPERTY HistoryKept
CHECK_DEADLOCK FALSE
