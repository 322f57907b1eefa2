CONSTANTS
  Requests = {r1, r2}
  Budgets <- MCBudgets
  Tokens = {t1}
  MaxAttempts = 2
  Lifetime = 2
  Applications = {a1, a2}
  Home = home
  Banners = banners
  Pages = {}
  Listings = {list, shelf}
  Matching <- MCMatching
  Details = {detail}
  Catalogue = catalogue
  Embedded = {banners, list}
  TTL = 1
  FillTime = 1
  Processes = {p1, p2}
  MaxRetries = 1
  list = list
  shelf = shelf
  None = None
SPECIFICATION Spec
SYMMETRY MCSymmetry
INVARIANTS
  TypeOK
  GuessesBounded
  LogoutHolds
  CreatorsAreApproved
  RetryGetsThrough
PROPERTY
  CacheIsFresh
CHECK_DEADLOCK FALSE
