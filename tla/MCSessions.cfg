\* Two requests over two customers and three refresh tokens.
CONSTANTS
  Customers = {c1, c2}
  Tokens = {t1, t2, t3}
  Requests = {r1, r2}
  None = None
SPECIFICATION Spec
SYMMETRY MCSymmetry
INVARIANTS
  TypeOK
  QuietBurnIsFinal
  SealedCustomerHasNoSession
  RotationIsLinear
PROPERTY RowsAreLifecycle
