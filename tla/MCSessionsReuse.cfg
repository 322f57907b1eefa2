\* The same instance, asked what the comment of rotate() says.
CONSTANTS
  Customers = {c1}
  Tokens = {t1, t2, t3}
  Requests = {r1, r2}
  None = None
SPECIFICATION Spec
INVARIANT ReuseEndsFamily
