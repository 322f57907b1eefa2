\* The same instance, asked what the comment of the merge service says.
CONSTANTS
  Customers = {c1, c2, c3}
  Phones = {p1}
  Emails = {e1}
  Imported = {e1}
  Requests = {r1, r2}
  MaxHops = 1
  None = None
SPECIFICATION Spec
SYMMETRY MCSymmetry
INVARIANT MergeNeverBreaksLogin
CHECK_DEADLOCK FALSE
