\* Two requests over three customers; chains of two merges are longer than MaxHops.
\* Customers may all end up merged, in a circle, and then nothing can happen.
CONSTANTS
  Customers = {c1, c2, c3}
  Phones = {p1}
  Emails = {e1}
  Imported = {e1}
  Requests = {r1, r2}
  MaxHops = 1
  None = None
SPECIFICATION Spec
SYMMETRY MCSymmetry
INVARIANTS
  TypeOK
  MergeKeepsLogin
  BlockStands
  PrimaryIsProven
PROPERTY NeverStolen
CHECK_DEADLOCK FALSE
