\* Two requests for one identifier and one purpose, two attempts a code, two codes.
CONSTANTS
  Purposes = {LOGIN}
  Requests = {r1, r2}
  MaxAttempts = 2
  IdMax = 1
  MaxRows = 2
  None = None
SPECIFICATION Spec
SYMMETRY MCSymmetry
INVARIANTS
  TypeOK
  OnePendingCode
  AttemptsBounded
  OneTimeUse
  SendsBounded
PROPERTY CapIsFinal
