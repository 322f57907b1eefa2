\* One purpose, asked what the comment of verify() says.
CONSTANTS
  Purposes = {LOGIN}
  Requests = {r1, r2}
  MaxAttempts = 2
  IdMax = 1
  MaxRows = 2
  None = None
SPECIFICATION Spec
INVARIANT OneTimeUseAlways
