\* The same instance, asked what the comment of send() says.
CONSTANTS
  Customers = {c1}
  Devices = {d1, d2}
  Admins = {a1}
  Cron = cron
  All = ALL
  Audiences = {ALL}
  BatchSize = 1
  MaxStops = 1
  None = None
SPECIFICATION Spec
INVARIANT NeverTwice
