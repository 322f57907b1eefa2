\* The cron and one administrator, two devices in batches of one, one stop.
CONSTANTS
  Customers = {c1}
  Devices = {d1, d2}
  Admins = {a1}
  Cron = cron
  All = ALL
  Audiences = {ALL}
  BatchSize = 1
  MaxStops = 1
  None = None
SPECIFICATION Spec
INVARIANTS
  TypeOK
  NotTwice
  NoOrphanedSending
PROPERTIES
  CancelHolds
  OnlyItsAudience
  DueIsSent
  SendingEnds
