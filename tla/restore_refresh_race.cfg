SPECIFICATION Spec
CONSTANTS
  a = a
  b = b
  off = off
  lawn = lawn
  odd = odd
  None = None
  Editable = {a, b}
  Hidden = {h}
  Contents = {off, lawn}
  Unscheduled = off
  Unencodable = {}
  Dates <- TwoDays
  Restorers = {r1}
  LegacyStores <- OldBackup
  MaxRestores = 1
  MaxEdits = 0
  MaxCrashes = 0
INVARIANT UncertainStaysPending
