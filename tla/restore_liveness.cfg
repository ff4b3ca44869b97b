SPECIFICATION FairSpec
CONSTANTS
  a = a
  b = b
  off = off
  lawn = lawn
  odd = odd
  None = None
  Editable = {a, b}
  Hidden = {}
  Contents = {off, lawn, odd}
  Unscheduled = off
  Unencodable = {odd}
  Dates <- ThreeDates
  Restorers = {r1}
  LegacyStores <- OldBackup
  MaxRestores = 1
  MaxEdits = 0
  MaxCrashes = 1
PROPERTIES KnownOutcomeSettles RestoreEnds
