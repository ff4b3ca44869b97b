SPECIFICATION SerialSpec
CONSTANTS
  a = a
  b = b
  off = off
  lawn = lawn
  odd = odd
  None = None
  Editable = {a, b}
  Hidden = {h}
  Contents = {off, lawn, odd}
  Unscheduled = off
  Unencodable = {odd}
  Dates <- TwoDays
  Restorers = {r1}
  LegacyStores <- MCLegacy
  MaxRestores = 2
  MaxEdits = 1
  MaxCrashes = 1
INVARIANTS TypeOK PendingUntilTold WriteIsJournaled SnapshotAgrees
PROPERTIES BackupChangesOnlyOnRequest ImplementsJournal SuccessMeansRestored
