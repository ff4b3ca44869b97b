SPECIFICATION Spec
CONSTANTS
  None = None
  Stations = {s1, s2}
  Programs = {p}
  LongPolls = FALSE
  Undisturbed = TRUE
  Callers = {valve, button}
  MaxRuns = 2
  MaxCommands = 2
  MaxCancels = 1
  MaxCrashes = 1
INVARIANTS WateringTypeOK OwnRunNotExternal
SYMMETRY Symmetry
CHECK_DEADLOCK FALSE
