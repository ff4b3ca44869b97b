SPECIFICATION Spec
CONSTANTS
  None = None
  Stations = {s1, s2}
  Programs = {p}
  LongPolls = FALSE
  Undisturbed = FALSE
  Callers = {valve, button}
  MaxRuns = 2
  MaxCommands = 2
  MaxCancels = 0
  MaxCrashes = 0
INVARIANT OwnRunNotExternal
SYMMETRY Symmetry
CHECK_DEADLOCK FALSE
