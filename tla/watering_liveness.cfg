SPECIFICATION FairSpec
CONSTANTS
  None = None
  Stations = {s1}
  Programs = {}
  LongPolls = FALSE
  Undisturbed = FALSE
  Callers = {valve, button}
  MaxRuns = 2
  MaxCommands = 2
  MaxCancels = 1
  MaxCrashes = 0
INVARIANT RefusalIsJustified
PROPERTIES StartPossibleAgain MonitorsEnd
CHECK_DEADLOCK FALSE
