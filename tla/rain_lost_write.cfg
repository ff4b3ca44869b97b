SPECIFICATION Spec
CONSTANTS
  None = None
  Keys = {A, B, C}
  Selected = {A, B}
  Shapes = {empty, base}
  Unscheduled = empty
  PhoneBudgets <- MCPhoneBudgets
  Baseline = 10
  Fractions <- MCFractions
  DelayAllowed = TRUE
  MaxApplies = 2
  MaxEdits = 0
  MaxConfigs = 0
  MaxLosses = 1
  MaxCrashes = 1
INVARIANTS RefusedOnlyIfEdited
SYMMETRY Symmetry
CHECK_DEADLOCK FALSE
