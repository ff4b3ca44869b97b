SPECIFICATION MCSpec
CONSTANTS
  None = None
  A = A
  B = B
  Flows = {f1}
  Names = {A, B}
  Blank = Blank
  Torn = Torn
  Slots = 2
  Configured = 1
  Start <- MCStart
  MaxRenames = 2
  MaxPhone = 1
  MaxRestarts = 1
  Times = 2
  MonthDay <- MCMonthDay
  Stored <- MCStored
  PhoneEdits <- MCPhoneEdits
  Presets <- MCPresets
  Forms <- MCForms
  End = 2
  MaxSubmits = 2
  Horizon = 20
INVARIANTS OptionsTypeOK NoResurrection WidthIsProven NextStartIsTrue
PROPERTIES ImplementsJournal NoBlindOverwrite NamesRead SuccessIsAsShown
