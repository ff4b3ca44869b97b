SPECIFICATION MCSpec
CONSTANTS
  None = None
  MaxRuns = 1
  MaxCalls = 1
  PollEvery = 1
  ReadEvery = 2
  Window = 1
  Threshold = 2
  Recover = 2
  StuckAfter = 4
  Episode = 2
  MaxForced = 1
  MaxReloads = 1
  MaxRestarts = 1
INVARIANT PollingTypeOK
PROPERTIES ClearsOnlyWhenQuiet EpisodesDoNotTrip OutageIsReported RecoveryIsReported EverythingRead ClockIsSet
