SPECIFICATION FairSpec
CONSTANTS
  MaxRestarts = 2
  SlowReceiver = TRUE
INVARIANTS AnswersAreRead SleepNeedsTasks LedTellsConnection
PROPERTY Boots
CHECK_DEADLOCK TRUE
