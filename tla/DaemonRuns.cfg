SPECIFICATION FairSpec
CONSTANTS
  i1 = i1
  i2 = i2
  RunIds = {i1, i2}
  MaxLives = 2
  MaxRestarts = 1
CHECK_DEADLOCK FALSE
INVARIANT TypeOK
INVARIANT BusyIsDriven
INVARIANT RunningIsReal
INVARIANT TerminalIsLogged
INVARIANT ParkedIsDurable
INVARIANT AnswerStays
PROPERTY CancelEnds
PROPERTY LifecycleSpec
