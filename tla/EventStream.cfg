SPECIFICATION FairSpec
CONSTANTS
  MaxEvents = 4
  LogMax = 3
  MaxOld = 1
  Cap = 2
  MaxSubs = 1
CHECK_DEADLOCK FALSE
INVARIANTS TypeOK LogIsCapped NoGap SentOnce
PROPERTY FinishEnds
