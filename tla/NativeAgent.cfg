SPECIFICATION FairSpec
CONSTANTS
  read = read
  look = look
  write = write
  rewrite = rewrite
  t1 = t1
  t2 = t2
  Calls = {read, look, write, rewrite}
  Ids = {t1, t2}
  CallId <- MCCallId
  Kind <- MCKind
  Default = "allow"
  Listed = {read, look}
  Blocked = {}
  AskKinds = {"side-effecting"}
  Replies <- MCReplies
  MaxTurns = 2
  TokenLimit = 2
  ToolLimit = 0
  Allowance = 1
  MaxReport = 2
  Earlier <- MCEarlier
  MaxSteers = 1
  MaxStarts = 2
CHECK_DEADLOCK FALSE
INVARIANT TypeOK
INVARIANT RoundTrip
INVARIANT AskIsOnDisk
INVARIANT CeilingHolds
PROPERTY RanWasGranted
PROPERTY DriveEnds
PROPERTY ContractSpec
