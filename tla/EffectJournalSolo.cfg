SPECIFICATION FairSpec
CONSTANTS
  r1 = r1
  r2 = r2
  edit = edit
  delete = delete
  read = read
  custom = custom
  again = again
  fxEdit = fxEdit
  fxDelete = fxDelete
  fxRead = fxRead
  fxCustom = fxCustom
  Runs = {r1}
  Calls = {edit, read, custom, again}
  Ids = {fxEdit, fxRead, fxCustom}
  EffectId <- MCEffectId
  Kind <- MCKind
  Queue <- SoloQueue
  MaxResumes = 3
CHECK_DEADLOCK FALSE
INVARIANTS TypeOK RepeatNeedsCause IntentIsDurable QueueAccounted
PROPERTIES AppliedIsFinal
