SPECIFICATION FairSpec
CONSTANTS
  r1 = r1
  r2 = r2
  edit = edit
  delete = delete
  read = read
  custom = custom
  again = again
  fxEdit = fxEdit
  fxDelete = fxDelete
  fxRead = fxRead
  fxCustom = fxCustom
  Runs = {r1, r2}
  Calls = {edit, delete}
  Ids = {fxEdit, fxDelete}
  EffectId <- MCEffectId
  Kind <- MCKind
  Queue <- PairQueue
  MaxResumes = 1
CHECK_DEADLOCK FALSE
PROPERTY Settles
