SPECIFICATION MCSpec
CONSTANTS
  Names = {app, crm}
  PairNames = {app, crm}
  Db = app
  Requests = {r1, r2}
  Ops <- RenamesAndLocks
  Scenarios = {"any"}
  ReadsFail = FALSE
  Interrupted = FALSE
PROPERTY LockIsForever
CHECK_DEADLOCK FALSE
