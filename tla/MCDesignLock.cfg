SPECIFICATION MCSpec
CONSTANTS
  Names = {app, crm, erp}
  PairNames = {app, crm}
  Db = app
  Requests = {r1, r2}
  Ops <- Operations
  Scenarios = {"pair", "alone"}
  ReadsFail = FALSE
  Interrupted = TRUE
INVARIANTS TypeOK AloneRefsFollowName AloneMirrorFollowsMeta
PROPERTIES LateRequestsAreRefused AloneLockIsForever
SYMMETRY Symmetry
CHECK_DEADLOCK FALSE
