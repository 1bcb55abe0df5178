SPECIFICATION MCSpec
CONSTANTS
  Requests = {r1, r2}
  Tokens = {t1}
  NoToken = nobody
  MaxInc = 2
  Interrupted = TRUE
INVARIANTS TypeOK WorkStaysHome NobodyIsLockedOut CalmChangesHitTheirOwn CalmProjectsFollow
PROPERTY AdmittedInTheirDatabase
SYMMETRY Symmetry
CHECK_DEADLOCK FALSE
