SPECIFICATION MCSpec
CONSTANTS
  ann = ann
  bob = bob
  Scenarios = {"pair", "alone"}
  Users = {ann, bob, cyd}
  Tokens = {t1, t2, t3}
  NoToken = NoToken
  Requests = {r1, r2}
  MaxPw = 2
  Seeded = {ann}
  FirstRole <- OwnerAndUser
  Commands <- AnyCommand
INVARIANTS TypeOK OnlyKnowersAreAdmitted SomeActiveOwner
PROPERTIES AdmittedRoleIsCurrent OwnersMadeByOwners
SYMMETRY Symmetry
CHECK_DEADLOCK FALSE
