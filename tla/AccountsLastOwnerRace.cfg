SPECIFICATION MCSpec
CONSTANTS
  ann = ann
  bob = bob
  Scenarios = {"any"}
  Users = {ann, bob}
  Tokens = {t1, t2}
  NoToken = NoToken
  Requests = {r1, r2}
  MaxPw = 0
  Seeded = {}
  FirstRole <- TwoOwners
  Commands <- Demotions
INVARIANT SomeActiveOwner
CHECK_DEADLOCK FALSE
