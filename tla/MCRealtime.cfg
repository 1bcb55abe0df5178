SPECIFICATION Spec
CONSTANTS
  c1 = c1
  c2 = c2
  e1 = e1
  e2 = e2
  Clients = {c1, c2}
  Other = other
  Edits = {e1, e2}
  Author <- Authors
  Slots = {k1, k2}
  Buffer = 1
INVARIANTS TypeOK StaleIsAccountedFor NoReloadBegunWhileTyping
PROPERTIES ChangesAreShown DeadSessionsAreCutOff
CHECK_DEADLOCK FALSE
