SPECIFICATION Spec
CONSTANTS
  Dbs = {app}
  Admin = admin
  Drivers = {d1, d2, d3}
  Callers = {c1, c2}
  Impatient = {c2}
  ServerFails = FALSE
  None = None
PROPERTY HeldDriverStaysOpen
CHECK_DEADLOCK FALSE
