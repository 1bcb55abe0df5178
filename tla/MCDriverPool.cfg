SPECIFICATION FairSpec
CONSTANTS
  Dbs = {app}
  Admin = admin
  Drivers = {d1, d2, d3}
  Callers = {c1, c2}
  Impatient = {c1}
  ServerFails = FALSE
  None = None
INVARIANTS TypeOK OnePoolPerDatabase
PROPERTIES LiveCallersSpareDrivers GetDriverReturns ImplementsRegistry
CHECK_DEADLOCK FALSE
