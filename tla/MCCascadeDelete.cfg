SPECIFICATION MCSpec
CONSTANTS
  a = a
  b = b
  c = c
  d = d
  Records = {a, b, c, d}
  Shapes <- AllShapes
  Requests = {r1, r2}
  PageSize = 2
INVARIANTS TypeOK ChildrenGoFirst
PROPERTIES FamilyGoesToo DeletionsEnd
CHECK_DEADLOCK FALSE
