CONSTANTS
  MaxDesign = 3
  Saves = {s1, s2}
  Places = {p1, p2}
  NoPlace = nowhere
SPECIFICATION Spec
INVARIANTS
  TypeOK
  ChangesAreAccountedFor
PROPERTY ChangesReachTheFile
