SPECIFICATION Spec
CONSTANTS
  Sessions = {s1, s2}
  Micros = {0, 6, 12}
  U32_MAX = 9
  MaxNotes = 3
INVARIANTS
  TypeOK
  MaxIsReached
  AverageInRange
PROPERTIES
  MaxNeverFalls
  PageSettles
