\* A week passes.
SPECIFICATION Spec
CONSTANTS
  e1 = e1  e2 = e2  e3 = e3
  Evals <- ThreeEvals
  Keyed <- NoEvals
  Changes = 0
  Ttl = 1
  Limit = 2
  Used = 0
  LastWeek = 1
PROPERTY WeekStartsAfresh
CHECK_DEADLOCK FALSE
