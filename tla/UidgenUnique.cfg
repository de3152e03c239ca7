SPECIFICATION IdsSpec
CONSTANTS
  p1 = p1
  p2 = p2
  p3 = p3
  Callers = {p1, p2}
  TicksPerDay = 4
  Days = 1
  MaxIds = 2
INVARIANTS NoDuplicates
\* The clock stops at the end of the last day and the calls at MaxIds.
CHECK_DEADLOCK FALSE
