SPECIFICATION RouterSpec
CONSTANTS
  m1 = m1
  m2 = m2
  Middlewares <- OneOrThree
  Names = {"g", "h"}
  Handler = handler
  Unused = unused
  MaxValues = 6
INVARIANTS RoutesAsDeclared
\* The routes are registered once, when the program starts.
CHECK_DEADLOCK FALSE
