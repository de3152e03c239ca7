SPECIFICATION MCSpec
CONSTANTS
  c1 = c1
  c2 = c2
  c3 = c3
  None = None
  Clients = {c1, c2, c3}
  Accounts <- TwoUsers
  MaxLogins = 3
  MaxDrops = 1
CONSTRAINT Pairs
\* Clients come, log in and leave a bounded number of times.
CHECK_DEADLOCK FALSE
INVARIANTS GuestsAreTheGuests LoginIsFound ClosedIsUnlisted PanicsNeedOverlap BroadcastReaches
