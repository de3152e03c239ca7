SPECIFICATION MCSpec
CONSTANTS
  m1 = m1
  m2 = m2
  p1 = p1
  p2 = p2
  p3 = p3
  N = 6
  Recoveries = {1, 3}
  MaxNexts = 6
  Lines = {l1, l2, l3}
  Blank = Blank
  Capacity = 4
  Callers = {p1, p2, p3}
  TicksPerDay = 3
  Days = 2
  MaxIds = 4
  Middlewares <- OneOrThree
  Names = {"g", "h"}
  Handler = handler
  Unused = unused
  MaxValues = 6
  Letters = {"a", "b"}
  MaxWord = 3
  Payloads = {1, 2}
  NoPayload = 0
  MaxEdits = 4
  MaxChain = 4
  MaxActs = 2
  StoreUsers = {"p", "q"}
  MaxStores = 2
  MaxOpens = 2
  Senders = {"p", "q"}
  Actions = {"a", "b"}
  Messages = {"m1", "m2", "m3"}
  HashOf <- SameHash
  MaxInfos = 3
  Collections = {"p", "q"}
  Modulus = 2
  capacity = 2
  MaxClock = 3
  MaxTraffic = 1
  Processes = {"p", "q"}
  MaxEditions = 1
  Tasks = {"mail", "scan", ""}
  NoName = ""
  MaxQueued = 2
CONSTRAINTS Careful Calm Few
INVARIANTS TypeOK InOrderOnce DoneRanAll CrashOnlyUnguarded DuplicatesNeedALostSwap ChainsStay LinearRoutesAsDeclared TrieIsItsWords SpansTellTheRequest   RecordsAreTrue 
PROPERTIES AbortStops ReturnsLastLines IncreasingUntilLost ConfigurationIsKept
