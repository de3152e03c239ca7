CONSTANTS
    c1 = c1
    c2 = c2
    None = None
    Clients <- TwoClients
    Account <- OneAccount
    Subscribers = {}
    Kinds = {"login"}
    SendCap = 1
    RequestCap = 1
    TopicCap = 1
    MaxRequests <- TwoAndOne
SPECIFICATION Spec
INVARIANTS
    ReplacedGoesOffline
CHECK_DEADLOCK FALSE
