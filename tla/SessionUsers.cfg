CONSTANTS
    c1 = c1
    c2 = c2
    None = None
    Clients <- TwoClients
    Account <- OwnAccount
    Subscribers = {c1}
    Kinds = {"login", "bye"}
    SendCap = 1
    RequestCap = 1
    TopicCap = 1
    MaxRequests <- OneRequest
SPECIFICATION FairSpec
INVARIANTS
    ClosedGuestIsLoggingIn
PROPERTIES
    BrokenUsersGoOffline
    
CHECK_DEADLOCK FALSE
