CONSTANTS
    c1 = c1
    c2 = c2
    None = None
    Clients <- TwoClients
    Account <- OwnAccount
    Subscribers = {}
    Kinds = {"shout"}
    SendCap = 1
    RequestCap = 1
    TopicCap = 1
    MaxRequests <- TwoFromOne
SPECIFICATION FairSpec
INVARIANTS
    TypeOK
PROPERTIES
    BrokenGuestsAreReleased
