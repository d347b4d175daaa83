\* One client of one stock, a reconnect or a rotation, a message of two ticks.
SPECIFICATION FeedSpec
CONSTANTS
    x1 = x1
    p1 = p1
    None = None
    End = End
    Invalid = Invalid
    Clients = {x1}
    Keys = {p1}
    Limited = {p1}
    Capacity = 1
    MaxMessages = 2
    MaxConns = 2
    MaxTags = 2
    MaxTicks = 2
    MaxFrame = 2
INVARIANT
    LatestReachesClient
CONSTRAINT Feeding
VIEW WithoutFeed
CHECK_DEADLOCK FALSE
