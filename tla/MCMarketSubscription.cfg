\* Two clients of one stock, fair handlers, a reconnect and rotations: what a
\* client gets, that it never waits on a dead hub, and the hub as its endpoints
\* see it.
SPECIFICATION FairSpec
CONSTANTS
    x1 = x1
    x2 = x2
    p1 = p1
    None = None
    End = End
    Invalid = Invalid
    Clients = {x1, x2}
    Keys = {p1}
    Capacity = 1
    MaxMessages = 3
    MaxConns = 2
    MaxTags = 2
INVARIANTS
    FeedInOrder
    FedOrTold
PROPERTIES
    StreamsEnd
    ImplementsFeedHub
CHECK_DEADLOCK FALSE
