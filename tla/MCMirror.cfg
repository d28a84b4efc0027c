\* Socket clients beside D-Bus publishers: what a client's list adds up to.
SPECIFICATION Spec
CONSTANTS
    Capacity = 2
    MaxEventId = 4
    MaxNid = 1
    Keys = {}
    ChannelCapacity = 2
    Clients = {c1}
    Calls = {"publish", "dismiss", "clear"}
    RequestTypes = {"recent", "dismiss", "clear"}
    Limits = {1, 2}
    Requests <- MCRequests
    Replaces = {}
    KeySets <- MCKeySets
    InCap = 1
    OutCap = 1
    BusCap = 1
INVARIANTS TypeOK StoreInv MirrorConverges FeedIntact
PROPERTIES NoResurrection ImplementsFeed
