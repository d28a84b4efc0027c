\* A client that stops reading: the daemon alone does not disconnect it.
SPECIFICATION ServerFairSpec
CONSTANTS
    Capacity = 2
    MaxEventId = 3
    MaxNid = 1
    Keys = {k}
    ChannelCapacity = 1
    Clients = {c1}
    Calls = {"publish"}
    RequestTypes = {"ping"}
    Limits = {2}
    Requests <- MCRequests
    Replaces = {0, 1}
    KeySets <- MCKeySets
    InCap = 1
    OutCap = 1
    BusCap = 1
PROPERTIES SlowClientsDisconnected
