\* A client that goes on reading while it keeps sending requests.
SPECIFICATION FairSpec
CONSTANTS
    Capacity = 2
    MaxEventId = 3
    MaxNid = 1
    Keys = {}
    ChannelCapacity = 2
    Clients = {c1}
    Calls = {"publish"}
    RequestTypes = {"ping", "dismiss", "bad"}
    Limits = {2}
    Requests <- MCRequests
    Replaces = {}
    KeySets <- MCKeySets
    InCap = 1
    OutCap = 1
    BusCap = 1
PROPERTIES UpdatesReachReaders
