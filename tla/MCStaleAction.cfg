\* An action asked for from a replaced event.
SPECIFICATION Spec
CONSTANTS
    Capacity = 2
    MaxEventId = 2
    MaxNid = 2
    Keys = {k}
    ChannelCapacity = 1
    Clients = {c1}
    Calls = {"notify", "close"}
    RequestTypes = {"action"}
    Limits = {2}
    Requests <- MCRequests
    Replaces = {0, 1}
    KeySets <- MCKeySets
    InCap = 1
    OutCap = 1
    BusCap = 1
PROPERTIES StaleActionsRejected
