\* A socket client dismisses an event: D-Bus listeners are not told.
SPECIFICATION Spec
CONSTANTS
    Capacity = 2
    MaxEventId = 2
    MaxNid = 1
    Keys = {k}
    ChannelCapacity = 1
    Clients = {c1}
    Calls = {"publish", "dismiss", "clear"}
    RequestTypes = {"dismiss", "clear"}
    Limits = {2}
    Requests <- MCRequests
    Replaces = {0, 1}
    KeySets <- MCKeySets
    InCap = 1
    OutCap = 1
    BusCap = 1
PROPERTIES RemovalsSignalled
