\* Notifications replaced, closed and acted on beside a socket client, with
\* both identifier spaces running out and signals queueing up.
SPECIFICATION Spec
CONSTANTS
    Capacity = 2
    MaxEventId = 3
    MaxNid = 2
    Keys = {k}
    ChannelCapacity = 2
    Clients = {c1}
    Calls = {"notify", "close"}
    RequestTypes = {"recent", "action"}
    Limits = {2}
    Requests <- MCRequests
    Replaces = {0, 1, 2}
    KeySets <- MCKeySets
    InCap = 1
    OutCap = 1
    BusCap = 2
INVARIANTS TypeOK OneActivePerEvent SignalsInOrder ActionsNeverGoBack
PROPERTIES ActionableOnlyNewest FreshIdNeverHijacks ImplementsBusFeed
