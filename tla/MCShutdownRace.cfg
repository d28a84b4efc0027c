\* One daemon is told to stop while another one is started.
SPECIFICATION Spec
CONSTANTS
    Daemons = {d1, d2}
    Clients = {}
    None = None
    Stale = Stale
    Other = Other
    Unit = Unit
    MaxFaults = 1
PROPERTIES RemovesOnlyItsOwn
CHECK_DEADLOCK FALSE
