\* Two daemons, standalone or activated, with three disturbances.
\* No deadlock check: with the faults used up, everybody may be waiting.
SPECIFICATION FairSpec
CONSTANTS
    Daemons = {d1, d2}
    Clients = {c1, c2}
    None = None
    Stale = Stale
    Other = Other
    Unit = Unit
    MaxFaults = 3
INVARIANTS OneInstance
PROPERTIES EndpointRespected ServiceNeverUnlinks NoDeadSocketLeft RestartServes WaitingClientServed
CHECK_DEADLOCK FALSE
