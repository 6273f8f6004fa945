SPECIFICATION FairSpec
CONSTANTS
    MaxPending = 5
    MaxEvents = 3
CHECK_DEADLOCK TRUE
INVARIANTS
    TauriTypeOK
    PortReleased
    RunningIsShown
PROPERTIES
    JoinProgress
    StopReturns
    ConnectingEnds
