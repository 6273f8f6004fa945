SPECIFICATION FairSpec
CONSTANTS
    g1 = g1
    g2 = g2
    MaxPackets = 6
    MaxStarts = 3
    MAX_POINTS = 2
    Broken = {2, 5}
    GainValues = {g1}
    Reported <- SteadyReports
    NoGains = NoGains
CHECK_DEADLOCK FALSE
INVARIANTS
    DisplayCatchesUp
    ConsoleTypeOK
    HistoriesAgree
PROPERTIES
    ShownInOrder
    PacketsShown
