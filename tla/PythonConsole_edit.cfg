SPECIFICATION Spec
CONSTANTS
    g1 = g1
    g2 = g2
    MaxPackets = 2
    MaxStarts = 1
    MAX_POINTS = 2
    Broken = {}
    GainValues = {g1, g2}
    Reported <- SteadyReports
    NoGains = NoGains
CHECK_DEADLOCK FALSE
INVARIANTS
    SendsTheEdit
