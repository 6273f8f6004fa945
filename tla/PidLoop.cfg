SPECIFICATION Spec
CONSTANTS
    CLOCK_MOD = 24
    TICKS_PER_S = 100
    DT_MAX = 10
    DT_DEFAULT = 1
    INTEGRAL_LIMIT = 24
    OUTPUT_LIMIT = 5
    ERR_MAX = 2
    Errors <- ThreeErrors
    GainSets <- OneGains
    Delays = {1, 10, 11}
    BootTimes = {1}
    TIME_CAP = 20
CHECK_DEADLOCK TRUE
INVARIANTS
    PidTypeOK
    DtIsElapsed
    NoWindup
PROPERTIES
    FirstPushAgrees
