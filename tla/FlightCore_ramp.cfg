SPECIFICATION Spec
CONSTANTS
    ESC_PWM_MIN_US = 1000
    ESC_PWM_MAX_US = 1080
    ESC_PWM_FLIGHT_MAX_US = 1006
    ESC_PWM_ARM_US = 1000
    ESC_PWM_SPIN_US = 1003
    THROTTLE_ACCEL_MIN = 1
    THROTTLE_ACCEL_MAX = 2
    STICK_MAX = 512
    STICK_DEADBAND = 20
    ANGLE_SETPOINT_MAX = 20
    YAW_RATE_MAX = 90
    PID_OUTPUT_LIMIT = 20
    ANGLE_LIMIT_DEG = 45
    Devices = {pad1, pad2}
    Reports <- ThreeReports
    Attitudes <- NoAttitudes
    PidOutputs <- BigOutputs
    ClientSet = FALSE
    FrameCap = 3
SYMMETRY PadSymmetry
CHECK_DEADLOCK TRUE
INVARIANTS
    HeadroomKept
    RampAfterKill
    KillIsPrompt
    DutyFollowsPulse
PROPERTIES
    SpinUpIsEarned
