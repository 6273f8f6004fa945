SPECIFICATION Spec
CONSTANTS
    ESC_PWM_MIN_US = 1000
    ESC_PWM_MAX_US = 1004
    ESC_PWM_FLIGHT_MAX_US = 1002
    ESC_PWM_ARM_US = 1000
    ESC_PWM_SPIN_US = 1001
    THROTTLE_ACCEL_MIN = 1
    THROTTLE_ACCEL_MAX = 2
    STICK_MAX = 512
    STICK_DEADBAND = 20
    ANGLE_SETPOINT_MAX = 20
    YAW_RATE_MAX = 90
    PID_OUTPUT_LIMIT = 2
    ANGLE_LIMIT_DEG = 45
    Devices = {pad1}
    Reports <- TwoReports
    Attitudes <- TwoAttitudes
    PidOutputs <- OneOutput
    ClientSet = FALSE
    FrameCap = 1
CHECK_DEADLOCK TRUE
INVARIANTS
    KillButtonKills
