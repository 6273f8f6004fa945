---------------------------- MODULE DroneConfig ----------------------------
(* The tuning constants of main/config.h, under the names they have there,   *)
(* with the relations between them that the rest of the firmware relies on.  *)
(* Pulse widths are microseconds, angles are degrees.                        *)
EXTENDS Integers

CONSTANTS
    ESC_PWM_MIN_US,          \* lowest pulse the ESC driver will emit
    ESC_PWM_MAX_US,          \* highest pulse the ESC driver will emit
    ESC_PWM_FLIGHT_MAX_US,   \* ceiling of the pilot's throttle
    ESC_PWM_ARM_US,          \* the pulse that means "motor stopped"
    ESC_PWM_SPIN_US,         \* throttle at or below this keeps motors stopped
    THROTTLE_ACCEL_MIN,      \* throttle change per report, smallest deflection
    THROTTLE_ACCEL_MAX,      \* throttle change per report, full deflection
    STICK_MAX,               \* full stick deflection, raw counts
    STICK_DEADBAND,          \* raw deflections smaller than this read as zero
    ANGLE_SETPOINT_MAX,      \* pitch and roll demand at full deflection
    YAW_RATE_MAX,            \* yaw rate demand at full deflection
    PID_OUTPUT_LIMIT,        \* clamp on the output of every PID loop
    ANGLE_LIMIT_DEG          \* pitch or roll beyond this cuts the motors

ASSUME PwmAssumption ==
    /\ {ESC_PWM_MIN_US, ESC_PWM_MAX_US, ESC_PWM_FLIGHT_MAX_US,
        ESC_PWM_ARM_US, ESC_PWM_SPIN_US} \subseteq Nat
    /\ 0 < ESC_PWM_MIN_US
    /\ ESC_PWM_MIN_US <= ESC_PWM_ARM_US
    /\ ESC_PWM_ARM_US <= ESC_PWM_SPIN_US
    /\ ESC_PWM_SPIN_US < ESC_PWM_FLIGHT_MAX_US
    /\ ESC_PWM_FLIGHT_MAX_US <= ESC_PWM_MAX_US

ASSUME StickAssumption ==
    /\ STICK_MAX \in Nat \ {0}
    /\ STICK_DEADBAND \in Nat
    /\ THROTTLE_ACCEL_MIN \in Nat
    /\ THROTTLE_ACCEL_MAX \in Nat
    /\ THROTTLE_ACCEL_MIN <= THROTTLE_ACCEL_MAX
    /\ ANGLE_SETPOINT_MAX \in Nat
    /\ YAW_RATE_MAX \in Nat

ASSUME LimitAssumption ==
    /\ PID_OUTPUT_LIMIT \in Nat
    /\ ANGLE_LIMIT_DEG \in Nat

(* v held between lo and hi, as every clamp of the firmware does it.         *)
Clamp(v, lo, hi) == IF v < lo THEN lo ELSE IF v > hi THEN hi ELSE v
=============================================================================
