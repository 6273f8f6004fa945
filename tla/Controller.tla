----------------------------- MODULE Controller -----------------------------
(* What components/controller/controller.c computes from one gamepad report. *)
(* The C code uses floats whose only division is by STICK_MAX = 512, a power *)
(* of two, so the same values are exact integers in units of 1/STICK_MAX.    *)
EXTENDS DroneConfig

(* Raw stick positions as Bluepad32 reports them.                            *)
RawAxis == -STICK_MAX .. (STICK_MAX - 1)

(* A report with the X button up, reduced to the four axes that are used.    *)
Report == [axis_y : RawAxis, axis_ry : RawAxis,
           axis_rx : RawAxis, axis_x : RawAxis]

apply_deadband(raw) ==
    IF -STICK_DEADBAND < raw /\ raw < STICK_DEADBAND THEN 0 ELSE raw

Magnitude(v) == IF v < 0 THEN -v ELSE v

(* The (int) truncation of MIN + fraction * (MAX - MIN), fraction being the  *)
(* deflection over STICK_MAX.                                                *)
ThrottleRate(val) ==
    THROTTLE_ACCEL_MIN
      + (Magnitude(val) * (THROTTLE_ACCEL_MAX - THROTTLE_ACCEL_MIN))
            \div STICK_MAX

(* Fault: the accumulator is not clamped.                                    *)
accumulate_unclamped(us, raw) ==
    LET val == apply_deadband(-raw)
    IN  IF val = 0 THEN us
        ELSE IF val > 0 THEN us + ThrottleRate(val) ELSE us - ThrottleRate(val)

(* Fault: the accumulator goes up to the ESC's limit, not to the pilot's.     *)
accumulate_to_esc_max(us, raw) ==
    LET val == apply_deadband(-raw)
    IN  IF val = 0
        THEN us
        ELSE Clamp(IF val > 0 THEN us + ThrottleRate(val)
                              ELSE us - ThrottleRate(val),
                   ESC_PWM_MIN_US, ESC_PWM_MAX_US)

(* The new accumulator from the old one: up is negative on the raw axis, and *)
(* a centred stick holds the value without clamping it.                      *)
accumulate_throttle(us, raw) ==
    LET val == apply_deadband(-raw)
    IN  IF val = 0
        THEN us
        ELSE Clamp(IF val > 0 THEN us + ThrottleRate(val)
                              ELSE us - ThrottleRate(val),
                   ESC_PWM_MIN_US, ESC_PWM_FLIGHT_MAX_US)

(* Fault: the deflection is measured from the edge of the deadband.          *)
normalize_angle_stretched(raw) ==
    (apply_deadband(raw) * ANGLE_SETPOINT_MAX * STICK_MAX)
        \div (STICK_MAX - STICK_DEADBAND)

(* Demands in units of 1/STICK_MAX degree (per second).                      *)
normalize_angle(raw) == apply_deadband(raw) * ANGLE_SETPOINT_MAX

normalize_yaw(raw) == apply_deadband(raw) * YAW_RATE_MAX
=============================================================================
