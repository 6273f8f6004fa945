----------------------------- MODULE MotorOutput -----------------------------
(* The last stage of the control loop as operators: motor_mix.c turns a      *)
(* throttle and three PID outputs into four pulse widths, esc.c turns a      *)
(* pulse width into a PWM duty.  PID outputs are fractions of a microsecond, *)
(* in units of 1/OUT_SCALE.                                                  *)
EXTENDS DroneConfig

Motors == {"FL", "FR", "RL", "RR"}

PERIOD_US == 20000
MAX_DUTY == 65535

(* The clamp shared by clamp_us, us_to_duty and esc_set_us.                  *)
clamp_us(v) == Clamp(v, ESC_PWM_MIN_US, ESC_PWM_MAX_US)

OUT_SCALE == 10

(* The whole microseconds of a correction.  The throttle is whole, and what  *)
(* is below ESC_PWM_MIN_US is clamped before it is cast, so the truncation   *)
(* in clamp_us rounds the correction down whatever its sign.                 *)
Whole(correction) == correction \div OUT_SCALE

motor_mix(t, pitch, roll, yaw) ==
    [m \in Motors |->
        clamp_us(t + Whole(CASE m = "FL" -> pitch + roll - yaw
                             [] m = "FR" -> pitch - roll + yaw
                             [] m = "RL" -> roll + yaw - pitch
                             [] m = "RR" -> -(pitch + roll + yaw)))]

us_to_duty(us) == (clamp_us(us) * MAX_DUTY) \div PERIOD_US

(* esc_set_us on every motor, given the requested pulses: the remembered     *)
(* pulse and the duty in the LEDC peripheral.  A pulse equal to the          *)
(* remembered one returns before the peripheral is touched.                  *)
EscLast(pulses) == [m \in Motors |-> clamp_us(pulses[m])]

(* Fault: small changes are skipped too, although the pulse is remembered.   *)
EscDutyCoarse(last, duty, pulses) ==
    [m \in Motors |-> IF clamp_us(pulses[m]) - last[m] \in -2 .. 2
                      THEN duty[m]
                      ELSE us_to_duty(clamp_us(pulses[m]))]

EscDuty(last, duty, pulses) ==
    [m \in Motors |-> IF last[m] = clamp_us(pulses[m])
                      THEN duty[m]
                      ELSE us_to_duty(clamp_us(pulses[m]))]

AllArm == [m \in Motors |-> ESC_PWM_ARM_US]
=============================================================================
