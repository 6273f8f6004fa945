----------------------------- MODULE FlightData -----------------------------
(* The two records the tasks of main/main.c exchange, as functions of their  *)
(* fields: the attitude (g_pitch_deg, g_roll_deg, g_yaw_rate) and the        *)
(* setpoints (g_throttle, g_pitch_sp, g_roll_sp, g_yaw_sp, g_motors_killed). *)
EXTENDS Controller, MotorOutput

CONSTANTS
    Attitudes,      \* attitudes the Kalman filters may deliver
    PidOutputs      \* [pitch, roll, yaw] outputs the PID loops may deliver

AttFields == {"pitch", "roll", "yaw_rate"}
SpFields == {"throttle", "pitch_sp", "roll_sp", "yaw_sp", "killed"}
Attitude == [AttFields -> Int]
Setpoint == [SpFields -> Int]

ASSUME DataAssumption ==
    /\ Attitudes \subseteq Attitude
    /\ PidOutputs \subseteq [{"pitch", "roll", "yaw"} ->
            -(PID_OUTPUT_LIMIT * OUT_SCALE) .. (PID_OUTPUT_LIMIT * OUT_SCALE)]

ZeroAtt == [f \in AttFields |-> 0]

(* The initial globals and the initial locals of flight_ctrl_task.           *)
IdleSp == [f \in SpFields |-> IF f = "throttle" THEN ESC_PWM_ARM_US ELSE 0]

(* What on_disconnected and the X button publish.                            *)
KillSp == [f \in SpFields |-> CASE f = "throttle" -> ESC_PWM_ARM_US
                                [] f = "killed" -> 1
                                [] OTHER -> 0]

(* The setpoints of a normal report, given the accumulated throttle.         *)
ReportSp(thr, r) ==
    [f \in SpFields |->
        CASE f = "throttle" -> thr
          [] f = "pitch_sp" -> normalize_angle(-r.axis_ry)
          [] f = "roll_sp"  -> normalize_angle(r.axis_rx)
          [] f = "yaw_sp"   -> normalize_yaw(r.axis_x)
          [] f = "killed"   -> 0]

(* Attitudes inside the limits, and commands that let the motors turn.       *)
Level(a) ==
    /\ -ANGLE_LIMIT_DEG <= a["pitch"] /\ a["pitch"] <= ANGLE_LIMIT_DEG
    /\ -ANGLE_LIMIT_DEG <= a["roll"] /\ a["roll"] <= ANGLE_LIMIT_DEG

Spins(s) == s["killed"] = 0 /\ s["throttle"] > ESC_PWM_SPIN_US
=============================================================================
