----------------------------- MODULE FlightCore -----------------------------
(* The firmware's shared-memory core: the tasks of main/main.c that meet at  *)
(* imu_mutex and setpoint_mutex, from the state in which app_main has        *)
(* started them all.                                                         *)
(*                                                                           *)
(*   "imu"  imu_task        core 1, publishes the attitude                   *)
(*   "fc"   flight_ctrl_task core 1, the control loop, drives the ESCs       *)
(*   "bt"   the main task   core 0, runs every Bluepad32 callback            *)
(*   "tel"  telemetry_task  core 0, snapshots the state for the console      *)
(*                                                                           *)
(* Tasks on different cores really run in parallel, so every access to a     *)
(* shared global is a step of its own.  A take with timeout 0 fails exactly  *)
(* when the mutex is held; one with a timeout succeeds when the mutex is     *)
(* free and may expire whenever it is held by someone else.                  *)
(*                                                                           *)
(* Abstracted: the value a Kalman filter delivers is any member of           *)
(* Attitudes; the value a PID loop delivers is any triple of PidOutputs      *)
(* (pid_update clamps to PID_OUTPUT_LIMIT); the three PID states are reduced *)
(* to whether integral and prev_error are cleared.                           *)
EXTENDS FlightData, Sequences

CONSTANTS
    Devices,        \* gamepads that may connect
    Reports,        \* gamepad reports with X up that may arrive
    ClientSet,      \* whether a console has registered with telemetry.c
    FrameCap        \* saturation of the ghost counters of reports

ASSUME CoreAssumption ==
    /\ Reports \subseteq Report
    /\ ClientSet \in BOOLEAN
    /\ FrameCap \in Nat
    /\ ESC_PWM_ARM_US + THROTTLE_ACCEL_MAX * FrameCap >= ESC_PWM_FLIGHT_MAX_US

VARIABLES
    imu_mutex, setpoint_mutex,      \* the holder, or "free"
    g_att,                          \* g_pitch_deg, g_roll_deg, g_yaw_rate
    g_sp,                           \* g_throttle, g_*_sp, g_motors_killed
    pc,                             \* where each task is
    pos,                            \* the next field each task copies
    imu_new,                        \* what imu_task is about to publish
    bt_new, bt_event,               \* what a callback is to publish, and why
    snap_att, snap_sp,              \* the locals of the two reading tasks
    devs,                           \* Bluepad32's view of each gamepad
    s_connected, s_throttle_us,     \* statics of controller.c
    last_us, duty,                  \* esc.c's remembered pulses, LEDC duties
    s_m,                            \* telemetry.c's cached motor pulses
    pid,                            \* "reset" or "used"
    att_pub, sp_pub,                \* ghost: last complete publications
    frames,                         \* ghost: reports since the last kill
    pub_frames,                     \* ghost: frames when sp_pub was published
    late_kill, late_tilt            \* ghost: motor writes that came too late

sharedVars == <<imu_mutex, setpoint_mutex, g_att, g_sp>>
btVars == <<bt_new, bt_event, devs, s_connected, s_throttle_us>>
snapVars == <<snap_att, snap_sp>>
outVars == <<last_us, duty, s_m, pid>>
ghostVars == <<att_pub, sp_pub, frames, pub_frames, late_kill, late_tilt>>
vars == <<sharedVars, pc, pos, imu_new, btVars, snapVars, outVars, ghostVars>>

Tasks == {"imu", "fc", "bt", "tel"}
Readers == {"fc", "tel"}

(* The order in which the fields are copied, one assignment each.            *)
AttOrder == <<"pitch", "roll", "yaw_rate">>
SpOrder == <<"throttle", "pitch_sp", "roll_sp", "yaw_sp", "killed">>
KillOrder == <<"killed", "throttle", "pitch_sp", "roll_sp", "yaw_sp">>
TelOrder == <<"throttle", "pitch_sp", "roll_sp", "yaw_sp">>

(* telemetry_send does not look at g_motors_killed.                          *)
ReadOrder(r) == IF r = "tel" THEN TelOrder ELSE SpOrder
ReadFields(r) == IF r = "tel" THEN SpFields \ {"killed"} ELSE SpFields

Goto(t, label) == pc' = [pc EXCEPT ![t] = label]
FirstField(t) == pos' = [pos EXCEPT ![t] = 1]
NextField(t) == pos' = [pos EXCEPT ![t] = @ + 1]

Init ==
    /\ imu_mutex = "free"
    /\ setpoint_mutex = "free"
    /\ g_att = ZeroAtt
    /\ g_sp = IdleSp
    /\ pc = [t \in Tasks |-> "idle"]
    /\ pos = [t \in Tasks |-> 1]
    /\ imu_new = ZeroAtt
    /\ bt_new = IdleSp
    /\ bt_event = "report"
    /\ snap_att = [r \in Readers |-> ZeroAtt]
    /\ snap_sp = [r \in Readers |-> IdleSp]
    /\ devs = [d \in Devices |-> "absent"]
    /\ s_connected = 0
    /\ s_throttle_us = ESC_PWM_SPIN_US
    /\ last_us = AllArm
    /\ duty = [m \in Motors |-> us_to_duty(ESC_PWM_ARM_US)]
    /\ s_m = [m \in Motors |-> ESC_PWM_MIN_US]
    /\ pid = "reset"
    /\ att_pub = ZeroAtt
    /\ sp_pub = IdleSp
    /\ frames = FrameCap
    /\ pub_frames = FrameCap
    /\ late_kill = 0
    /\ late_tilt = 0

-----------------------------------------------------------------------------
(* imu_task.  A failed mpu6050_read goes back to sleep and changes nothing.  *)

ImuSample(a) ==
    /\ pc["imu"] = "idle"
    /\ imu_new' = a
    /\ Goto("imu", "try")
    /\ UNCHANGED <<sharedVars, pos, btVars, snapVars, outVars, ghostVars>>

(* Fault: the writer does not wait for the mutex.                            *)
ImuTakeUnguarded ==
    /\ pc["imu"] = "try"
    /\ imu_mutex' = "imu"
    /\ Goto("imu", "write")
    /\ UNCHANGED <<setpoint_mutex, g_att, g_sp, pos, imu_new, btVars,
                   snapVars, outVars, ghostVars>>

ImuTake ==
    /\ pc["imu"] = "try"
    /\ imu_mutex = "free"
    /\ imu_mutex' = "imu"
    /\ Goto("imu", "write")
    /\ UNCHANGED <<setpoint_mutex, g_att, g_sp, pos, imu_new, btVars,
                   snapVars, outVars, ghostVars>>

(* The try-lock failed: the sample is dropped.                               *)
ImuDrop ==
    /\ pc["imu"] = "try"
    /\ imu_mutex # "free"
    /\ Goto("imu", "idle")
    /\ imu_new' = ZeroAtt
    /\ UNCHANGED <<sharedVars, pos, btVars, snapVars, outVars, ghostVars>>

ImuWrite ==
    /\ pc["imu"] = "write"
    /\ pos["imu"] <= Len(AttOrder)
    /\ g_att' = [g_att EXCEPT ![AttOrder[pos["imu"]]] =
                                  imu_new[AttOrder[pos["imu"]]]]
    /\ NextField("imu")
    /\ UNCHANGED <<imu_mutex, setpoint_mutex, g_sp, pc, imu_new, btVars,
                   snapVars, outVars, ghostVars>>

ImuGive ==
    /\ pc["imu"] = "write"
    /\ pos["imu"] > Len(AttOrder)
    /\ imu_mutex' = "free"
    /\ Goto("imu", "idle")
    /\ FirstField("imu")
    /\ imu_new' = ZeroAtt
    /\ att_pub' = imu_new
    /\ late_tilt' = IF Level(imu_new) THEN 0 ELSE late_tilt
    /\ UNCHANGED <<setpoint_mutex, g_att, g_sp, btVars, snapVars, outVars,
                   sp_pub, frames, pub_frames, late_kill>>

-----------------------------------------------------------------------------
(* The two snapshots that flight_ctrl_task and telemetry_send take in turn.  *)
(* A wait that expires abandons the whole iteration; the locals of an        *)
(* iteration go back to their initial values when it ends.                   *)

EndIteration(r) ==
    /\ Goto(r, "idle")
    /\ snap_att' = [snap_att EXCEPT ![r] = ZeroAtt]
    /\ snap_sp' = [snap_sp EXCEPT ![r] = IdleSp]

Wake(r) ==
    /\ pc[r] = "idle"
    /\ r = "tel" => ClientSet
    /\ Goto(r, "take_imu")
    /\ UNCHANGED <<sharedVars, pos, imu_new, btVars, snapVars, outVars,
                   ghostVars>>

TakeImu(r) ==
    /\ pc[r] = "take_imu"
    /\ imu_mutex = "free"
    /\ imu_mutex' = r
    /\ Goto(r, "read_att")
    /\ UNCHANGED <<setpoint_mutex, g_att, g_sp, pos, imu_new, btVars,
                   snapVars, outVars, ghostVars>>

ReadAtt(r) ==
    /\ pc[r] = "read_att"
    /\ pos[r] <= Len(AttOrder)
    /\ snap_att' = [snap_att EXCEPT ![r][AttOrder[pos[r]]] =
                                        g_att[AttOrder[pos[r]]]]
    /\ NextField(r)
    /\ UNCHANGED <<sharedVars, pc, imu_new, btVars, snap_sp, outVars,
                   ghostVars>>

(* Fault: a reader goes on to the setpoints with imu_mutex in its hands.      *)
GiveImuLater(r) ==
    /\ pc[r] = "read_att"
    /\ pos[r] > Len(AttOrder)
    /\ Goto(r, "take_sp")
    /\ FirstField(r)
    /\ UNCHANGED <<sharedVars, imu_new, btVars, snapVars, outVars, ghostVars>>

GiveImu(r) ==
    /\ pc[r] = "read_att"
    /\ pos[r] > Len(AttOrder)
    /\ imu_mutex' = "free"
    /\ Goto(r, "take_sp")
    /\ FirstField(r)
    /\ UNCHANGED <<setpoint_mutex, g_att, g_sp, imu_new, btVars, snapVars,
                   outVars, ghostVars>>

(* Fault: a reader goes ahead although the mutex is held.                    *)
TakeSpUnguarded(r) ==
    /\ pc[r] = "take_sp"
    /\ setpoint_mutex' = r
    /\ Goto(r, "read_sp")
    /\ UNCHANGED <<imu_mutex, g_att, g_sp, pos, imu_new, btVars, snapVars,
                   outVars, ghostVars>>

TakeSp(r) ==
    /\ pc[r] = "take_sp"
    /\ setpoint_mutex = "free"
    /\ setpoint_mutex' = r
    /\ Goto(r, "read_sp")
    /\ UNCHANGED <<imu_mutex, g_att, g_sp, pos, imu_new, btVars, snapVars,
                   outVars, ghostVars>>

ReadSp(r) ==
    /\ pc[r] = "read_sp"
    /\ pos[r] <= Len(ReadOrder(r))
    /\ snap_sp' = [snap_sp EXCEPT ![r][ReadOrder(r)[pos[r]]] =
                                      g_sp[ReadOrder(r)[pos[r]]]]
    /\ NextField(r)
    /\ UNCHANGED <<sharedVars, pc, imu_new, btVars, snap_att, outVars,
                   ghostVars>>

GiveSp(r) ==
    /\ pc[r] = "read_sp"
    /\ pos[r] > Len(ReadOrder(r))
    /\ setpoint_mutex' = "free"
    /\ Goto(r, "act")
    /\ FirstField(r)
    /\ UNCHANGED <<imu_mutex, g_att, g_sp, imu_new, btVars, snapVars,
                   outVars, ghostVars>>

TakeTimeout(r) ==
    /\ \/ pc[r] = "take_imu" /\ imu_mutex # "free"
       \/ pc[r] = "take_sp" /\ setpoint_mutex # "free"
    /\ EndIteration(r)
    /\ UNCHANGED <<sharedVars, pos, imu_new, btVars, outVars, ghostVars>>

Snapshot(r) ==
    \/ Wake(r) \/ TakeImu(r) \/ ReadAtt(r) \/ GiveImu(r)
    \/ TakeSp(r) \/ ReadSp(r) \/ GiveSp(r)
    \/ TakeTimeout(r)

-----------------------------------------------------------------------------
(* flight_ctrl_task with its snapshot: stop the motors, or fly.              *)

(* The three conditions the iteration branches on, in their order.           *)
SeesKill == snap_sp["fc"]["killed"] # 0

(* Fault: the attitude is not looked at.                                     *)
SeesAnyAttitude == TRUE

SeesLevel == Level(snap_att["fc"])

(* Fault: the throttle comparison is off by one.                             *)
SeesThrottleAtSpin == snap_sp["fc"]["throttle"] >= ESC_PWM_SPIN_US

SeesThrottle == snap_sp["fc"]["throttle"] > ESC_PWM_SPIN_US

(* Fault: the motors are stopped with the PID state left as it was.          *)
StopMotorsOnly ==
    /\ last_us' = EscLast(AllArm)
    /\ duty' = EscDuty(last_us, duty, AllArm)
    /\ UNCHANGED <<pid, s_m>>

(* Fault: the PIDs are reset and the ESCs are forgotten.                     *)
ResetPidsOnly ==
    /\ pid' = "reset"
    /\ UNCHANGED <<last_us, duty, s_m>>

(* esc_set_all_us(ESC_PWM_ARM_US) and flight_controller_reset_integrals().   *)
StopMotors ==
    /\ last_us' = EscLast(AllArm)
    /\ duty' = EscDuty(last_us, duty, AllArm)
    /\ pid' = "reset"
    /\ UNCHANGED s_m

FcKilled ==
    /\ pc["fc"] = "act"
    /\ SeesKill
    /\ StopMotors
    /\ EndIteration("fc")
    /\ UNCHANGED <<sharedVars, pos, imu_new, btVars, ghostVars>>

FcAngleLimit ==
    /\ pc["fc"] = "act"
    /\ ~ SeesKill
    /\ ~ SeesLevel
    /\ StopMotors
    /\ EndIteration("fc")
    /\ UNCHANGED <<sharedVars, pos, imu_new, btVars, ghostVars>>

(* flight_controller_update with the throttle too low to spin the motors:    *)
(* it returns before the telemetry cache is refreshed.                       *)
FcLowThrottle ==
    /\ pc["fc"] = "act"
    /\ ~ SeesKill
    /\ SeesLevel
    /\ ~ SeesThrottle
    /\ StopMotors
    /\ EndIteration("fc")
    /\ UNCHANGED <<sharedVars, pos, imu_new, btVars, ghostVars>>

(* What FcFly does once its guards hold.                                     *)
DriveMotors(out) ==
    /\ LET motors == motor_mix(snap_sp["fc"]["throttle"],
                               out["pitch"], out["roll"], out["yaw"])
       IN  /\ last_us' = EscLast(motors)
           /\ duty' = EscDuty(last_us, duty, motors)
           /\ s_m' = motors
    /\ pid' = "used"

(* The ghosts count motor writes made after the command they rest on was     *)
(* withdrawn (late_kill) or the attitude they rest on left the limits        *)
(* (late_tilt), up to 2.                                                     *)
CountLateWrites ==
    /\ late_kill' = IF Spins(sp_pub) THEN 0 ELSE Clamp(late_kill + 1, 0, 2)
    /\ late_tilt' = IF Level(att_pub) THEN 0 ELSE Clamp(late_tilt + 1, 0, 2)
    /\ UNCHANGED <<att_pub, sp_pub, frames, pub_frames>>

(* flight_controller_update with the throttle high enough: mix, write to the *)
(* ESCs, refresh the telemetry cache.                                        *)
FcFly(out) ==
    /\ pc["fc"] = "act"
    /\ ~ SeesKill
    /\ SeesLevel
    /\ SeesThrottle
    /\ DriveMotors(out)
    /\ EndIteration("fc")
    /\ CountLateWrites
    /\ UNCHANGED <<sharedVars, pos, imu_new, btVars>>

(* telemetry_send hands its snapshot to sendto.                              *)
TelSend ==
    /\ pc["tel"] = "act"
    /\ EndIteration("tel")
    /\ UNCHANGED <<sharedVars, pos, imu_new, btVars, outVars, ghostVars>>

-----------------------------------------------------------------------------
(* Bluepad32 callbacks, one at a time: they all run on the main task.        *)

Connect(d) ==
    /\ pc["bt"] = "idle"
    /\ devs[d] = "absent"
    /\ devs' = [devs EXCEPT ![d] = "connected"]
    /\ s_connected' = 1
    /\ UNCHANGED <<sharedVars, pc, pos, imu_new, bt_new, bt_event,
                   s_throttle_us, snapVars, outVars, ghostVars>>

Ready(d) ==
    /\ pc["bt"] = "idle"
    /\ devs[d] = "connected"
    /\ devs' = [devs EXCEPT ![d] = "ready"]
    /\ UNCHANGED <<sharedVars, pc, pos, imu_new, bt_new, bt_event,
                   s_connected, s_throttle_us, snapVars, outVars, ghostVars>>

(* Fault: the throttle accumulator stays where it was.                       *)
KeepAccumulator == UNCHANGED s_throttle_us

ResetAccumulator == s_throttle_us' = ESC_PWM_ARM_US

(* on_disconnected up to its timed take.                                     *)
Disconnect(d) ==
    /\ pc["bt"] = "idle"
    /\ devs[d] # "absent"
    /\ devs' = [devs EXCEPT ![d] = "absent"]
    /\ s_connected' = 0
    /\ ResetAccumulator
    /\ bt_new' = KillSp
    /\ bt_event' = "disconnect"
    /\ frames' = 0
    /\ Goto("bt", "take")
    /\ UNCHANGED <<sharedVars, pos, imu_new, snapVars, outVars, att_pub, sp_pub,
                   pub_frames, late_kill, late_tilt>>

(* on_gamepad_data with the X button down, up to its try-lock.               *)
GamepadKill(d) ==
    /\ pc["bt"] = "idle"
    /\ devs[d] = "ready"
    /\ ResetAccumulator
    /\ bt_new' = KillSp
    /\ bt_event' = "x_button"
    /\ frames' = 0
    /\ Goto("bt", "take")
    /\ UNCHANGED <<sharedVars, pos, imu_new, devs, s_connected, snapVars,
                   outVars, att_pub, sp_pub, pub_frames, late_kill, late_tilt>>

(* on_gamepad_data with X up, up to its try-lock.                            *)
GamepadReport(d, r) ==
    /\ pc["bt"] = "idle"
    /\ devs[d] = "ready"
    /\ s_throttle_us' = accumulate_throttle(s_throttle_us, r.axis_y)
    /\ bt_new' = ReportSp(s_throttle_us', r)
    /\ bt_event' = "report"
    /\ frames' = Clamp(frames + 1, 0, FrameCap)
    /\ Goto("bt", "take")
    /\ UNCHANGED <<sharedVars, pos, imu_new, devs, s_connected, snapVars,
                   outVars, att_pub, sp_pub, pub_frames, late_kill, late_tilt>>

BtTake ==
    /\ pc["bt"] = "take"
    /\ setpoint_mutex = "free"
    /\ setpoint_mutex' = "bt"
    /\ Goto("bt", "write")
    /\ UNCHANGED <<imu_mutex, g_att, g_sp, pos, imu_new, btVars, snapVars,
                   outVars, ghostVars>>

(* The try-lock failed, or the 10 ms of on_disconnected ran out: nothing is  *)
(* published and nothing is retried.  The event "missed" remembers that it   *)
(* was a disconnect.                                                         *)
BtGiveUp ==
    /\ pc["bt"] = "take"
    /\ setpoint_mutex # "free"
    /\ Goto("bt", "idle")
    /\ bt_new' = IdleSp
    /\ bt_event' = IF bt_event = "disconnect" THEN "missed" ELSE bt_event
    /\ UNCHANGED <<sharedVars, pos, imu_new, devs, s_connected, s_throttle_us,
                   snapVars, outVars, ghostVars>>

(* Fault: on_disconnected forgets g_motors_killed.                           *)
BtOrderNoFlag ==
    IF bt_event = "x_button" THEN KillOrder
    ELSE <<"throttle", "pitch_sp", "roll_sp", "yaw_sp">>

(* The order of the assignments in the branch that is running.               *)
BtOrder == IF bt_event = "x_button" THEN KillOrder ELSE SpOrder

BtWrite ==
    /\ pc["bt"] = "write"
    /\ pos["bt"] <= Len(BtOrder)
    /\ g_sp' = [g_sp EXCEPT ![BtOrder[pos["bt"]]] = bt_new[BtOrder[pos["bt"]]]]
    /\ NextField("bt")
    /\ UNCHANGED <<imu_mutex, setpoint_mutex, g_att, pc, imu_new, btVars,
                   snapVars, outVars, ghostVars>>

BtGive ==
    /\ pc["bt"] = "write"
    /\ pos["bt"] > Len(BtOrder)
    /\ setpoint_mutex' = "free"
    /\ Goto("bt", "idle")
    /\ FirstField("bt")
    /\ bt_new' = IdleSp
    /\ sp_pub' = bt_new
    /\ pub_frames' = frames
    /\ late_kill' = IF Spins(bt_new) THEN 0 ELSE late_kill
    /\ UNCHANGED <<imu_mutex, g_att, g_sp, imu_new, bt_event, devs,
                   s_connected, s_throttle_us, snapVars, outVars,
                   att_pub, frames, late_tilt>>

-----------------------------------------------------------------------------
ImuTask ==
    \/ \E a \in Attitudes : ImuSample(a)
    \/ ImuTake \/ ImuDrop \/ ImuWrite \/ ImuGive

FcTask ==
    \/ Snapshot("fc")
    \/ FcKilled \/ FcAngleLimit \/ FcLowThrottle
    \/ \E out \in PidOutputs : FcFly(out)

TelTask == Snapshot("tel") \/ TelSend

(* What Bluepad32 may deliver next, and the callback carrying on.            *)
Bluepad ==
    \E d \in Devices :
        \/ Connect(d) \/ Ready(d) \/ Disconnect(d) \/ GamepadKill(d)
        \/ \E r \in Reports : GamepadReport(d, r)

Callback == BtTake \/ BtGiveUp \/ BtWrite \/ BtGive

Next == ImuTask \/ FcTask \/ TelTask \/ Bluepad \/ Callback

Spec == Init /\ [][Next]_vars

-----------------------------------------------------------------------------
(* Safety.                                                                   *)

Labels == {"idle", "try", "take", "write", "take_imu", "read_att", "take_sp",
           "read_sp", "act"}

(* Every variable of the core stays in its type: in particular the throttle  *)
(* accumulator of controller.c and the pulses of esc.c stay within the PWM   *)
(* limits of config.h whatever reports and PID outputs arrive.               *)
TypeOK ==
    /\ imu_mutex \in {"free", "imu", "fc", "tel"}
    /\ setpoint_mutex \in {"free", "bt", "fc", "tel"}
    /\ g_att \in Attitude
    /\ g_sp \in Setpoint
    /\ pc \in [Tasks -> Labels]
    /\ pos \in [Tasks -> 1 .. 6]
    /\ imu_new \in Attitude
    /\ bt_new \in Setpoint
    /\ bt_event \in {"report", "x_button", "disconnect", "missed"}
    /\ snap_att \in [Readers -> Attitude]
    /\ snap_sp \in [Readers -> Setpoint]
    /\ devs \in [Devices -> {"absent", "connected", "ready"}]
    /\ s_connected \in {0, 1}
    /\ s_throttle_us \in ESC_PWM_MIN_US .. ESC_PWM_FLIGHT_MAX_US
    /\ last_us \in [Motors -> ESC_PWM_MIN_US .. ESC_PWM_MAX_US]
    /\ duty \in [Motors -> Nat]
    /\ s_m \in [Motors -> ESC_PWM_MIN_US .. ESC_PWM_MAX_US]
    /\ pid \in {"reset", "used"}
    /\ att_pub \in Attitude
    /\ sp_pub \in Setpoint
    /\ frames \in 0 .. FrameCap
    /\ pub_frames \in 0 .. FrameCap
    /\ late_kill \in 0 .. 2
    /\ late_tilt \in 0 .. 2

(* main.c, "Protected by imu_mutex so reads are never torn", and the same    *)
(* for setpoint_mutex: a reading task that has copied every field holds one  *)
(* whole publication of the writer, never a mixture of two.                  *)
WholeSnapshots ==
    \A r \in Readers :
        /\ pc[r] = "read_att" /\ pos[r] > Len(AttOrder)
             => snap_att[r] = att_pub
        /\ pc[r] = "read_sp" /\ pos[r] > Len(ReadOrder(r))
             => \A f \in ReadFields(r) : snap_sp[r][f] = sp_pub[f]

(* Once a command that stops the motors (a kill, or a throttle at or below   *)
(* ESC_PWM_SPIN_US) is published, flight_ctrl_task drives the motors at most *)
(* one more time before a spinning command is published again: only the      *)
(* iteration that had already copied the old command.                        *)
KillIsPrompt == late_kill <= 1

(* Once an attitude beyond ANGLE_LIMIT_DEG is published, flight_ctrl_task    *)
(* drives the motors at most one more time before a level one is published.  *)
TiltIsPrompt == late_tilt <= 1

(* controller.c, "Reset throttle accumulator too so it doesn't resume        *)
(* mid-value": the published throttle never exceeds what the reports that    *)
(* came between the last kill before its publication, by whichever gamepad,  *)
(* and that publication can add to ESC_PWM_ARM_US.  A kill counts although   *)
(* its own publication was dropped.                                          *)
RampAfterKill ==
    sp_pub["throttle"] <= ESC_PWM_ARM_US + THROTTLE_ACCEL_MAX * pub_frames

(* The same at the ESCs: motors that stand start only on a command for which *)
(* enough reports came after a kill to lift the throttle from ESC_PWM_ARM_US *)
(* over ESC_PWM_SPIN_US.  The one exception is the iteration of              *)
(* flight_ctrl_task that had copied its command before the kill.             *)
SpinUpIsEarned ==
    [][last_us = AllArm /\ last_us' # AllArm
          => \/ ESC_PWM_ARM_US + THROTTLE_ACCEL_MAX * pub_frames > ESC_PWM_SPIN_US
             \/ late_kill' = 1]_vars

(* Demands within the limits of config.h, in the units of Controller.        *)
Within(v, bound) == -bound <= v /\ v <= bound

InRange(s) ==
    /\ ESC_PWM_MIN_US <= s["throttle"] /\ s["throttle"] <= ESC_PWM_FLIGHT_MAX_US
    /\ Within(s["pitch_sp"], ANGLE_SETPOINT_MAX * STICK_MAX)
    /\ Within(s["roll_sp"], ANGLE_SETPOINT_MAX * STICK_MAX)
    /\ Within(s["yaw_sp"], YAW_RATE_MAX * STICK_MAX)

(* From the stick through the accumulator, the publication and the copy:     *)
(* what flight_ctrl_task acts on is a throttle within the pilot's limits and *)
(* angles and a yaw rate no larger than config.h allows at full deflection,  *)
(* the raw value -STICK_MAX included, which has no positive counterpart.     *)
DemandsInRange == \A r \in Readers : InRange(snap_sp[r])

(* A motor is given at most the pilot's ceiling and the full output of all   *)
(* three loops.  With the values of config.h that is 1300 + 3 * 100 =        *)
(* ESC_PWM_MAX_US, so the upper clamps of motor_mix.c and esc.c never cut a  *)
(* correction off and the drone keeps its full authority at full throttle.   *)
HeadroomKept ==
    \A m \in Motors :
        last_us[m] <= ESC_PWM_FLIGHT_MAX_US + 3 * PID_OUTPUT_LIMIT

(* main.c takes one mutex at a time: a task that holds imu_mutex or          *)
(* setpoint_mutex is never at a take, so nobody waits for a task that waits. *)
HoldersDoNotWait ==
    \A t \in Tasks :
        t \in {imu_mutex, setpoint_mutex}
            => pc[t] \notin {"try", "take", "take_imu", "take_sp"}

(* main.c, "so windup doesn't cause a jump on spool-up": whenever all four   *)
(* motors are stopped the PID loops are in their reset state.                *)
StoppedMeansReset == last_us = AllArm => pid = "reset"

(* esc_set_us skips the LEDC peripheral when the pulse has not changed; the  *)
(* duty in the peripheral still always is the one of the remembered pulse.   *)
DutyFollowsPulse == \A m \in Motors : duty[m] = us_to_duty(last_us[m])

(* on_disconnected, "Safe the drone on disconnect": when the callback is     *)
(* over the kill is in force unless its 10 ms take expired.                  *)
DisconnectSafes ==
    pc["bt"] = "idle" /\ bt_event = "disconnect"
        => g_sp = KillSp

(* The refinement: the ghosts are the atomic attitude and command, and what  *)
(* flight_ctrl_task has copied becomes what the abstract loop saw when the   *)
(* mutex is given back.                                                      *)
FcPhase ==
    CASE pc["fc"] \in {"take_sp", "read_sp"} -> "attitude"
      [] pc["fc"] = "act" -> "command"
      [] OTHER -> "rest"

Atomic == INSTANCE AtomicFlight WITH
    att <- att_pub,
    cmd <- sp_pub,
    phase <- FcPhase,
    seen_att <- IF FcPhase = "rest" THEN ZeroAtt ELSE snap_att["fc"],
    seen_cmd <- IF FcPhase = "command" THEN snap_sp["fc"] ELSE IdleSp,
    pulse <- last_us

(* Field by field copies under two mutexes, by tasks on two cores, implement *)
(* the atomic control loop of AtomicFlight.                                  *)
AtomicSpec == Atomic!ASpec

-----------------------------------------------------------------------------
(* Liveness.  Every task is scheduled and a callback that has started        *)
(* finishes.  Waits of flight_ctrl_task for a mutex may expire again and     *)
(* again, but then there also is, again and again, an iteration that gets    *)
(* both mutexes: 2 ms are ample for critical sections of a few assignments,  *)
(* and FreeRTOS mutexes lend the holder the waiter's priority.  Nothing      *)
(* makes gamepads act, the sensor deliver or a try-lock succeed.             *)
Fairness ==
    /\ WF_vars(ImuTake \/ ImuDrop \/ ImuWrite \/ ImuGive)
    /\ WF_vars(FcTask)
    /\ WF_vars(TelTask)
    /\ WF_vars(Callback)
    /\ []<><<TakeTimeout("fc")>>_vars => []<><<GiveSp("fc")>>_vars

FairSpec == Spec /\ Fairness

MotorsStopped == last_us = AllArm

(* A kill that stays published stops the motors, however many iterations of  *)
(* the control loop are abandoned on the way.                                *)
KillStops == sp_pub["killed"] = 1 ~> MotorsStopped \/ sp_pub["killed"] = 0

(* config.h, "If the drone exceeds these angles the motors are killed": the  *)
(* motors stop unless the attitude comes back within the limits.             *)
TiltStops == ~ Level(att_pub) ~> MotorsStopped \/ Level(att_pub)

-----------------------------------------------------------------------------
(* What the repository says of itself and the code does not keep.            *)

(* controller.c logs "FAILSAFE - X button pressed, motors killed" whenever   *)
(* the X branch of on_gamepad_data ends.                                     *)
KillButtonKills ==
    pc["bt"] = "idle" /\ bt_event = "x_button" => g_sp["killed"] = 1

(* controller.c, on_disconnected, "Safe the drone on disconnect": when the   *)
(* last gamepad is gone the motors stop unless one connects again.           *)
LossStops ==
    (\A d \in Devices : devs[d] = "absent")
        ~> MotorsStopped \/ \E d \in Devices : devs[d] # "absent"
=============================================================================
