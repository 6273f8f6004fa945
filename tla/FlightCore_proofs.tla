------------------------- MODULE FlightCore_proofs -------------------------
EXTENDS FlightCore, TLAPS

USE DEF AttFields, SpFields, Tasks, Readers

-----------------------------------------------------------------------------
(* The inductive invariant, in parts that build on each other.               *)

(* Each task is at one of its own labels, and is at the label of a critical  *)
(* section exactly when it holds the mutex of that section.                  *)
MutexInv ==
    /\ pc["imu"] \in {"idle", "try", "write"}
    /\ pc["bt"] \in {"idle", "take", "write"}
    /\ \A r \in Readers : pc[r] \in {"idle", "take_imu", "read_att", "take_sp",
                                     "read_sp", "act"}
    /\ (imu_mutex = "imu") <=> (pc["imu"] = "write")
    /\ (setpoint_mutex = "bt") <=> (pc["bt"] = "write")
    /\ \A r \in Readers : /\ (imu_mutex = r) <=> (pc[r] = "read_att")
                          /\ (setpoint_mutex = r) <=> (pc[r] = "read_sp")

(* The fields copied before position i.                                      *)
Done(order, i) == {order[j] : j \in 1 .. (i - 1)}

(* Outside the critical section of the writer the globals are the last       *)
(* publication; inside it the fields already written are the new ones.       *)
GlobalInv ==
    /\ pc["imu"] # "write" => g_att = att_pub /\ pos["imu"] = 1
    /\ pc["imu"] = "write" =>
          /\ pos["imu"] \in 1 .. 4
          /\ \A f \in Done(AttOrder, pos["imu"]) : g_att[f] = imu_new[f]
    /\ pc["bt"] # "write" => g_sp = sp_pub /\ pos["bt"] = 1
    /\ pc["bt"] = "write" =>
          \A f \in Done(BtOrder, pos["bt"]) : g_sp[f] = bt_new[f]

(* A reader inside a critical section has copied the fields of the globals.  *)
SnapInv ==
    \A r \in Readers :
        /\ pc[r] \notin {"read_att", "read_sp"} => pos[r] = 1
        /\ pc[r] = "read_att" =>
              /\ pos[r] \in 1 .. 4
              /\ \A f \in Done(AttOrder, pos[r]) : snap_att[r][f] = g_att[f]
        /\ pc[r] = "read_sp" =>
              /\ pos[r] \in 1 .. (Len(ReadOrder(r)) + 1)
              /\ \A f \in Done(ReadOrder(r), pos[r]) : snap_sp[r][f] = g_sp[f]

CopyInv == GlobalInv /\ SnapInv

(* The throttle n reports can reach from the bottom.                         *)
Reachable(n) == ESC_PWM_ARM_US + THROTTLE_ACCEL_MAX * n

(* What a callback is about to publish is a kill or a command in range that  *)
(* the reports since the last kill can account for; and the reports counted  *)
(* at its publication account for the command in force.                      *)
CommandInv ==
    /\ pc["bt"] # "idle" =>
         /\ bt_event \in {"x_button", "disconnect"} =>
               /\ bt_new = KillSp
               /\ s_throttle_us = ESC_PWM_ARM_US
         /\ bt_event \notin {"x_button", "disconnect"} =>
               /\ bt_new["killed"] = 0
               /\ bt_new["throttle"] = s_throttle_us
    /\ s_throttle_us <= Reachable(frames)
    /\ sp_pub["throttle"] <= Reachable(pub_frames)

(* While the published command or attitude allows flight nothing is late;    *)
(* nor is the iteration that copied it before it was withdrawn.              *)
LateInv ==
    /\ late_kill <= 1
    /\ late_tilt <= 1
    /\ Spins(sp_pub) => late_kill = 0
    /\ Level(att_pub) => late_tilt = 0
    /\ pc["fc"] = "act" /\ Spins(snap_sp["fc"]) => late_kill = 0
    /\ pc["fc"] \in {"take_sp", "read_sp", "act"} /\ Level(snap_att["fc"])
          => late_tilt = 0

OutputInv == StoppedMeansReset /\ DutyFollowsPulse

(* A disconnect callback that went all the way published the kill.           *)
LossInv == pc["bt"] = "idle" /\ bt_event = "disconnect" => sp_pub = KillSp

-----------------------------------------------------------------------------
LEMMA ClampRange ==
    ASSUME NEW v \in Int, NEW lo \in Int, NEW hi \in Int, lo <= hi
    PROVE  Clamp(v, lo, hi) \in lo .. hi
  BY DEF Clamp

LEMMA RateIsNat ==
    ASSUME NEW val \in Int
    PROVE  ThrottleRate(val) \in Nat
  <1>1. Magnitude(val) \in Nat
    BY DEF Magnitude
  <1>2. Magnitude(val) * (THROTTLE_ACCEL_MAX - THROTTLE_ACCEL_MIN) \in Nat
    BY <1>1, StickAssumption
  <1>3. QED
    BY <1>2, StickAssumption DEF ThrottleRate

LEMMA AccumulatorRange ==
    ASSUME NEW us \in ESC_PWM_MIN_US .. ESC_PWM_FLIGHT_MAX_US, NEW raw \in Int
    PROVE  accumulate_throttle(us, raw)
              \in ESC_PWM_MIN_US .. ESC_PWM_FLIGHT_MAX_US
  <1>1. apply_deadband(-raw) \in Int
    BY DEF apply_deadband
  <1>2. ThrottleRate(apply_deadband(-raw)) \in Nat
    BY <1>1, RateIsNat
  <1>3. us \in Int /\ ESC_PWM_MIN_US \in Int /\ ESC_PWM_FLIGHT_MAX_US \in Int
        /\ ESC_PWM_MIN_US <= ESC_PWM_FLIGHT_MAX_US
    BY PwmAssumption
  <1> DEFINE val == apply_deadband(-raw)
             sum == IF val > 0 THEN us + ThrottleRate(val)
                               ELSE us - ThrottleRate(val)
  <1>4. sum \in Int
    BY <1>1, <1>2, <1>3
  <1>5. Clamp(sum, ESC_PWM_MIN_US, ESC_PWM_FLIGHT_MAX_US)
              \in ESC_PWM_MIN_US .. ESC_PWM_FLIGHT_MAX_US
    BY <1>3, <1>4, ClampRange
  <1>6. QED
    BY <1>5 DEF accumulate_throttle

LEMMA DataTypes ==
    /\ ZeroAtt \in Attitude
    /\ IdleSp \in Setpoint
    /\ KillSp \in Setpoint
    /\ AllArm \in [Motors -> ESC_PWM_MIN_US .. ESC_PWM_MAX_US]
  <1>1. ZeroAtt \in Attitude
    BY DEF ZeroAtt, Attitude
  <1>2. IdleSp \in Setpoint
    BY PwmAssumption DEF IdleSp, Setpoint
  <1>3. KillSp \in Setpoint
    BY PwmAssumption DEF KillSp, Setpoint
  <1>4. AllArm \in [Motors -> ESC_PWM_MIN_US .. ESC_PWM_MAX_US]
    BY PwmAssumption DEF AllArm
  <1>5. QED
    BY <1>1, <1>2, <1>3, <1>4

LEMMA ReportSpType ==
    ASSUME NEW thr \in Int, NEW r \in Reports
    PROVE  /\ ReportSp(thr, r) \in Setpoint
           /\ ReportSp(thr, r)["throttle"] = thr
           /\ ReportSp(thr, r)["killed"] = 0
  <1>1. r.axis_y \in Int /\ r.axis_ry \in Int /\ r.axis_rx \in Int
        /\ r.axis_x \in Int
    BY CoreAssumption, StickAssumption DEF Report, RawAxis
  <1>2. \A raw \in Int : apply_deadband(raw) \in Int
    BY DEF apply_deadband
  <1>3. \A raw \in Int : normalize_angle(raw) \in Int /\ normalize_yaw(raw) \in Int
    BY <1>2, StickAssumption DEF normalize_angle, normalize_yaw
  <1>4. -r.axis_ry \in Int
    BY <1>1
  <1>5. QED
    BY <1>1, <1>3, <1>4 DEF ReportSp, Setpoint

LEMMA PulseRange ==
    ASSUME NEW v \in Int
    PROVE  clamp_us(v) \in ESC_PWM_MIN_US .. ESC_PWM_MAX_US
  <1>1. /\ ESC_PWM_MIN_US \in Int /\ ESC_PWM_MAX_US \in Int
        /\ ESC_PWM_MIN_US <= ESC_PWM_MAX_US
    BY PwmAssumption
  <1>2. QED
    BY <1>1, ClampRange DEF clamp_us

LEMMA WholeInt ==
    ASSUME NEW c \in Int
    PROVE  Whole(c) \in Int /\ (c >= 0 => Whole(c) >= 0)
  BY DEF Whole, OUT_SCALE

LEMMA MixRange ==
    ASSUME NEW t \in Int, NEW p \in Int, NEW r \in Int, NEW y \in Int
    PROVE  motor_mix(t, p, r, y) \in [Motors -> ESC_PWM_MIN_US .. ESC_PWM_MAX_US]
  BY PulseRange, WholeInt DEF motor_mix, Motors

LEMMA DutyIsNat ==
    ASSUME NEW v \in Int
    PROVE  us_to_duty(v) \in Nat
  <1>1. clamp_us(v) \in Nat
    BY PulseRange, PwmAssumption
  <1>2. QED
    BY <1>1 DEF us_to_duty, MAX_DUTY, PERIOD_US

LEMMA EscTypes ==
    ASSUME NEW pulses \in [Motors -> Int],
           NEW last, NEW dut \in [Motors -> Nat]
    PROVE  /\ EscLast(pulses) \in [Motors -> ESC_PWM_MIN_US .. ESC_PWM_MAX_US]
           /\ EscDuty(last, dut, pulses) \in [Motors -> Nat]
  <1>1. \A m \in Motors : clamp_us(pulses[m]) \in ESC_PWM_MIN_US .. ESC_PWM_MAX_US
    BY PulseRange
  <1>2. \A m \in Motors : us_to_duty(clamp_us(pulses[m])) \in Nat
    BY <1>1, DutyIsNat, PwmAssumption
  <1>3. QED
    BY <1>1, <1>2 DEF EscLast, EscDuty

-----------------------------------------------------------------------------
(* Type correctness.                                                         *)

USE DEF sharedVars, btVars, snapVars, outVars, ghostVars

LEMMA TypeInit == Init => TypeOK
  <1> SUFFICES ASSUME Init PROVE TypeOK
    OBVIOUS
  <1>1. duty \in [Motors -> Nat]
    BY DutyIsNat, PwmAssumption DEF Init
  <1>2. last_us \in [Motors -> ESC_PWM_MIN_US .. ESC_PWM_MAX_US]
        /\ s_m \in [Motors -> ESC_PWM_MIN_US .. ESC_PWM_MAX_US]
    BY DataTypes, PwmAssumption DEF Init
  <1>3. /\ s_throttle_us \in ESC_PWM_MIN_US .. ESC_PWM_FLIGHT_MAX_US
        /\ frames \in 0 .. FrameCap
        /\ pub_frames \in 0 .. FrameCap
    BY PwmAssumption, CoreAssumption DEF Init
  <1>4. /\ snap_att \in [Readers -> Attitude]
        /\ snap_sp \in [Readers -> Setpoint]
    BY DataTypes DEF Init
  <1>5. QED
    BY <1>1, <1>2, <1>3, <1>4, DataTypes DEF Init, TypeOK, Labels

LEMMA StopMotorsType ==
    ASSUME TypeOK, StopMotors
    PROVE  /\ last_us' \in [Motors -> ESC_PWM_MIN_US .. ESC_PWM_MAX_US]
           /\ duty' \in [Motors -> Nat]
  <1>1. AllArm \in [Motors -> Int] /\ duty \in [Motors -> Nat]
    BY DataTypes, PwmAssumption DEF TypeOK
  <1>2. QED
    BY <1>1, EscTypes DEF StopMotors

LEMMA DriveMotorsType ==
    ASSUME TypeOK, NEW out \in PidOutputs, DriveMotors(out)
    PROVE  /\ last_us' \in [Motors -> ESC_PWM_MIN_US .. ESC_PWM_MAX_US]
           /\ duty' \in [Motors -> Nat]
           /\ s_m' \in [Motors -> ESC_PWM_MIN_US .. ESC_PWM_MAX_US]
  <1> DEFINE motors == motor_mix(snap_sp["fc"]["throttle"],
                                 out["pitch"], out["roll"], out["yaw"])
  <1>1. out["pitch"] \in Int /\ out["roll"] \in Int /\ out["yaw"] \in Int
    BY DataAssumption, LimitAssumption
  <1>2. snap_sp["fc"]["throttle"] \in Int
    BY DEF TypeOK, Setpoint
  <1>3. motors \in [Motors -> ESC_PWM_MIN_US .. ESC_PWM_MAX_US]
    BY <1>1, <1>2, MixRange
  <1>4. motors \in [Motors -> Int] /\ duty \in [Motors -> Nat]
    BY <1>3, PwmAssumption DEF TypeOK
  <1>5. QED
    BY <1>3, <1>4, EscTypes DEF DriveMotors

LEMMA TypeStep == TypeOK /\ [Next]_vars => TypeOK'
  <1> SUFFICES ASSUME TypeOK, [Next]_vars PROVE TypeOK'
    OBVIOUS
  <1> USE DEF Goto, FirstField, NextField, EndIteration
  <1>1. CASE ImuTask
    <2>1. ASSUME NEW a \in Attitudes, ImuSample(a) PROVE TypeOK'
      BY <2>1, DataAssumption DEF TypeOK, ImuSample, Labels
    <2>2. CASE ImuTake
      BY <2>2 DEF TypeOK, ImuTake, Labels
    <2>3. CASE ImuDrop
      BY <2>3, DataTypes DEF TypeOK, ImuDrop, Labels
    <2>4. CASE ImuWrite
      BY <2>4 DEF TypeOK, ImuWrite, Attitude, AttOrder
    <2>5. CASE ImuGive
      BY <2>5, DataTypes DEF TypeOK, ImuGive, Labels
    <2>6. QED
      BY <1>1, <2>1, <2>2, <2>3, <2>4, <2>5 DEF ImuTask
  <1>2. ASSUME NEW r \in Readers, Snapshot(r) PROVE TypeOK'
    <2>1. CASE Wake(r)
      BY <2>1 DEF TypeOK, Wake, Labels
    <2>2. CASE TakeImu(r)
      BY <2>2 DEF TypeOK, TakeImu, Labels
    <2>3. CASE ReadAtt(r)
      BY <2>3 DEF TypeOK, ReadAtt, Attitude, AttOrder
    <2>4. CASE GiveImu(r)
      BY <2>4 DEF TypeOK, GiveImu, Labels
    <2>5. CASE TakeSp(r)
      BY <2>5 DEF TypeOK, TakeSp, Labels
    <2>6. CASE ReadSp(r)
      BY <2>6 DEF TypeOK, ReadSp, Setpoint, ReadOrder, SpOrder, TelOrder
    <2>7. CASE GiveSp(r)
      BY <2>7 DEF TypeOK, GiveSp, Labels
    <2>8. CASE TakeTimeout(r)
      BY <2>8, DataTypes DEF TypeOK, TakeTimeout, Labels
    <2>9. QED
      BY <1>2, <2>1, <2>2, <2>3, <2>4, <2>5, <2>6, <2>7, <2>8 DEF Snapshot
  <1>3. CASE FcKilled
    BY <1>3, DataTypes, StopMotorsType DEF TypeOK, FcKilled, StopMotors, Labels
  <1>4. CASE FcAngleLimit
    BY <1>4, DataTypes, StopMotorsType
       DEF TypeOK, FcAngleLimit, StopMotors, Labels
  <1>5. CASE FcLowThrottle
    BY <1>5, DataTypes, StopMotorsType
       DEF TypeOK, FcLowThrottle, StopMotors, Labels
  <1>6. ASSUME NEW out \in PidOutputs, FcFly(out) PROVE TypeOK'
    <2>1. late_kill' \in 0 .. 2 /\ late_tilt' \in 0 .. 2
      BY <1>6 DEF TypeOK, FcFly, CountLateWrites, Clamp
    <2>2. QED
      BY <1>6, <2>1, DataTypes, DriveMotorsType
         DEF TypeOK, FcFly, DriveMotors, CountLateWrites, Labels
  <1>7. CASE TelSend
    BY <1>7, DataTypes DEF TypeOK, TelSend, Labels
  <1>8. CASE Bluepad
    <2>1. ASSUME NEW d \in Devices, Connect(d) PROVE TypeOK'
      BY <2>1 DEF TypeOK, Connect
    <2>2. ASSUME NEW d \in Devices, Ready(d) PROVE TypeOK'
      BY <2>2 DEF TypeOK, Ready
    <2>3. ASSUME NEW d \in Devices, Disconnect(d) PROVE TypeOK'
      BY <2>3, DataTypes, PwmAssumption, CoreAssumption
         DEF TypeOK, Disconnect, ResetAccumulator, Labels
    <2>4. ASSUME NEW d \in Devices, GamepadKill(d) PROVE TypeOK'
      BY <2>4, DataTypes, PwmAssumption, CoreAssumption
         DEF TypeOK, GamepadKill, ResetAccumulator, Labels
    <2>5. ASSUME NEW d \in Devices, NEW r \in Reports, GamepadReport(d, r)
          PROVE  TypeOK'
      <3>1. r.axis_y \in Int
        BY CoreAssumption, StickAssumption DEF Report, RawAxis
      <3>2. s_throttle_us' \in ESC_PWM_MIN_US .. ESC_PWM_FLIGHT_MAX_US
        BY <2>5, <3>1, AccumulatorRange DEF TypeOK, GamepadReport
      <3>3. bt_new' \in Setpoint
        <4>1. s_throttle_us' \in Int
          BY <3>2, PwmAssumption
        <4>2. QED
          BY <2>5, <4>1, ReportSpType DEF GamepadReport
      <3>4. frames' \in 0 .. FrameCap
        BY <2>5, CoreAssumption DEF TypeOK, GamepadReport, Clamp
      <3>5. QED
        BY <2>5, <3>2, <3>3, <3>4 DEF TypeOK, GamepadReport, Labels
    <2>6. QED
      BY <1>8, <2>1, <2>2, <2>3, <2>4, <2>5 DEF Bluepad
  <1>9. CASE Callback
    <2>1. CASE BtTake
      BY <2>1 DEF TypeOK, BtTake, Labels
    <2>2. CASE BtGiveUp
      BY <2>2, DataTypes DEF TypeOK, BtGiveUp, Labels
    <2>3. CASE BtWrite
      BY <2>3 DEF TypeOK, BtWrite, BtOrder, SpOrder, KillOrder, Setpoint
    <2>4. CASE BtGive
      BY <2>4, DataTypes, CoreAssumption DEF TypeOK, BtGive, Labels
    <2>5. QED
      BY <1>9, <2>1, <2>2, <2>3, <2>4 DEF Callback
  <1>10. CASE UNCHANGED vars
    BY <1>10 DEF TypeOK, vars
  <1>11. QED
    BY <1>1, <1>2, <1>3, <1>4, <1>5, <1>6, <1>7, <1>8, <1>9, <1>10
       DEF Next, FcTask, TelTask

(* Every variable of the core keeps its type: the throttle accumulator and   *)
(* the motor pulses never leave the PWM limits of config.h.                  *)
THEOREM TypeCorrect == Spec => []TypeOK
  BY TypeInit, TypeStep, PTL DEF Spec

-----------------------------------------------------------------------------
(* Mutual exclusion.                                                         *)

LEMMA MutexInit == Init => MutexInv
  BY DEF Init, MutexInv

LEMMA MutexStep == TypeOK /\ MutexInv /\ [Next]_vars => MutexInv'
  <1> SUFFICES ASSUME TypeOK, MutexInv, [Next]_vars PROVE MutexInv'
    OBVIOUS
  <1> USE DEF Goto, EndIteration
  <1>0. pc \in [Tasks -> Labels]
    BY DEF TypeOK
  <1>1. CASE ImuTask
    BY <1>0, <1>1
       DEF MutexInv, ImuTask, ImuSample, ImuTake, ImuDrop, ImuWrite, ImuGive
  <1>2. ASSUME NEW r \in Readers, Snapshot(r) PROVE MutexInv'
    <2>1. CASE Wake(r) \/ TakeTimeout(r)
      BY <1>0, <2>1 DEF MutexInv, Wake, TakeTimeout
    <2>2. CASE TakeImu(r) \/ ReadAtt(r) \/ GiveImu(r)
      BY <1>0, <2>2 DEF MutexInv, TakeImu, ReadAtt, GiveImu
    <2>3. CASE TakeSp(r) \/ ReadSp(r) \/ GiveSp(r)
      BY <1>0, <2>3 DEF MutexInv, TakeSp, ReadSp, GiveSp
    <2>4. QED
      BY <1>2, <2>1, <2>2, <2>3 DEF Snapshot
  <1>3. CASE FcKilled \/ FcAngleLimit \/ FcLowThrottle
    BY <1>0, <1>3 DEF MutexInv, FcKilled, FcAngleLimit, FcLowThrottle
  <1>4. ASSUME NEW out \in PidOutputs, FcFly(out) PROVE MutexInv'
    BY <1>0, <1>4 DEF MutexInv, FcFly
  <1>5. CASE TelSend
    BY <1>0, <1>5 DEF MutexInv, TelSend
  <1>6. CASE Bluepad
    BY <1>0, <1>6 DEF MutexInv, Bluepad, Connect, Ready, Disconnect,
                      GamepadKill, GamepadReport
  <1>7. CASE Callback
    BY <1>0, <1>7 DEF MutexInv, Callback, BtTake, BtGiveUp, BtWrite, BtGive
  <1>8. CASE UNCHANGED vars
    BY <1>8 DEF MutexInv, vars
  <1>9. QED
    BY <1>1, <1>2, <1>3, <1>4, <1>5, <1>6, <1>7, <1>8 DEF Next, FcTask, TelTask

(* A task is inside a critical section exactly when it holds the mutex, so   *)
(* no two tasks ever are in critical sections of the same mutex.             *)
THEOREM MutualExclusion == Spec => []MutexInv
  BY TypeCorrect, MutexInit, MutexStep, PTL DEF Spec

-----------------------------------------------------------------------------
(* Field by field copies.                                                    *)

LEMMA DoneFirst ==
    ASSUME NEW order PROVE Done(order, 1) = {}
  BY DEF Done

LEMMA DoneNext ==
    ASSUME NEW order, NEW i \in 1 .. 6
    PROVE  Done(order, i + 1) = Done(order, i) \cup {order[i]}
  <1>1. 1 .. ((i + 1) - 1) = 1 .. (i - 1) \cup {i}
    OBVIOUS
  <1>2. QED
    BY <1>1 DEF Done

LEMMA DoneAll ==
    /\ Done(AttOrder, 4) = AttFields
    /\ Done(SpOrder, 6) = SpFields
    /\ Done(KillOrder, 6) = SpFields
    /\ Done(TelOrder, 5) = SpFields \ {"killed"}
  <1>1. /\ 1 .. (4 - 1) = {1, 2, 3}
        /\ 1 .. (5 - 1) = {1, 2, 3, 4}
        /\ 1 .. (6 - 1) = {1, 2, 3, 4, 5}
    OBVIOUS
  <1>2. Done(AttOrder, 4) = AttFields
    <2>1. AttOrder[1] = "pitch" /\ AttOrder[2] = "roll"
          /\ AttOrder[3] = "yaw_rate"
      BY DEF AttOrder
    <2>2. Done(AttOrder, 4) = {AttOrder[1], AttOrder[2], AttOrder[3]}
      BY <1>1 DEF Done
    <2>3. QED
      BY <2>1, <2>2
  <1>3. Done(SpOrder, 6) = SpFields
    <2>1. /\ SpOrder[1] = "throttle" /\ SpOrder[2] = "pitch_sp"
          /\ SpOrder[3] = "roll_sp" /\ SpOrder[4] = "yaw_sp"
          /\ SpOrder[5] = "killed"
      BY DEF SpOrder
    <2>2. Done(SpOrder, 6)
            = {SpOrder[1], SpOrder[2], SpOrder[3], SpOrder[4], SpOrder[5]}
      BY <1>1 DEF Done
    <2>3. QED
      BY <2>1, <2>2
  <1>4. Done(KillOrder, 6) = SpFields
    <2>1. /\ KillOrder[1] = "killed" /\ KillOrder[2] = "throttle"
          /\ KillOrder[3] = "pitch_sp" /\ KillOrder[4] = "roll_sp"
          /\ KillOrder[5] = "yaw_sp"
      BY DEF KillOrder
    <2>2. Done(KillOrder, 6) = {KillOrder[1], KillOrder[2], KillOrder[3],
                                KillOrder[4], KillOrder[5]}
      BY <1>1 DEF Done
    <2>3. QED
      BY <2>1, <2>2
  <1>5. Done(TelOrder, 5) = SpFields \ {"killed"}
    <2>1. /\ TelOrder[1] = "throttle" /\ TelOrder[2] = "pitch_sp"
          /\ TelOrder[3] = "roll_sp" /\ TelOrder[4] = "yaw_sp"
      BY DEF TelOrder
    <2>2. Done(TelOrder, 5)
            = {TelOrder[1], TelOrder[2], TelOrder[3], TelOrder[4]}
      BY <1>1 DEF Done
    <2>3. QED
      BY <2>1, <2>2
  <1>6. QED
    BY <1>2, <1>3, <1>4, <1>5

LEMMA OrderLengths ==
    /\ Len(AttOrder) = 3
    /\ Len(SpOrder) = 5
    /\ Len(KillOrder) = 5
    /\ Len(BtOrder) = 5
    /\ Len(TelOrder) = 4
    /\ \A r \in Readers : Len(ReadOrder(r)) = IF r = "tel" THEN 4 ELSE 5
  BY DEF AttOrder, SpOrder, KillOrder, BtOrder, TelOrder, ReadOrder

(* A writer that has written every field has published the whole record.     *)
LEMMA WrittenWhole ==
    ASSUME TypeOK, GlobalInv
    PROVE  /\ pc["imu"] = "write" /\ pos["imu"] > Len(AttOrder)
                => g_att = imu_new
           /\ pc["bt"] = "write" /\ pos["bt"] > Len(BtOrder)
                => g_sp = bt_new
  <1>1. ASSUME pc["imu"] = "write", pos["imu"] > Len(AttOrder)
        PROVE  g_att = imu_new
    <2>1. pos["imu"] = 4
      BY <1>1, OrderLengths DEF GlobalInv
    <2>2. \A f \in AttFields : g_att[f] = imu_new[f]
      BY <1>1, <2>1, DoneAll DEF GlobalInv
    <2>3. g_att \in [AttFields -> Int] /\ imu_new \in [AttFields -> Int]
      BY DEF TypeOK, Attitude
    <2>4. QED
      BY <2>2, <2>3
  <1>2. ASSUME pc["bt"] = "write", pos["bt"] > Len(BtOrder)
        PROVE  g_sp = bt_new
    <2>1. pos["bt"] = 6
      BY <1>2, OrderLengths DEF TypeOK
    <2>2. Done(BtOrder, 6) = SpFields
      BY DoneAll DEF BtOrder
    <2>3. \A f \in SpFields : g_sp[f] = bt_new[f]
      BY <1>2, <2>1, <2>2 DEF GlobalInv
    <2>4. g_sp \in [SpFields -> Int] /\ bt_new \in [SpFields -> Int]
      BY DEF TypeOK, Setpoint
    <2>5. QED
      BY <2>3, <2>4
  <1>3. QED
    BY <1>1, <1>2

LEMMA CopyInit == Init => CopyInv
  BY DEF Init, CopyInv, GlobalInv, SnapInv

LEMMA GlobalStep ==
    TypeOK /\ MutexInv /\ GlobalInv /\ [Next]_vars => GlobalInv'
  <1> SUFFICES ASSUME TypeOK, MutexInv, GlobalInv, [Next]_vars
               PROVE  GlobalInv'
    OBVIOUS
  <1> USE DEF Goto, FirstField, NextField, EndIteration
  <1>0. /\ pc \in [Tasks -> Labels]
        /\ pos \in [Tasks -> 1 .. 6]
        /\ g_att \in [AttFields -> Int] /\ g_sp \in [SpFields -> Int]
    BY DEF TypeOK, Attitude, Setpoint
  <1>1. CASE ImuTask
    <2>1. CASE ImuDrop \/ \E a \in Attitudes : ImuSample(a)
      BY <1>0, <2>1 DEF GlobalInv, ImuSample, ImuDrop, BtOrder
    <2>2. CASE ImuTake
      BY <1>0, <2>2, DoneFirst DEF GlobalInv, ImuTake, BtOrder
    <2>3. CASE ImuWrite
      <3> DEFINE i == pos["imu"]
      <3>1. i \in 1 .. 3 /\ pos'["imu"] = i + 1 /\ pc'["imu"] = "write"
        BY <1>0, <2>3, OrderLengths DEF ImuWrite
      <3>2. Done(AttOrder, i + 1) = Done(AttOrder, i) \cup {AttOrder[i]}
        BY <3>1, DoneNext
      <3>3. AttOrder[i] \in AttFields
        BY <3>1 DEF AttOrder
      <3>4. g_att'[AttOrder[i]] = imu_new'[AttOrder[i]]
        BY <1>0, <2>3, <3>3 DEF ImuWrite
      <3>5. ASSUME NEW f \in Done(AttOrder, i) PROVE g_att'[f] = imu_new'[f]
        <4>1. g_att[f] = imu_new[f]
          BY <2>3, <3>5 DEF GlobalInv, ImuWrite
        <4>2. f = AttOrder[i] \/ g_att'[f] = g_att[f]
          BY <1>0, <2>3, <3>3 DEF ImuWrite
        <4>3. QED
          BY <2>3, <3>4, <4>1, <4>2 DEF ImuWrite
      <3>6. \A f \in Done(AttOrder, pos'["imu"]) : g_att'[f] = imu_new'[f]
        BY <3>1, <3>2, <3>4, <3>5
      <3>7. pos'["imu"] \in 1 .. 4
        BY <3>1
      <3>8. pos'["bt"] = pos["bt"] /\ pc'["bt"] = pc["bt"]
        BY <1>0, <2>3 DEF ImuWrite
      <3>9. QED
        BY <2>3, <3>1, <3>6, <3>7, <3>8 DEF GlobalInv, ImuWrite, BtOrder
    <2>4. CASE ImuGive
      <3>1. g_att = imu_new
        BY <2>4, WrittenWhole DEF ImuGive
      <3>2. QED
        BY <1>0, <2>4, <3>1 DEF GlobalInv, ImuGive, BtOrder
    <2>5. QED
      BY <1>1, <2>1, <2>2, <2>3, <2>4 DEF ImuTask
  <1>2. ASSUME NEW r \in Readers, Snapshot(r) PROVE GlobalInv'
    <2>1. /\ UNCHANGED <<g_att, g_sp, imu_new, bt_new, bt_event, att_pub, sp_pub>>
          /\ pc'["imu"] = pc["imu"] /\ pc'["bt"] = pc["bt"]
          /\ pos'["imu"] = pos["imu"] /\ pos'["bt"] = pos["bt"]
      BY <1>0, <1>2 DEF Snapshot, Wake, TakeImu, ReadAtt, GiveImu, TakeSp,
                        ReadSp, GiveSp, TakeTimeout
    <2>2. QED
      BY <2>1 DEF GlobalInv, BtOrder
  <1>3. CASE FcKilled \/ FcAngleLimit \/ FcLowThrottle \/ TelSend
    BY <1>0, <1>3 DEF GlobalInv, BtOrder, FcKilled, FcAngleLimit,
                      FcLowThrottle, TelSend
  <1>4. ASSUME NEW out \in PidOutputs, FcFly(out) PROVE GlobalInv'
    BY <1>0, <1>4 DEF GlobalInv, BtOrder, FcFly, CountLateWrites
  <1>5. CASE Bluepad
    BY <1>0, <1>5 DEF GlobalInv, BtOrder, Bluepad, Connect, Ready, Disconnect,
                      GamepadKill, GamepadReport
  <1>6. CASE Callback
    <2>1. CASE BtTake
      BY <1>0, <2>1, DoneFirst DEF GlobalInv, BtTake, BtOrder
    <2>2. CASE BtGiveUp
      BY <1>0, <2>2 DEF GlobalInv, BtGiveUp
    <2>3. CASE BtWrite
      <3> DEFINE i == pos["bt"]
      <3>0. UNCHANGED <<BtOrder, bt_new>>
        BY <2>3 DEF BtWrite, BtOrder
      <3>1. i \in 1 .. 5 /\ pos'["bt"] = i + 1 /\ pc'["bt"] = "write"
        BY <1>0, <2>3, OrderLengths DEF BtWrite
      <3>2. Done(BtOrder, i + 1) = Done(BtOrder, i) \cup {BtOrder[i]}
        BY <3>1, DoneNext
      <3>3. BtOrder[i] \in SpFields
        BY <3>1 DEF BtOrder, SpOrder, KillOrder
      <3>4. g_sp'[BtOrder[i]] = bt_new[BtOrder[i]]
        BY <1>0, <2>3, <3>3 DEF BtWrite
      <3>5. ASSUME NEW f \in Done(BtOrder, i) PROVE g_sp'[f] = bt_new[f]
        <4>1. g_sp[f] = bt_new[f]
          BY <2>3, <3>5 DEF GlobalInv, BtWrite
        <4>2. f = BtOrder[i] \/ g_sp'[f] = g_sp[f]
          BY <1>0, <2>3, <3>3 DEF BtWrite
        <4>3. QED
          BY <3>4, <4>1, <4>2
      <3>6. \A f \in Done(BtOrder, pos'["bt"]) : g_sp'[f] = bt_new[f]
        BY <3>1, <3>2, <3>4, <3>5
      <3>7. pos'["imu"] = pos["imu"] /\ pc'["imu"] = pc["imu"]
        BY <1>0, <2>3 DEF BtWrite
      <3>8. UNCHANGED <<g_att, imu_new, att_pub>>
        BY <2>3 DEF BtWrite
      <3>9. QED
        BY <3>0, <3>1, <3>6, <3>7, <3>8 DEF GlobalInv
    <2>4. CASE BtGive
      <3>1. g_sp = bt_new
        BY <2>4, WrittenWhole DEF BtGive
      <3>2. QED
        BY <1>0, <2>4, <3>1 DEF GlobalInv, BtGive
    <2>5. QED
      BY <1>6, <2>1, <2>2, <2>3, <2>4 DEF Callback
  <1>7. CASE UNCHANGED vars
    BY <1>7 DEF GlobalInv, BtOrder, vars
  <1>8. QED
    BY <1>1, <1>2, <1>3, <1>4, <1>5, <1>6, <1>7 DEF Next, FcTask, TelTask

LEMMA SnapStep ==
    TypeOK /\ MutexInv /\ SnapInv /\ [Next]_vars => SnapInv'
  <1> SUFFICES ASSUME TypeOK, MutexInv, SnapInv, [Next]_vars
               PROVE  SnapInv'
    OBVIOUS
  <1> USE DEF Goto, FirstField, NextField, EndIteration
  <1>0. /\ pc \in [Tasks -> Labels]
        /\ pos \in [Tasks -> 1 .. 6]
        /\ snap_att \in [Readers -> [AttFields -> Int]]
        /\ snap_sp \in [Readers -> [SpFields -> Int]]
    BY DEF TypeOK, Attitude, Setpoint
  <1>1. CASE ImuTask
    <2>1. ASSUME NEW q \in Readers
          PROVE  /\ pc'[q] = pc[q] /\ pos'[q] = pos[q]
                 /\ UNCHANGED <<snap_att, snap_sp, g_sp>>
                 /\ pc[q] = "read_att" => UNCHANGED g_att
      BY <1>0, <1>1 DEF MutexInv, ImuTask, ImuSample, ImuTake, ImuDrop,
                        ImuWrite, ImuGive
    <2>2. QED
      BY <2>1 DEF SnapInv
  <1>2. ASSUME NEW r \in Readers, Snapshot(r) PROVE SnapInv'
    <2>0. UNCHANGED <<g_att, g_sp>>
      BY <1>2 DEF Snapshot, Wake, TakeImu, ReadAtt, GiveImu, TakeSp, ReadSp,
                  GiveSp, TakeTimeout
    <2>1. ASSUME NEW q \in Readers, q # r
          PROVE  /\ pc'[q] = pc[q] /\ pos'[q] = pos[q]
                 /\ snap_att'[q] = snap_att[q] /\ snap_sp'[q] = snap_sp[q]
      BY <1>0, <1>2, <2>1 DEF Snapshot, Wake, TakeImu, ReadAtt, GiveImu,
                              TakeSp, ReadSp, GiveSp, TakeTimeout
    <2> DEFINE Part(q) ==
          /\ pc[q] \notin {"read_att", "read_sp"} => pos[q] = 1
          /\ pc[q] = "read_att" =>
                /\ pos[q] \in 1 .. 4
                /\ \A f \in Done(AttOrder, pos[q]) : snap_att[q][f] = g_att[f]
          /\ pc[q] = "read_sp" =>
                /\ pos[q] \in 1 .. (Len(ReadOrder(q)) + 1)
                /\ \A f \in Done(ReadOrder(q), pos[q]) : snap_sp[q][f] = g_sp[f]
    <2>2. Part(r)
      BY DEF SnapInv
    <2>3. CASE Wake(r) \/ TakeTimeout(r) \/ GiveImu(r) \/ GiveSp(r)
      <3>1. pc'[r] \notin {"read_att", "read_sp"} /\ pos'[r] = 1
        BY <1>0, <2>2, <2>3 DEF Wake, TakeTimeout, GiveImu, GiveSp
      <3>2. QED
        BY <2>0, <2>1, <3>1 DEF SnapInv
    <2>4. CASE TakeImu(r) \/ TakeSp(r)
      <3>1. pc'[r] \in {"read_att", "read_sp"} /\ pos'[r] = 1
        BY <1>0, <2>2, <2>4 DEF TakeImu, TakeSp
      <3>2. QED
        BY <2>0, <2>1, <3>1, DoneFirst, OrderLengths DEF SnapInv
    <2>5. CASE ReadAtt(r)
      <3> DEFINE i == pos[r]
      <3>1. i \in 1 .. 3 /\ pos'[r] = i + 1 /\ pc'[r] = "read_att"
        BY <1>0, <2>5, OrderLengths DEF ReadAtt
      <3>2. Done(AttOrder, i + 1) = Done(AttOrder, i) \cup {AttOrder[i]}
        BY <3>1, DoneNext
      <3>3. AttOrder[i] \in AttFields
        BY <3>1 DEF AttOrder
      <3>4. snap_att'[r] = [snap_att[r] EXCEPT ![AttOrder[i]] = g_att[AttOrder[i]]]
        BY <1>0, <2>5 DEF ReadAtt
      <3>5. \A f \in Done(AttOrder, i) : snap_att[r][f] = g_att[f]
        BY <2>2, <2>5 DEF ReadAtt
      <3>6. \A f \in Done(AttOrder, i + 1) : snap_att'[r][f] = g_att[f]
        BY <1>0, <3>2, <3>3, <3>4, <3>5
      <3>7. pos'[r] \in 1 .. 4
        BY <3>1
      <3>8. QED
        BY <2>0, <2>1, <3>1, <3>6, <3>7 DEF SnapInv
    <2>6. CASE ReadSp(r)
      <3> DEFINE i == pos[r]
      <3>0. Len(ReadOrder(r)) \in {4, 5}
        BY <1>2, OrderLengths
      <3>a. /\ i <= Len(ReadOrder(r)) /\ pc[r] = "read_sp"
            /\ pos' = [pos EXCEPT ![r] = @ + 1] /\ pc' = pc
        BY <2>6 DEF ReadSp
      <3>b. r \in Tasks /\ i \in 1 .. 6
        BY <1>0, <1>2
      <3>c. pos'[r] = i + 1 /\ pc'[r] = "read_sp"
        BY <1>0, <3>a, <3>b
      <3>1. /\ i \in 1 .. 5 /\ i <= Len(ReadOrder(r))
            /\ pos'[r] = i + 1 /\ pc'[r] = "read_sp"
        <4> DEFINE n == Len(ReadOrder(r))
        <4>1. n \in {4, 5} /\ i <= n
          BY <3>0, <3>a
        <4> HIDE DEF n
        <4>2. i \in 1 .. 5
          BY <3>b, <4>1
        <4>3. QED
          BY <3>a, <3>c, <4>2
      <3>2. Done(ReadOrder(r), i + 1) = Done(ReadOrder(r), i) \cup {ReadOrder(r)[i]}
        BY <3>1, DoneNext
      <3>3. ReadOrder(r)[i] \in SpFields
        BY <1>2, <3>1 DEF ReadOrder, SpOrder, TelOrder
      <3>4. snap_sp'[r] = [snap_sp[r] EXCEPT ![ReadOrder(r)[i]] = g_sp[ReadOrder(r)[i]]]
        BY <1>0, <2>6 DEF ReadSp
      <3>5. \A f \in Done(ReadOrder(r), i) : snap_sp[r][f] = g_sp[f]
        BY <2>2, <2>6 DEF ReadSp
      <3>6. \A f \in Done(ReadOrder(r), i + 1) : snap_sp'[r][f] = g_sp[f]
        BY <1>0, <3>2, <3>3, <3>4, <3>5
      <3>7. pos'[r] \in 1 .. (Len(ReadOrder(r)) + 1)
        BY <3>0, <3>1
      <3>8. QED
        BY <2>0, <2>1, <3>1, <3>6, <3>7 DEF SnapInv
    <2>7. QED
      BY <1>2, <2>3, <2>4, <2>5, <2>6 DEF Snapshot
  <1>3. ASSUME NEW r \in Readers, pc[r] = "act",
               EndIteration(r), UNCHANGED <<sharedVars, pos>>
        PROVE  SnapInv'
    <2>1. UNCHANGED <<g_att, g_sp, pos>>
      BY <1>3 DEF sharedVars
    <2>2. pc'[r] = "idle" /\ pos'[r] = 1
      BY <1>0, <1>3, <2>1 DEF SnapInv
    <2>3. ASSUME NEW q \in Readers, q # r
          PROVE  /\ pc'[q] = pc[q] /\ pos'[q] = pos[q]
                 /\ snap_att'[q] = snap_att[q] /\ snap_sp'[q] = snap_sp[q]
      BY <1>0, <1>3, <2>1, <2>3
    <2>4. QED
      BY <2>1, <2>2, <2>3 DEF SnapInv
  <1>4. CASE FcKilled \/ FcAngleLimit \/ FcLowThrottle \/ TelSend
             \/ \E out \in PidOutputs : FcFly(out)
    BY <1>3, <1>4 DEF FcKilled, FcAngleLimit, FcLowThrottle, TelSend, FcFly
  <1>5. CASE Bluepad
    <2>1. ASSUME NEW q \in Readers
          PROVE  /\ pc'[q] = pc[q] /\ pos'[q] = pos[q]
                 /\ UNCHANGED <<snap_att, snap_sp, g_att, g_sp>>
      BY <1>0, <1>5 DEF Bluepad, Connect, Ready, Disconnect, GamepadKill,
                        GamepadReport
    <2>2. QED
      BY <2>1 DEF SnapInv
  <1>6. CASE Callback
    <2>1. ASSUME NEW q \in Readers
          PROVE  /\ pc'[q] = pc[q] /\ pos'[q] = pos[q]
                 /\ UNCHANGED <<snap_att, snap_sp, g_att>>
                 /\ pc[q] = "read_sp" => UNCHANGED g_sp
      BY <1>0, <1>6 DEF MutexInv, Callback, BtTake, BtGiveUp, BtWrite, BtGive
    <2>2. QED
      BY <2>1 DEF SnapInv
  <1>7. CASE UNCHANGED vars
    BY <1>7 DEF SnapInv, vars
  <1>8. QED
    BY <1>1, <1>2, <1>3, <1>4, <1>5, <1>6, <1>7 DEF Next, FcTask, TelTask

(* Whatever a task has copied so far, into the globals or out of them, is    *)
(* what it copied it from: the mutexes keep the source still meanwhile.      *)
THEOREM CopiesAreFaithful == Spec => []CopyInv
  <1>1. TypeOK /\ MutexInv /\ CopyInv /\ [Next]_vars => CopyInv'
    BY GlobalStep, SnapStep DEF CopyInv
  <1>2. QED
    BY <1>1, TypeCorrect, MutualExclusion, CopyInit, PTL DEF Spec

LEMMA CopiesAreWhole == TypeOK /\ MutexInv /\ CopyInv => WholeSnapshots
  <1> SUFFICES ASSUME TypeOK, MutexInv, CopyInv, NEW r \in Readers
               PROVE  /\ pc[r] = "read_att" /\ pos[r] > Len(AttOrder)
                           => snap_att[r] = att_pub
                      /\ pc[r] = "read_sp" /\ pos[r] > Len(ReadOrder(r))
                           => \A f \in ReadFields(r) :
                                 snap_sp[r][f] = sp_pub[f]
    BY DEF WholeSnapshots
  <1>1. ASSUME pc[r] = "read_att", pos[r] > Len(AttOrder)
        PROVE  snap_att[r] = att_pub
    <2>1. pos[r] = 4
      BY <1>1, OrderLengths DEF CopyInv, SnapInv
    <2>2. \A f \in AttFields : snap_att[r][f] = g_att[f]
      BY <1>1, <2>1, DoneAll DEF CopyInv, SnapInv
    <2>3. snap_att[r] \in [AttFields -> Int] /\ g_att \in [AttFields -> Int]
      BY DEF TypeOK, Attitude
    <2>4. snap_att[r] = g_att
      BY <2>2, <2>3
    <2>5. pc["imu"] # "write"
      BY <1>1 DEF MutexInv
    <2>6. QED
      BY <2>4, <2>5 DEF CopyInv, GlobalInv
  <1>2. ASSUME pc[r] = "read_sp", pos[r] > Len(ReadOrder(r))
        PROVE  \A f \in ReadFields(r) : snap_sp[r][f] = sp_pub[f]
    <2>0. Len(ReadOrder(r)) \in {4, 5}
      BY OrderLengths
    <2>1. pos[r] = Len(ReadOrder(r)) + 1
      BY <1>2, <2>0 DEF CopyInv, SnapInv
    <2>2. Done(ReadOrder(r), pos[r]) = ReadFields(r)
      <3>1. CASE r = "tel"
        <4>1. ReadOrder(r) = TelOrder /\ ReadFields(r) = SpFields \ {"killed"}
          BY <3>1 DEF ReadOrder, ReadFields
        <4>2. pos[r] = 5
          BY <2>1, <4>1, OrderLengths
        <4>3. QED
          BY <4>1, <4>2, DoneAll
      <3>2. CASE r = "fc"
        <4>1. ReadOrder(r) = SpOrder /\ ReadFields(r) = SpFields
          BY <3>2 DEF ReadOrder, ReadFields
        <4>2. QED
          BY <2>1, <4>1, DoneAll, OrderLengths
      <3>3. QED
        BY <3>1, <3>2
    <2>3. \A f \in ReadFields(r) : snap_sp[r][f] = g_sp[f]
      BY <1>2, <2>2 DEF CopyInv, SnapInv
    <2>4. pc["bt"] # "write"
      BY <1>2 DEF MutexInv
    <2>5. QED
      BY <2>3, <2>4 DEF CopyInv, GlobalInv
  <1>3. QED
    BY <1>1, <1>2

(* For the control loop, which reads every field, the copy is the record.    *)
LEMMA ControlSnapshot ==
    ASSUME TypeOK, WholeSnapshots,
           pc["fc"] = "read_sp", pos["fc"] > Len(ReadOrder("fc"))
    PROVE  snap_sp["fc"] = sp_pub
  <1>1. \A f \in SpFields : snap_sp["fc"][f] = sp_pub[f]
    BY DEF WholeSnapshots, ReadFields
  <1>2. snap_sp["fc"] \in [SpFields -> Int] /\ sp_pub \in [SpFields -> Int]
    BY DEF TypeOK, Setpoint
  <1>3. QED
    BY <1>1, <1>2

(* No reader of the attitude or of the setpoints ever acts on a torn record. *)
THEOREM SnapshotsAreWhole == Spec => []WholeSnapshots
  BY TypeCorrect, MutualExclusion, CopiesAreFaithful, CopiesAreWhole, PTL

-----------------------------------------------------------------------------
(* The throttle ramp after a kill.                                           *)

LEMMA DeflectionRange ==
    ASSUME NEW raw \in RawAxis
    PROVE  /\ apply_deadband(-raw) \in Int
           /\ Magnitude(apply_deadband(-raw)) \in 0 .. STICK_MAX
  BY StickAssumption DEF RawAxis, apply_deadband, Magnitude

LEMMA RateBound ==
    ASSUME NEW val \in Int, Magnitude(val) \in 0 .. STICK_MAX
    PROVE  ThrottleRate(val) <= THROTTLE_ACCEL_MAX
  <1> DEFINE d == THROTTLE_ACCEL_MAX - THROTTLE_ACCEL_MIN
             n == Magnitude(val)
  <1>1. d \in Nat /\ n \in Nat /\ n <= STICK_MAX /\ STICK_MAX \in Nat \ {0}
    BY StickAssumption
  <1>2. n * d <= STICK_MAX * d
    BY <1>1
  <1>3. (n * d) \div STICK_MAX <= d
    <2> HIDE DEF d, n
    <2>1. n * d \in Nat
      BY <1>1
    <2>2. QED
      BY <1>1, <1>2, <2>1
  <1>4. (n * d) \div STICK_MAX \in Int
    BY <1>1
  <1>5. QED
    BY <1>3, <1>4, StickAssumption DEF ThrottleRate

LEMMA AccumulatorStep ==
    ASSUME NEW us \in ESC_PWM_MIN_US .. ESC_PWM_FLIGHT_MAX_US,
           NEW raw \in RawAxis
    PROVE  accumulate_throttle(us, raw) <= us + THROTTLE_ACCEL_MAX
  <1> DEFINE val == apply_deadband(-raw)
             rate == ThrottleRate(val)
             sum == IF val > 0 THEN us + rate ELSE us - rate
  <1>1. val \in Int /\ rate \in Nat /\ rate <= THROTTLE_ACCEL_MAX
    BY DeflectionRange, RateIsNat, RateBound
  <1>2. us \in Int /\ ESC_PWM_MIN_US \in Int /\ ESC_PWM_FLIGHT_MAX_US \in Int
        /\ ESC_PWM_MIN_US <= us /\ THROTTLE_ACCEL_MAX \in Nat
    BY PwmAssumption, StickAssumption
  <1>3. sum \in Int /\ sum <= us + THROTTLE_ACCEL_MAX
    BY <1>1, <1>2
  <1>4. Clamp(sum, ESC_PWM_MIN_US, ESC_PWM_FLIGHT_MAX_US)
            <= us + THROTTLE_ACCEL_MAX
    <2> HIDE DEF sum
    <2>1. QED
      BY <1>2, <1>3 DEF Clamp
  <1>5. QED
    BY <1>2, <1>4 DEF accumulate_throttle

LEMMA ReachableGrows ==
    ASSUME NEW n \in 0 .. FrameCap
    PROVE  /\ Reachable(n) \in Int
           /\ Reachable(0) = ESC_PWM_ARM_US
           /\ ESC_PWM_ARM_US <= Reachable(n)
           /\ ESC_PWM_FLIGHT_MAX_US <= Reachable(FrameCap)
           /\ n < FrameCap => Reachable(n + 1) = Reachable(n) + THROTTLE_ACCEL_MAX
  <1>1. /\ n \in Nat /\ FrameCap \in Nat /\ THROTTLE_ACCEL_MAX \in Nat
        /\ ESC_PWM_ARM_US \in Nat
    BY CoreAssumption, StickAssumption, PwmAssumption
  <1>2. THROTTLE_ACCEL_MAX * n \in Nat
    BY <1>1
  <1>3. THROTTLE_ACCEL_MAX * (n + 1) = THROTTLE_ACCEL_MAX * n + THROTTLE_ACCEL_MAX
    BY <1>1
  <1>4. THROTTLE_ACCEL_MAX * 0 = 0
    BY <1>1
  <1>5. QED
    BY <1>1, <1>2, <1>3, <1>4, CoreAssumption DEF Reachable

LEMMA CommandInit == Init => CommandInv
  <1> SUFFICES ASSUME Init PROVE CommandInv
    OBVIOUS
  <1>1. FrameCap \in 0 .. FrameCap
    BY CoreAssumption
  <1>2. ESC_PWM_FLIGHT_MAX_US <= Reachable(FrameCap)
        /\ Reachable(FrameCap) \in Int
    BY <1>1, ReachableGrows
  <1>3. /\ s_throttle_us = ESC_PWM_SPIN_US
        /\ sp_pub["throttle"] = ESC_PWM_ARM_US
        /\ frames = FrameCap /\ pub_frames = FrameCap
        /\ pc["bt"] = "idle"
    BY DEF Init, IdleSp
  <1>4. QED
    BY <1>2, <1>3, PwmAssumption DEF CommandInv

LEMMA CommandStep ==
    TypeOK /\ CommandInv /\ [Next]_vars => CommandInv'
  <1> SUFFICES ASSUME TypeOK, CommandInv, [Next]_vars
               PROVE  CommandInv'
    OBVIOUS
  <1> USE DEF Goto, EndIteration
  <1>0. /\ pc \in [Tasks -> Labels]
        /\ s_throttle_us \in ESC_PWM_MIN_US .. ESC_PWM_FLIGHT_MAX_US
        /\ frames \in 0 .. FrameCap
        /\ pub_frames \in 0 .. FrameCap
        /\ sp_pub["throttle"] \in Int
    BY DEF TypeOK, Setpoint
  <1>a. /\ Reachable(frames) \in Int
        /\ Reachable(0) = ESC_PWM_ARM_US
        /\ ESC_PWM_ARM_US <= Reachable(frames)
    BY <1>0, ReachableGrows
  <1>b. KillSp["killed"] = 1 /\ KillSp["throttle"] = ESC_PWM_ARM_US
    BY DEF KillSp
  <1>1. CASE ImuTask
    BY <1>0, <1>1 DEF CommandInv, ImuTask, ImuSample, ImuTake, ImuDrop,
                      ImuWrite, ImuGive
  <1>2. ASSUME NEW r \in Readers, Snapshot(r) PROVE CommandInv'
    BY <1>0, <1>2 DEF CommandInv, Snapshot, Wake, TakeImu, ReadAtt, GiveImu,
                      TakeSp, ReadSp, GiveSp, TakeTimeout
  <1>3. CASE FcKilled \/ FcAngleLimit \/ FcLowThrottle \/ TelSend
    BY <1>0, <1>3 DEF CommandInv, FcKilled, FcAngleLimit, FcLowThrottle, TelSend
  <1>4. ASSUME NEW out \in PidOutputs, FcFly(out) PROVE CommandInv'
    BY <1>0, <1>4 DEF CommandInv, FcFly, CountLateWrites
  <1>5. CASE Bluepad
    <2>1. ASSUME NEW d \in Devices, Connect(d) \/ Ready(d) PROVE CommandInv'
      BY <1>0, <2>1 DEF CommandInv, Connect, Ready
    <2>2. ASSUME NEW d \in Devices, Disconnect(d) \/ GamepadKill(d)
          PROVE  CommandInv'
      <3>1. /\ frames' = 0 /\ s_throttle_us' = ESC_PWM_ARM_US
            /\ bt_new' = KillSp
            /\ bt_event' \in {"x_button", "disconnect"}
            /\ UNCHANGED <<sp_pub, pub_frames>>
        BY <2>2 DEF Disconnect, GamepadKill, ResetAccumulator
      <3>2. s_throttle_us' <= Reachable(frames')
        BY <1>a, <3>1, PwmAssumption
      <3>3. QED
        BY <3>1, <3>2 DEF CommandInv
    <2>3. ASSUME NEW d \in Devices, NEW r \in Reports, GamepadReport(d, r)
          PROVE  CommandInv'
      <3>1. r.axis_y \in RawAxis
        BY CoreAssumption DEF Report
      <3>2. r.axis_y \in Int
        BY <3>1, StickAssumption DEF RawAxis
      <3>3. /\ s_throttle_us' \in ESC_PWM_MIN_US .. ESC_PWM_FLIGHT_MAX_US
            /\ s_throttle_us' <= s_throttle_us + THROTTLE_ACCEL_MAX
        BY <1>0, <2>3, <3>1, <3>2, AccumulatorRange, AccumulatorStep
           DEF GamepadReport
      <3>4. s_throttle_us' \in Int /\ s_throttle_us \in Int
            /\ THROTTLE_ACCEL_MAX \in Nat /\ FrameCap \in Nat
        BY <1>0, <3>3, PwmAssumption, StickAssumption, CoreAssumption
      <3>5. bt_new'["killed"] = 0 /\ bt_new'["throttle"] = s_throttle_us'
        BY <2>3, <3>4, ReportSpType DEF GamepadReport
      <3>6. s_throttle_us' <= Reachable(frames')
        <4>1. CASE frames < FrameCap
          <5>1. frames' = frames + 1
            BY <1>0, <2>3, <3>4, <4>1 DEF GamepadReport, Clamp
          <5>2. Reachable(frames') = Reachable(frames) + THROTTLE_ACCEL_MAX
            BY <1>0, <4>1, <5>1, ReachableGrows
          <5>3. QED
            BY <1>a, <3>3, <3>4, <5>2 DEF CommandInv
        <4>2. CASE frames = FrameCap
          <5>1. frames' = FrameCap
            BY <1>0, <2>3, <3>4, <4>2 DEF GamepadReport, Clamp
          <5>2. ESC_PWM_FLIGHT_MAX_US <= Reachable(FrameCap)
            BY <1>0, ReachableGrows
          <5>3. QED
            BY <1>a, <3>3, <3>4, <4>2, <5>1, <5>2, PwmAssumption
        <4>3. QED
          BY <1>0, <3>4, <4>1, <4>2
      <3>7. bt_event' = "report" /\ UNCHANGED <<sp_pub, pub_frames>>
        BY <2>3 DEF GamepadReport
      <3>8. QED
        BY <3>5, <3>6, <3>7 DEF CommandInv
    <2>4. QED
      BY <1>5, <2>1, <2>2, <2>3 DEF Bluepad
  <1>6. CASE Callback
    <2>1. CASE BtTake \/ BtWrite
      BY <1>0, <2>1 DEF CommandInv, BtTake, BtWrite
    <2>2. CASE BtGiveUp
      BY <1>0, <2>2 DEF CommandInv, BtGiveUp
    <2>3. CASE BtGive
      BY <1>0, <1>a, <1>b, <2>3, PwmAssumption DEF CommandInv, BtGive
    <2>4. QED
      BY <1>6, <2>1, <2>2, <2>3 DEF Callback
  <1>7. CASE UNCHANGED vars
    BY <1>7 DEF CommandInv, vars
  <1>8. QED
    BY <1>1, <1>2, <1>3, <1>4, <1>5, <1>6, <1>7 DEF Next, FcTask, TelTask

LEMMA CommandsAreReachable == Spec => []CommandInv
  BY TypeCorrect, CommandInit, CommandStep, PTL DEF Spec

(* After a kill the throttle has to be ramped up from the bottom, even when  *)
(* the publication of the kill was dropped.                                  *)
THEOREM RampIsEnforced == Spec => []RampAfterKill
  <1>1. CommandInv => RampAfterKill
    BY DEF CommandInv, RampAfterKill, Reachable
  <1>2. QED
    BY <1>1, CommandsAreReachable, PTL

(* No other task publishes setpoints, so the kill stays published until the  *)
(* next callback.                                                            *)
LEMMA LossStep == TypeOK /\ CommandInv /\ LossInv /\ [Next]_vars => LossInv'
  <1> SUFFICES ASSUME TypeOK, CommandInv, LossInv, [Next]_vars
               PROVE  LossInv'
    OBVIOUS
  <1> USE DEF Goto, EndIteration
  <1>0. pc \in [Tasks -> Labels]
    BY DEF TypeOK
  <1>1. CASE ImuTask
    BY <1>0, <1>1 DEF LossInv, ImuTask, ImuSample, ImuTake, ImuDrop, ImuWrite,
                      ImuGive
  <1>2. ASSUME NEW r \in Readers, Snapshot(r) PROVE LossInv'
    BY <1>0, <1>2 DEF LossInv, Snapshot, Wake, TakeImu, ReadAtt, GiveImu,
                      TakeSp, ReadSp, GiveSp, TakeTimeout
  <1>3. CASE FcKilled \/ FcAngleLimit \/ FcLowThrottle \/ TelSend
    BY <1>0, <1>3 DEF LossInv, FcKilled, FcAngleLimit, FcLowThrottle, TelSend
  <1>4. ASSUME NEW out \in PidOutputs, FcFly(out) PROVE LossInv'
    BY <1>0, <1>4 DEF LossInv, FcFly, CountLateWrites
  <1>5. CASE Bluepad
    BY <1>0, <1>5 DEF LossInv, Bluepad, Connect, Ready, Disconnect, GamepadKill,
                      GamepadReport
  <1>6. CASE BtTake \/ BtWrite \/ BtGiveUp
    BY <1>0, <1>6 DEF LossInv, BtTake, BtWrite, BtGiveUp
  <1>7. CASE BtGive
    BY <1>7 DEF LossInv, CommandInv, BtGive
  <1>8. CASE UNCHANGED vars
    BY <1>8 DEF LossInv, vars
  <1>9. QED
    BY <1>1, <1>2, <1>3, <1>4, <1>5, <1>6, <1>7, <1>8
       DEF Next, FcTask, TelTask, Callback

(* A disconnect callback that got the mutex leaves the kill in force.        *)
THEOREM LossIsSafe == Spec => []DisconnectSafes
  <1>1. Init => LossInv
    BY DEF Init, LossInv
  <1>2. GlobalInv /\ LossInv => DisconnectSafes
    BY DEF GlobalInv, LossInv, DisconnectSafes
  <1>3. CopyInv => GlobalInv
    BY DEF CopyInv
  <1>4. QED
    BY <1>1, <1>2, <1>3, LossStep, TypeCorrect, CommandsAreReachable,
       CopiesAreFaithful, PTL DEF Spec

-----------------------------------------------------------------------------
(* Kills and tilts take effect within one iteration of the control loop.     *)

LEMMA LateInit == Init => LateInv
  BY DEF Init, LateInv

LEMMA LateStep ==
    TypeOK /\ WholeSnapshots /\ LateInv /\ [Next]_vars => LateInv'
  <1> SUFFICES ASSUME TypeOK, WholeSnapshots, LateInv, [Next]_vars
               PROVE  LateInv'
    OBVIOUS
  <1> USE DEF Goto, EndIteration
  <1>0. /\ pc \in [Tasks -> Labels]
        /\ late_kill \in 0 .. 2 /\ late_tilt \in 0 .. 2
        /\ snap_att \in [Readers -> Attitude]
        /\ snap_sp \in [Readers -> Setpoint]
    BY DEF TypeOK
  <1>1. CASE ImuTask
    BY <1>0, <1>1 DEF LateInv, ImuTask, ImuSample, ImuTake, ImuDrop,
                      ImuWrite, ImuGive
  <1>2. CASE Snapshot("fc")
    <2>1. CASE Wake("fc") \/ TakeTimeout("fc") \/ TakeImu("fc") \/ ReadAtt("fc")
      BY <1>0, <2>1 DEF LateInv, Wake, TakeTimeout, TakeImu, ReadAtt
    <2>2. CASE GiveImu("fc")
      BY <1>0, <2>2 DEF LateInv, WholeSnapshots, GiveImu
    <2>3. CASE TakeSp("fc") \/ ReadSp("fc")
      BY <1>0, <2>3 DEF LateInv, TakeSp, ReadSp
    <2>4. CASE GiveSp("fc")
      BY <1>0, <2>4, ControlSnapshot DEF LateInv, GiveSp
    <2>5. QED
      BY <1>2, <2>1, <2>2, <2>3, <2>4 DEF Snapshot
  <1>3. CASE Snapshot("tel") \/ TelSend
    <2>1. /\ pc'["fc"] = pc["fc"]
          /\ snap_att'["fc"] = snap_att["fc"] /\ snap_sp'["fc"] = snap_sp["fc"]
          /\ UNCHANGED <<att_pub, sp_pub, late_kill, late_tilt>>
      BY <1>0, <1>3 DEF Snapshot, Wake, TakeImu, ReadAtt, GiveImu, TakeSp,
                        ReadSp, GiveSp, TakeTimeout, TelSend
    <2>2. QED
      BY <2>1 DEF LateInv
  <1>4. CASE FcKilled \/ FcAngleLimit \/ FcLowThrottle
    BY <1>0, <1>4 DEF LateInv, FcKilled, FcAngleLimit, FcLowThrottle
  <1>5. ASSUME NEW out \in PidOutputs, FcFly(out) PROVE LateInv'
    <2>1. Spins(snap_sp["fc"]) /\ Level(snap_att["fc"]) /\ pc["fc"] = "act"
      BY <1>5 DEF FcFly, SeesKill, SeesLevel, SeesThrottle, Spins
    <2>2. late_kill = 0 /\ late_tilt = 0
      BY <2>1 DEF LateInv
    <2>3. /\ late_kill' = IF Spins(sp_pub) THEN 0 ELSE 1
          /\ late_tilt' = IF Level(att_pub) THEN 0 ELSE 1
          /\ UNCHANGED <<att_pub, sp_pub>>
          /\ pc'["fc"] = "idle"
      BY <1>0, <1>5, <2>2 DEF FcFly, CountLateWrites, Clamp
    <2>4. QED
      BY <2>3 DEF LateInv
  <1>6. CASE Bluepad
    BY <1>0, <1>6 DEF LateInv, Bluepad, Connect, Ready, Disconnect,
                      GamepadKill, GamepadReport
  <1>7. CASE Callback
    BY <1>0, <1>7 DEF LateInv, Callback, BtTake, BtGiveUp, BtWrite, BtGive
  <1>8. CASE UNCHANGED vars
    BY <1>8 DEF LateInv, vars
  <1>9. QED
    BY <1>1, <1>2, <1>3, <1>4, <1>5, <1>6, <1>7, <1>8 DEF Next, FcTask, TelTask

LEMMA LateWritesBounded == Spec => []LateInv
  BY TypeCorrect, SnapshotsAreWhole, LateInit, LateStep, PTL DEF Spec

(* After a stopping command is published the motors are driven at most once  *)
(* more, however the four tasks interleave.                                  *)
THEOREM KillsArePrompt == Spec => []KillIsPrompt
  <1>1. LateInv => KillIsPrompt
    BY DEF LateInv, KillIsPrompt
  <1>2. QED
    BY <1>1, LateWritesBounded, PTL

(* After an attitude beyond the limits is published the motors are driven at *)
(* most once more.                                                           *)
THEOREM TiltsArePrompt == Spec => []TiltIsPrompt
  <1>1. LateInv => TiltIsPrompt
    BY DEF LateInv, TiltIsPrompt
  <1>2. QED
    BY <1>1, LateWritesBounded, PTL

-----------------------------------------------------------------------------
(* The motor outputs.                                                        *)

LEMMA ClampIdempotent ==
    ASSUME NEW v \in ESC_PWM_MIN_US .. ESC_PWM_MAX_US
    PROVE  clamp_us(v) = v
  BY PwmAssumption DEF clamp_us, Clamp

(* Pulses already within the limits are emitted as they are.                 *)
LEMMA EscLastIdentity ==
    ASSUME NEW pulses \in [Motors -> ESC_PWM_MIN_US .. ESC_PWM_MAX_US]
    PROVE  EscLast(pulses) = pulses
  BY ClampIdempotent DEF EscLast

(* Skipping a write of the remembered pulse loses nothing.                   *)
LEMMA DedupeIsSound ==
    ASSUME NEW last, NEW dut, NEW pulses,
           \A m \in Motors : dut[m] = us_to_duty(last[m])
    PROVE  \A m \in Motors :
              EscDuty(last, dut, pulses)[m] = us_to_duty(EscLast(pulses)[m])
  BY DEF EscDuty, EscLast

(* The mixer's four corrections add up to zero, so some motor gets at least  *)
(* the throttle: motors that fly are never all at ESC_PWM_ARM_US.            *)
LEMMA MixSpinsSome ==
    ASSUME NEW t \in Int, NEW p \in Int, NEW r \in Int, NEW y \in Int,
           t > ESC_PWM_SPIN_US
    PROVE  motor_mix(t, p, r, y) # AllArm
  <1>1. ASSUME NEW v \in Int, v >= t PROVE clamp_us(v) > ESC_PWM_ARM_US
    BY <1>1, PwmAssumption DEF clamp_us, Clamp
  <1>2. \/ p + r - y >= 0 \/ p - r + y >= 0
        \/ r + y - p >= 0 \/ -(p + r + y) >= 0
    OBVIOUS
  <1>3. /\ motor_mix(t, p, r, y)["FL"] = clamp_us(t + Whole(p + r - y))
        /\ motor_mix(t, p, r, y)["FR"] = clamp_us(t + Whole(p - r + y))
        /\ motor_mix(t, p, r, y)["RL"] = clamp_us(t + Whole(r + y - p))
        /\ motor_mix(t, p, r, y)["RR"] = clamp_us(t + Whole(-(p + r + y)))
    BY DEF motor_mix, Motors
  <1>4. ASSUME NEW c \in Int, c >= 0
        PROVE  clamp_us(t + Whole(c)) > ESC_PWM_ARM_US
    BY <1>1, <1>4, WholeInt
  <1>5. \E m \in Motors : motor_mix(t, p, r, y)[m] > ESC_PWM_ARM_US
    BY <1>1, <1>2, <1>3, <1>4 DEF Motors
  <1>6. \A m \in Motors : AllArm[m] = ESC_PWM_ARM_US
    BY DEF AllArm
  <1>7. QED
    BY <1>5, <1>6, PwmAssumption

LEMMA OutputInit == Init => OutputInv
  BY DEF Init, OutputInv, StoppedMeansReset, DutyFollowsPulse, AllArm

LEMMA OutputStep == TypeOK /\ OutputInv /\ [Next]_vars => OutputInv'
  <1> SUFFICES ASSUME TypeOK, OutputInv, [Next]_vars PROVE OutputInv'
    OBVIOUS
  <1>1. CASE UNCHANGED outVars
    BY <1>1 DEF OutputInv, StoppedMeansReset, DutyFollowsPulse
  <1>2. CASE StopMotors
    BY <1>2, DedupeIsSound
       DEF OutputInv, StoppedMeansReset, DutyFollowsPulse, StopMotors
  <1>3. ASSUME NEW out \in PidOutputs, FcFly(out) PROVE OutputInv'
    <2> DEFINE t == snap_sp["fc"]["throttle"]
               motors == motor_mix(t, out["pitch"], out["roll"], out["yaw"])
    <2>1. out["pitch"] \in Int /\ out["roll"] \in Int /\ out["yaw"] \in Int
      BY DataAssumption, LimitAssumption
    <2>2. t \in Int /\ t > ESC_PWM_SPIN_US
      BY <1>3 DEF TypeOK, Setpoint, FcFly, SeesThrottle
    <2>3. motors \in [Motors -> ESC_PWM_MIN_US .. ESC_PWM_MAX_US]
          /\ motors # AllArm
      BY <2>1, <2>2, MixRange, MixSpinsSome
    <2>4. last_us' = motors /\ last_us' = EscLast(motors)
          /\ duty' = EscDuty(last_us, duty, motors)
      BY <1>3, <2>3, EscLastIdentity DEF FcFly, DriveMotors
    <2>5. DutyFollowsPulse'
      BY <2>4, DedupeIsSound DEF OutputInv, DutyFollowsPulse
    <2>6. QED
      BY <2>3, <2>4, <2>5 DEF OutputInv, StoppedMeansReset
  <1>4. QED
    BY <1>1, <1>2, <1>3
       DEF Next, vars, ImuTask, ImuSample, ImuTake, ImuDrop, ImuWrite, ImuGive,
           FcTask, TelTask, Snapshot, Wake, TakeImu, ReadAtt, GiveImu, TakeSp,
           ReadSp, GiveSp, TakeTimeout, FcKilled, FcAngleLimit, FcLowThrottle,
           TelSend, Bluepad, Connect, Ready, Disconnect, GamepadKill,
           GamepadReport, Callback, BtTake, BtGiveUp, BtWrite, BtGive

LEMMA OutputsAgree == Spec => []OutputInv
  BY TypeCorrect, OutputInit, OutputStep, PTL DEF Spec

(* Stopped motors mean cleared PID loops: no windup is left for spool-up.    *)
THEOREM StoppedMotorsAreReset == Spec => []StoppedMeansReset
  <1>1. OutputInv => StoppedMeansReset
    BY DEF OutputInv
  <1>2. QED
    BY <1>1, OutputsAgree, PTL

(* The PWM hardware always emits the pulse esc.c remembers.                  *)
THEOREM DutiesFollowPulses == Spec => []DutyFollowsPulse
  <1>1. OutputInv => DutyFollowsPulse
    BY DEF OutputInv
  <1>2. QED
    BY <1>1, OutputsAgree, PTL

-----------------------------------------------------------------------------
(* Starting the motors.                                                      *)

(* Only a flying iteration takes the pulses away from ESC_PWM_ARM_US.        *)
LEMMA OnlyFlyingStarts ==
    ASSUME TypeOK, [Next]_vars, last_us = AllArm, last_us' # AllArm
    PROVE  \E out \in PidOutputs : FcFly(out)
  <1>1. EscLast(AllArm) = AllArm
    BY DataTypes, EscLastIdentity
  <1>2. ~ StopMotors
    BY <1>1 DEF StopMotors
  <1>3. last_us' # last_us
    OBVIOUS
  <1>4. QED
    BY <1>2, <1>3
       DEF Next, vars, ImuTask, ImuSample, ImuTake, ImuDrop, ImuWrite, ImuGive,
           FcTask, TelTask, Snapshot, Wake, TakeImu, ReadAtt, GiveImu, TakeSp,
           ReadSp, GiveSp, TakeTimeout, FcKilled, FcAngleLimit, FcLowThrottle,
           TelSend, Bluepad, Connect, Ready, Disconnect, GamepadKill,
           GamepadReport, Callback, BtTake, BtGiveUp, BtWrite, BtGive

(* Motors that stand start only on a throttle that reports received after a  *)
(* kill have built up, or in the one iteration that raced the kill.          *)
THEOREM SpinUpsAreEarned == Spec => SpinUpIsEarned
  <1> DEFINE Earned == ESC_PWM_ARM_US + THROTTLE_ACCEL_MAX * pub_frames
                           > ESC_PWM_SPIN_US
             A == last_us = AllArm /\ last_us' # AllArm
                      => Earned \/ late_kill' = 1
  <1>1. TypeOK /\ CommandInv /\ LateInv /\ [Next]_vars => [A]_vars
    <2> SUFFICES ASSUME TypeOK, CommandInv, LateInv, [Next]_vars,
                        last_us = AllArm, last_us' # AllArm
                 PROVE  Earned \/ late_kill' = 1
      OBVIOUS
    <2>1. PICK out \in PidOutputs : FcFly(out)
      BY OnlyFlyingStarts
    <2>2. CASE Spins(sp_pub)
      <3>1. /\ sp_pub["throttle"] \in Int
            /\ sp_pub["throttle"] > ESC_PWM_SPIN_US
            /\ sp_pub["throttle"] <= Reachable(pub_frames)
        BY <2>2 DEF TypeOK, Setpoint, Spins, CommandInv
      <3>2. Reachable(pub_frames) \in Int
        BY ReachableGrows DEF TypeOK
      <3>3. Reachable(pub_frames) > ESC_PWM_SPIN_US
        BY <3>1, <3>2, PwmAssumption
      <3>4. QED
        BY <3>3 DEF Reachable
    <2>3. CASE ~ Spins(sp_pub)
      <3>1. Spins(snap_sp["fc"]) /\ pc["fc"] = "act"
        BY <2>1 DEF FcFly, SeesKill, SeesThrottle, Spins
      <3>2. late_kill = 0
        BY <3>1 DEF LateInv
      <3>3. late_kill' = Clamp(late_kill + 1, 0, 2)
        BY <2>1, <2>3 DEF FcFly, CountLateWrites
      <3>4. QED
        BY <3>2, <3>3 DEF Clamp
    <2>4. QED
      BY <2>2, <2>3
  <1>2. QED
    BY <1>1, TypeCorrect, CommandsAreReachable, LateWritesBounded, PTL
       DEF Spec, SpinUpIsEarned

-----------------------------------------------------------------------------
(* The demands of the pilot.                                                 *)

(* Everything on its way from the stick to the control loop is in range.     *)
RangeInv ==
    /\ InRange(bt_new)
    /\ InRange(g_sp)
    /\ \A r \in Readers : InRange(snap_sp[r])

(* A product with a factor no larger than b is no larger than k times b.     *)
LEMMA ScaledWithin ==
    ASSUME NEW v \in Int, NEW b \in Nat, NEW k \in Nat, Within(v, b)
    PROVE  v * k \in Int /\ Within(v * k, k * b)
  <1>1. v * k <= b * k /\ (-b) * k <= v * k
    BY DEF Within
  <1>2. (-b) * k = -(k * b) /\ b * k = k * b
    OBVIOUS
  <1>3. QED
    BY <1>1, <1>2 DEF Within

LEMMA DeadbandWithin ==
    ASSUME NEW raw \in Int, Within(raw, STICK_MAX)
    PROVE  apply_deadband(raw) \in Int /\ Within(apply_deadband(raw), STICK_MAX)
  BY StickAssumption DEF apply_deadband, Within

(* Negating the raw value -STICK_MAX stays within the bound.                 *)
LEMMA ReportInRange ==
    ASSUME NEW thr \in ESC_PWM_MIN_US .. ESC_PWM_FLIGHT_MAX_US,
           NEW r \in Reports
    PROVE  InRange(ReportSp(thr, r))
  <1>1. /\ -r.axis_ry \in Int /\ Within(-r.axis_ry, STICK_MAX)
        /\ r.axis_rx \in Int /\ Within(r.axis_rx, STICK_MAX)
        /\ r.axis_x \in Int /\ Within(r.axis_x, STICK_MAX)
    BY CoreAssumption, StickAssumption DEF Report, RawAxis, Within
  <1>2. /\ Within(normalize_angle(-r.axis_ry), ANGLE_SETPOINT_MAX * STICK_MAX)
        /\ Within(normalize_angle(r.axis_rx), ANGLE_SETPOINT_MAX * STICK_MAX)
        /\ Within(normalize_yaw(r.axis_x), YAW_RATE_MAX * STICK_MAX)
    BY <1>1, DeadbandWithin, ScaledWithin, StickAssumption
       DEF normalize_angle, normalize_yaw
  <1>3. /\ ESC_PWM_MIN_US <= thr /\ thr <= ESC_PWM_FLIGHT_MAX_US
    BY PwmAssumption
  <1>4. /\ ReportSp(thr, r)["throttle"] = thr
        /\ ReportSp(thr, r)["pitch_sp"] = normalize_angle(-r.axis_ry)
        /\ ReportSp(thr, r)["roll_sp"] = normalize_angle(r.axis_rx)
        /\ ReportSp(thr, r)["yaw_sp"] = normalize_yaw(r.axis_x)
    BY DEF ReportSp
  <1>5. QED
    BY <1>2, <1>3, <1>4 DEF InRange

LEMMA RestInRange == InRange(IdleSp) /\ InRange(KillSp)
  <1>1. Within(0, ANGLE_SETPOINT_MAX * STICK_MAX)
        /\ Within(0, YAW_RATE_MAX * STICK_MAX)
    <2>1. ANGLE_SETPOINT_MAX * STICK_MAX \in Nat /\ YAW_RATE_MAX * STICK_MAX \in Nat
      BY StickAssumption
    <2>2. \A b \in Nat : Within(0, b)
      BY DEF Within
    <2>3. QED
      BY <2>1, <2>2
  <1>2. \A s \in {IdleSp, KillSp} :
            /\ s["throttle"] = ESC_PWM_ARM_US
            /\ s["pitch_sp"] = 0 /\ s["roll_sp"] = 0 /\ s["yaw_sp"] = 0
    BY DEF IdleSp, KillSp
  <1>3. QED
    BY <1>1, <1>2, PwmAssumption DEF InRange

(* Copying one field between records in range keeps the copy in range.       *)
LEMMA CopyInRange ==
    ASSUME NEW s \in Setpoint, NEW new \in Setpoint, NEW f \in SpFields,
           InRange(s), InRange(new)
    PROVE  InRange([s EXCEPT ![f] = new[f]])
  <1>1. \A g \in SpFields : [s EXCEPT ![f] = new[f]][g] \in {s[g], new[g]}
    BY DEF Setpoint
  <1>2. QED
    BY <1>1 DEF InRange

LEMMA RangeStep == TypeOK /\ RangeInv /\ [Next]_vars => RangeInv'
  <1> SUFFICES ASSUME TypeOK, RangeInv, [Next]_vars PROVE RangeInv'
    OBVIOUS
  <1> USE DEF EndIteration
  <1>0. /\ bt_new \in Setpoint /\ g_sp \in Setpoint
        /\ snap_sp \in [Readers -> Setpoint]
        /\ pos \in [Tasks -> 1 .. 6]
    BY DEF TypeOK
  <1>1. CASE UNCHANGED <<bt_new, g_sp, snap_sp>>
    BY <1>1 DEF RangeInv
  <1>2. ASSUME NEW r \in Readers, UNCHANGED <<bt_new, g_sp>>, EndIteration(r)
        PROVE  RangeInv'
    BY <1>0, <1>2, RestInRange DEF RangeInv
  <1>3. ASSUME NEW r \in Readers, ReadSp(r) PROVE RangeInv'
    <2> DEFINE f == ReadOrder(r)[pos[r]]
    <2>1. f \in SpFields
      BY <1>0, <1>3, OrderLengths DEF ReadSp, ReadOrder, TelOrder, SpOrder
    <2>2. snap_sp' = [snap_sp EXCEPT ![r] = [@ EXCEPT ![f] = g_sp[f]]]
          /\ UNCHANGED <<bt_new, g_sp>>
      BY <1>3 DEF ReadSp
    <2>3. InRange([snap_sp[r] EXCEPT ![f] = g_sp[f]])
      BY <1>0, <2>1, CopyInRange DEF RangeInv
    <2> HIDE DEF f
    <2>4. \A q \in Readers : InRange(snap_sp'[q])
      BY <1>0, <2>2, <2>3 DEF RangeInv
    <2>5. QED
      BY <2>2, <2>4 DEF RangeInv
  <1>4. ASSUME NEW d \in Devices, Disconnect(d) \/ GamepadKill(d)
        PROVE  RangeInv'
    BY <1>4, RestInRange DEF RangeInv, Disconnect, GamepadKill
  <1>5. ASSUME NEW d \in Devices, NEW r \in Reports, GamepadReport(d, r)
        PROVE  RangeInv'
    <2>1. r.axis_y \in Int
      BY CoreAssumption, StickAssumption DEF Report, RawAxis
    <2>2. s_throttle_us' \in ESC_PWM_MIN_US .. ESC_PWM_FLIGHT_MAX_US
      BY <1>5, <2>1, AccumulatorRange DEF TypeOK, GamepadReport
    <2>3. InRange(bt_new')
      BY <1>5, <2>2, ReportInRange DEF GamepadReport
    <2>4. QED
      BY <1>5, <2>3 DEF RangeInv, GamepadReport
  <1>6. CASE BtGiveUp \/ BtGive
    BY <1>6, RestInRange DEF RangeInv, BtGiveUp, BtGive
  <1>7. CASE BtWrite
    <2> DEFINE f == BtOrder[pos["bt"]]
    <2>1. f \in SpFields
      BY <1>0, <1>7, OrderLengths DEF BtWrite, BtOrder, KillOrder, SpOrder
    <2>2. g_sp' = [g_sp EXCEPT ![f] = bt_new[f]] /\ UNCHANGED <<bt_new, snap_sp>>
      BY <1>7 DEF BtWrite
    <2>3. InRange([g_sp EXCEPT ![f] = bt_new[f]])
      BY <1>0, <2>1, CopyInRange DEF RangeInv
    <2> HIDE DEF f
    <2>4. QED
      BY <2>2, <2>3 DEF RangeInv
  <1>8. QED
    BY <1>1, <1>2, <1>3, <1>4, <1>5, <1>6, <1>7
       DEF Next, vars, ImuTask, ImuSample, ImuTake, ImuDrop, ImuWrite, ImuGive,
           FcTask, TelTask, Snapshot, Wake, TakeImu, ReadAtt, GiveImu, TakeSp,
           GiveSp, TakeTimeout, FcKilled, FcAngleLimit, FcLowThrottle, FcFly,
           TelSend, Bluepad, Connect, Ready, Callback, BtTake

LEMMA EverythingInRange == Spec => []RangeInv
  <1>1. Init => RangeInv
    BY RestInRange DEF Init, RangeInv
  <1>2. QED
    BY <1>1, RangeStep, TypeCorrect, PTL DEF Spec

(* No stick movement, race or copy makes the control loop act on a throttle, *)
(* an angle or a yaw rate beyond the limits of config.h.                     *)
THEOREM DemandsStayInRange == Spec => []DemandsInRange
  <1>1. RangeInv => DemandsInRange
    BY DEF RangeInv, DemandsInRange
  <1>2. QED
    BY <1>1, EverythingInRange, PTL

-----------------------------------------------------------------------------
(* The head-room of the mixer.                                               *)

LEMMA ClampBelow ==
    ASSUME NEW v \in Int, NEW b \in Int, v <= b, ESC_PWM_MIN_US <= b
    PROVE  clamp_us(v) <= b
  BY PwmAssumption DEF clamp_us, Clamp

(* Three corrections of a loop each, in whole microseconds.                  *)
LEMMA WholeBound ==
    ASSUME NEW c \in Int, NEW l \in Nat, c <= 3 * (l * OUT_SCALE)
    PROVE  Whole(c) <= 3 * l
  <1>1. c <= (3 * l) * 10
    BY DEF OUT_SCALE
  <1>2. QED
    BY <1>1 DEF Whole, OUT_SCALE

LEMMA MixBound ==
    ASSUME NEW t \in Int, NEW l \in Nat, ESC_PWM_MIN_US <= t,
           NEW p \in -(l * OUT_SCALE) .. (l * OUT_SCALE),
           NEW r \in -(l * OUT_SCALE) .. (l * OUT_SCALE),
           NEW y \in -(l * OUT_SCALE) .. (l * OUT_SCALE),
           NEW m \in Motors
    PROVE  motor_mix(t, p, r, y)[m] <= t + 3 * l
  <1>1. ASSUME NEW c \in Int, c <= 3 * (l * OUT_SCALE)
        PROVE  clamp_us(t + Whole(c)) <= t + 3 * l
    <2>1. Whole(c) \in Int /\ Whole(c) <= 3 * l /\ 3 * l \in Nat
      BY <1>1, WholeInt, WholeBound
    <2>2. t + Whole(c) \in Int /\ t + 3 * l \in Int
          /\ t + Whole(c) <= t + 3 * l /\ ESC_PWM_MIN_US <= t + 3 * l
      BY <2>1, PwmAssumption
    <2>3. QED
      BY <2>2, ClampBelow
  <1>2. /\ p + r - y \in Int /\ p + r - y <= 3 * (l * OUT_SCALE)
        /\ p - r + y \in Int /\ p - r + y <= 3 * (l * OUT_SCALE)
        /\ r + y - p \in Int /\ r + y - p <= 3 * (l * OUT_SCALE)
        /\ -(p + r + y) \in Int /\ -(p + r + y) <= 3 * (l * OUT_SCALE)
    BY DEF OUT_SCALE
  <1>3. /\ motor_mix(t, p, r, y)["FL"] = clamp_us(t + Whole(p + r - y))
        /\ motor_mix(t, p, r, y)["FR"] = clamp_us(t + Whole(p - r + y))
        /\ motor_mix(t, p, r, y)["RL"] = clamp_us(t + Whole(r + y - p))
        /\ motor_mix(t, p, r, y)["RR"] = clamp_us(t + Whole(-(p + r + y)))
    BY DEF motor_mix, Motors
  <1>4. QED
    BY <1>1, <1>2, <1>3 DEF Motors

LEMMA HeadroomStep ==
    TypeOK /\ RangeInv /\ HeadroomKept /\ [Next]_vars => HeadroomKept'
  <1> SUFFICES ASSUME TypeOK, RangeInv, HeadroomKept, [Next]_vars
               PROVE  HeadroomKept'
    OBVIOUS
  <1>0. ESC_PWM_FLIGHT_MAX_US + 3 * PID_OUTPUT_LIMIT \in Int
        /\ ESC_PWM_ARM_US <= ESC_PWM_FLIGHT_MAX_US + 3 * PID_OUTPUT_LIMIT
    BY PwmAssumption, LimitAssumption
  <1>1. CASE last_us' = last_us
    BY <1>1 DEF HeadroomKept
  <1>2. CASE last_us' = EscLast(AllArm)
    <2>1. EscLast(AllArm) = AllArm
      BY DataTypes, EscLastIdentity
    <2>2. QED
      BY <1>0, <1>2, <2>1 DEF HeadroomKept, AllArm
  <1>3. ASSUME NEW out \in PidOutputs, FcFly(out) PROVE HeadroomKept'
    <2> DEFINE t == snap_sp["fc"]["throttle"]
               motors == motor_mix(t, out["pitch"], out["roll"], out["yaw"])
    <2>1. \A a \in {"pitch", "roll", "yaw"} :
             out[a] \in -(PID_OUTPUT_LIMIT * OUT_SCALE)
                           .. (PID_OUTPUT_LIMIT * OUT_SCALE)
      BY DataAssumption
    <2>2. PID_OUTPUT_LIMIT * OUT_SCALE \in Int
      BY LimitAssumption DEF OUT_SCALE
    <2>3. out["pitch"] \in Int /\ out["roll"] \in Int /\ out["yaw"] \in Int
      BY <2>1, <2>2
    <2>4. t \in Int /\ ESC_PWM_MIN_US <= t /\ t <= ESC_PWM_FLIGHT_MAX_US
      BY DEF TypeOK, Setpoint, RangeInv, InRange
    <2>5. motors \in [Motors -> ESC_PWM_MIN_US .. ESC_PWM_MAX_US]
      <3> HIDE DEF t
      <3> QED
        BY <2>3, <2>4, MixRange
    <2>6. last_us' = EscLast(motors)
      BY <1>3 DEF FcFly, DriveMotors
    <2>7. last_us' = motors
      <3> HIDE DEF motors
      <3> QED
        BY <2>5, <2>6, EscLastIdentity
    <2>8. ASSUME NEW m \in Motors
          PROVE  motors[m] <= ESC_PWM_FLIGHT_MAX_US + 3 * PID_OUTPUT_LIMIT
      <3>1. motors[m] <= t + 3 * PID_OUTPUT_LIMIT
        BY <2>1, <2>4, LimitAssumption, MixBound
      <3>2. motors[m] \in Int
        <4> HIDE DEF motors
        <4> QED
          BY <2>5, PwmAssumption
      <3> HIDE DEF motors, t
      <3>3. QED
        BY <2>4, <3>1, <3>2, PwmAssumption, LimitAssumption
    <2>9. QED
      BY <2>7, <2>8 DEF HeadroomKept
  <1>4. QED
    BY <1>1, <1>2, <1>3
       DEF Next, vars, ImuTask, ImuSample, ImuTake, ImuDrop, ImuWrite, ImuGive,
           FcTask, TelTask, Snapshot, Wake, TakeImu, ReadAtt, GiveImu, TakeSp,
           ReadSp, GiveSp, TakeTimeout, FcKilled, FcAngleLimit, FcLowThrottle,
           StopMotors, TelSend, Bluepad, Connect, Ready, Disconnect, GamepadKill,
           GamepadReport, Callback, BtTake, BtGiveUp, BtWrite, BtGive

(* No motor is ever given more than the pilot's ceiling and three full       *)
(* corrections.                                                              *)
THEOREM MotorsHaveHeadroom == Spec => []HeadroomKept
  <1>1. Init => HeadroomKept
    <2>1. ESC_PWM_ARM_US <= ESC_PWM_FLIGHT_MAX_US + 3 * PID_OUTPUT_LIMIT
      BY PwmAssumption, LimitAssumption
    <2>2. QED
      BY <2>1 DEF Init, HeadroomKept, AllArm
  <1>2. QED
    BY <1>1, HeadroomStep, EverythingInRange, TypeCorrect, PTL DEF Spec

-----------------------------------------------------------------------------
(* No task waits for a mutex while it holds one, so no two tasks can wait    *)
(* for each other.                                                           *)
THEOREM NoHoldAndWait == Spec => []HoldersDoNotWait
  <1>1. TypeOK /\ MutexInv => HoldersDoNotWait
    <2> SUFFICES ASSUME TypeOK, MutexInv, NEW t \in Tasks,
                        t \in {imu_mutex, setpoint_mutex}
                 PROVE  pc[t] \notin {"try", "take", "take_imu", "take_sp"}
      BY DEF HoldersDoNotWait
    <2>1. CASE t = imu_mutex
      <3>1. t \in {"imu", "fc", "tel"}
        BY <2>1 DEF TypeOK
      <3>2. pc[t] \in {"write", "read_att"}
        BY <2>1, <3>1 DEF MutexInv
      <3>3. QED
        BY <3>2
    <2>2. CASE t = setpoint_mutex
      <3>1. t \in {"bt", "fc", "tel"}
        BY <2>2 DEF TypeOK
      <3>2. pc[t] \in {"write", "read_sp"}
        BY <2>2, <3>1 DEF MutexInv
      <3>3. QED
        BY <3>2
    <2>3. QED
      BY <2>1, <2>2
  <1>2. QED
    BY <1>1, TypeCorrect, MutualExclusion, PTL
=============================================================================
