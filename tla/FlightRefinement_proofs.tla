---------------------- MODULE FlightRefinement_proofs ----------------------
(* FlightCore implements AtomicFlight: with the invariants of                *)
(* FlightCore_proofs every step of a task is a step of the abstract control  *)
(* loop, or changes nothing the abstract specification sees.                 *)
EXTENDS FlightCore_proofs

USE DEF AttFields, SpFields, Tasks, Readers
USE DEF sharedVars, btVars, snapVars, outVars, ghostVars

(* Both specifications speak of the same data.                               *)
LEMMA SameData ==
    /\ Atomic!ZeroAtt = ZeroAtt
    /\ Atomic!IdleSp = IdleSp
    /\ Atomic!KillSp = KillSp
    /\ Atomic!AllArm = AllArm
    /\ Atomic!Setpoint = Setpoint
  BY DEF Atomic!ZeroAtt, ZeroAtt, Atomic!IdleSp, IdleSp, Atomic!KillSp, KillSp,
         Atomic!AllArm, AllArm, Atomic!Motors, Motors, Atomic!Setpoint, Setpoint,
         Atomic!AttFields, Atomic!SpFields

LEMMA SameConditions ==
    ASSUME NEW a, NEW c
    PROVE  /\ Atomic!Level(a) <=> Level(a)
           /\ Atomic!Spins(c) <=> Spins(c)
  BY DEF Atomic!Level, Level, Atomic!Spins, Spins

LEMMA SameMixer ==
    ASSUME NEW t, NEW p, NEW r, NEW y
    PROVE  Atomic!motor_mix(t, p, r, y) = motor_mix(t, p, r, y)
  BY DEF Atomic!motor_mix, motor_mix, Atomic!clamp_us, clamp_us, Atomic!Clamp,
         Clamp, Atomic!Motors, Motors, Atomic!Whole, Whole,
         Atomic!OUT_SCALE, OUT_SCALE

(* What imu_task carries is something the filters delivered.                 *)
SampleInv == pc["imu"] # "idle" => imu_new \in Attitudes

LEMMA SampleStep == TypeOK /\ SampleInv /\ [Next]_vars => SampleInv'
  <1> SUFFICES ASSUME TypeOK, SampleInv, [Next]_vars PROVE SampleInv'
    OBVIOUS
  <1> USE DEF Goto, EndIteration
  <1>0. pc \in [Tasks -> Labels]
    BY DEF TypeOK
  <1>1. CASE ImuTask
    BY <1>0, <1>1 DEF SampleInv, ImuTask, ImuSample, ImuTake, ImuDrop,
                      ImuWrite, ImuGive
  <1>2. ASSUME NEW r \in Readers, Snapshot(r) PROVE SampleInv'
    BY <1>0, <1>2 DEF SampleInv, Snapshot, Wake, TakeImu, ReadAtt, GiveImu,
                      TakeSp, ReadSp, GiveSp, TakeTimeout
  <1>3. CASE FcKilled \/ FcAngleLimit \/ FcLowThrottle \/ TelSend
    BY <1>0, <1>3 DEF SampleInv, FcKilled, FcAngleLimit, FcLowThrottle, TelSend
  <1>4. ASSUME NEW out \in PidOutputs, FcFly(out) PROVE SampleInv'
    BY <1>0, <1>4 DEF SampleInv, FcFly
  <1>5. CASE Bluepad \/ Callback
    BY <1>0, <1>5 DEF SampleInv, Bluepad, Connect, Ready, Disconnect,
                      GamepadKill, GamepadReport, Callback, BtTake, BtGiveUp,
                      BtWrite, BtGive
  <1>6. CASE UNCHANGED vars
    BY <1>6 DEF SampleInv, vars
  <1>7. QED
    BY <1>1, <1>2, <1>3, <1>4, <1>5, <1>6 DEF Next, FcTask, TelTask

LEMMA SamplesAreAttitudes == Spec => []SampleInv
  <1>1. Init => SampleInv
    BY DEF Init, SampleInv
  <1>2. QED
    BY <1>1, SampleStep, TypeCorrect, PTL DEF Spec

-----------------------------------------------------------------------------
(* A step that leaves alone the publications, the pulses and what            *)
(* flight_ctrl_task has seen is a stutter of the abstract specification.     *)
LEMMA Stutter ==
    ASSUME UNCHANGED <<att_pub, sp_pub, last_us, FcPhase>>,
           FcPhase # "rest" => snap_att'["fc"] = snap_att["fc"],
           FcPhase = "command" => snap_sp'["fc"] = snap_sp["fc"]
    PROVE  UNCHANGED Atomic!avars
  BY DEF Atomic!avars

(* Stopping the motors is the abstract Stop.                                 *)
LEMMA StopImplements ==
    ASSUME TypeOK, pc["fc"] = "act", StopMotors, EndIteration("fc"),
           ~ (Level(snap_att["fc"]) /\ Spins(snap_sp["fc"])),
           UNCHANGED <<att_pub, sp_pub>>
    PROVE  Atomic!Stop
  <1>1. last_us' = AllArm
    BY DataTypes, EscLastIdentity DEF StopMotors
  <1>2. FcPhase = "command" /\ FcPhase' = "rest"
    BY DEF TypeOK, EndIteration, Goto, FcPhase
  <1>3. QED
    BY <1>1, <1>2, SameData, SameConditions DEF Atomic!Stop, Atomic!Forget

LEMMA StepRefines ==
    TypeOK /\ MutexInv /\ WholeSnapshots /\ CommandInv /\ SampleInv /\ [Next]_vars
        => [Atomic!ANext]_(Atomic!avars)
  <1> SUFFICES ASSUME TypeOK, MutexInv, WholeSnapshots, CommandInv, SampleInv,
                      [Next]_vars
               PROVE  Atomic!ANext \/ UNCHANGED Atomic!avars
    BY DEF Atomic!avars
  <1>0. /\ pc \in [Tasks -> Labels]
        /\ snap_att \in [Readers -> Attitude]
        /\ snap_sp \in [Readers -> Setpoint]
        /\ bt_new \in Setpoint
    BY DEF TypeOK
  <1>1. CASE ImuTask
    <2>1. CASE ImuGive
      <3>1. Atomic!NewAttitude
        BY <1>0, <2>1 DEF SampleInv, ImuGive, Goto, FcPhase, Atomic!NewAttitude
      <3>2. QED
        BY <3>1 DEF Atomic!ANext
    <2>2. CASE ImuTake \/ ImuDrop \/ ImuWrite \/ \E a \in Attitudes : ImuSample(a)
      <3>1. UNCHANGED <<att_pub, sp_pub, last_us, FcPhase, snap_att, snap_sp>>
        BY <1>0, <2>2 DEF ImuTake, ImuDrop, ImuWrite, ImuSample, Goto, FcPhase
      <3>2. QED
        BY <3>1, Stutter
    <2>3. QED
      BY <1>1, <2>1, <2>2 DEF ImuTask
  <1>2. CASE Snapshot("fc")
    <2>1. CASE GiveImu("fc")
      <3>1. FcPhase = "rest" /\ FcPhase' = "attitude"
        BY <1>0, <2>1 DEF GiveImu, Goto, FcPhase
      <3>2. snap_att["fc"] = att_pub
        BY <2>1 DEF GiveImu, WholeSnapshots
      <3>3. Atomic!SeeAttitude
        BY <2>1, <3>1, <3>2 DEF GiveImu, Atomic!SeeAttitude
      <3>4. QED
        BY <3>3 DEF Atomic!ANext
    <2>2. CASE GiveSp("fc")
      <3>1. FcPhase = "attitude" /\ FcPhase' = "command"
        BY <1>0, <2>2 DEF GiveSp, Goto, FcPhase
      <3>2. snap_sp["fc"] = sp_pub
        BY <2>2, ControlSnapshot DEF GiveSp
      <3>3. Atomic!SeeCommand
        BY <2>2, <3>1, <3>2 DEF GiveSp, Atomic!SeeCommand
      <3>4. QED
        BY <3>3 DEF Atomic!ANext
    <2>3. CASE TakeTimeout("fc") /\ pc["fc"] = "take_sp"
      <3>1. FcPhase = "attitude" /\ FcPhase' = "rest"
        BY <1>0, <2>3 DEF TakeTimeout, EndIteration, Goto, FcPhase
      <3>2. Atomic!GiveUp
        BY <2>3, <3>1, SameData DEF TakeTimeout, Atomic!GiveUp, Atomic!Forget
      <3>3. QED
        BY <3>2 DEF Atomic!ANext
    <2>4. CASE \/ Wake("fc") \/ TakeImu("fc") \/ ReadAtt("fc")
               \/ TakeTimeout("fc") /\ pc["fc"] # "take_sp"
      <3>1. FcPhase = "rest" /\ FcPhase' = "rest"
        BY <1>0, <2>4 DEF Wake, TakeImu, ReadAtt, TakeTimeout, EndIteration,
                          Goto, FcPhase
      <3>2. UNCHANGED <<att_pub, sp_pub, last_us>>
        BY <2>4 DEF Wake, TakeImu, ReadAtt, TakeTimeout
      <3>3. QED
        BY <3>1, <3>2, Stutter
    <2>5. CASE TakeSp("fc") \/ ReadSp("fc")
      <3>1. FcPhase = "attitude" /\ FcPhase' = "attitude"
        BY <1>0, <2>5 DEF TakeSp, ReadSp, Goto, FcPhase
      <3>2. UNCHANGED <<att_pub, sp_pub, last_us, snap_att>>
        BY <2>5 DEF TakeSp, ReadSp
      <3>3. QED
        BY <3>1, <3>2, Stutter
    <2>6. QED
      BY <1>2, <2>1, <2>2, <2>3, <2>4, <2>5 DEF Snapshot
  <1>3. CASE Snapshot("tel") \/ TelSend
    <2>1. /\ pc'["fc"] = pc["fc"]
          /\ snap_att'["fc"] = snap_att["fc"] /\ snap_sp'["fc"] = snap_sp["fc"]
          /\ UNCHANGED <<att_pub, sp_pub, last_us>>
      BY <1>0, <1>3 DEF Snapshot, Wake, TakeImu, ReadAtt, GiveImu, TakeSp,
                        ReadSp, GiveSp, TakeTimeout, TelSend, EndIteration, Goto
    <2>2. QED
      BY <2>1, Stutter DEF FcPhase
  <1>4. CASE FcKilled \/ FcAngleLimit \/ FcLowThrottle
    <2>1. ~ (Level(snap_att["fc"]) /\ Spins(snap_sp["fc"]))
      BY <1>4 DEF FcKilled, FcAngleLimit, FcLowThrottle, SeesKill, SeesLevel,
                  SeesThrottle, Spins
    <2>2. Atomic!Stop
      BY <1>4, <2>1, StopImplements DEF FcKilled, FcAngleLimit, FcLowThrottle
    <2>3. QED
      BY <2>2 DEF Atomic!ANext
  <1>5. ASSUME NEW out \in PidOutputs, FcFly(out) PROVE Atomic!ANext
    <2> DEFINE t == snap_sp["fc"]["throttle"]
               motors == motor_mix(t, out["pitch"], out["roll"], out["yaw"])
    <2>1. out["pitch"] \in Int /\ out["roll"] \in Int /\ out["yaw"] \in Int
      BY DataAssumption, LimitAssumption
    <2>2. t \in Int
      BY <1>0 DEF Setpoint
    <2>3. last_us' = motors
      <3>1. motors \in [Motors -> ESC_PWM_MIN_US .. ESC_PWM_MAX_US]
        BY <2>1, <2>2, MixRange
      <3>2. last_us' = EscLast(motors)
        BY <1>5 DEF FcFly, DriveMotors
      <3>3. QED
        BY <3>1, <3>2, EscLastIdentity
    <2>4. FcPhase = "command" /\ FcPhase' = "rest"
      BY <1>0, <1>5 DEF FcFly, EndIteration, Goto, FcPhase
    <2>5. Level(snap_att["fc"]) /\ Spins(snap_sp["fc"])
      BY <1>5 DEF FcFly, SeesKill, SeesLevel, SeesThrottle, Spins
    <2>6. Atomic!Drive
      <3>1. UNCHANGED <<att_pub, sp_pub>>
        BY <1>5 DEF FcFly, CountLateWrites
      <3>2. last_us' = Atomic!motor_mix(t, out["pitch"], out["roll"], out["yaw"])
        BY <2>3, SameMixer
      <3>3. QED
        BY <2>4, <2>5, <3>1, <3>2, SameData, SameConditions
           DEF Atomic!Drive, Atomic!Forget
    <2>7. QED
      BY <2>6 DEF Atomic!ANext
  <1>6. CASE Bluepad
    <2>1. UNCHANGED <<att_pub, sp_pub, last_us, FcPhase, snap_att, snap_sp>>
      BY <1>0, <1>6 DEF Bluepad, Connect, Ready, Disconnect, GamepadKill,
                        GamepadReport, Goto, FcPhase
    <2>2. QED
      BY <2>1, Stutter
  <1>7. CASE Callback
    <2>1. CASE BtGive
      <3>1. \/ bt_new = KillSp
            \/ bt_new["killed"] = 0
               /\ bt_new["throttle"] \in ESC_PWM_MIN_US .. ESC_PWM_FLIGHT_MAX_US
        BY <2>1 DEF BtGive, CommandInv, TypeOK
      <3>2. UNCHANGED <<att_pub, last_us, FcPhase, snap_att, snap_sp>>
            /\ sp_pub' = bt_new
        BY <1>0, <2>1 DEF BtGive, Goto, FcPhase
      <3>3. Atomic!NewCommand
        BY <1>0, <3>1, <3>2, SameData DEF Atomic!NewCommand
      <3>4. QED
        BY <3>3 DEF Atomic!ANext
    <2>2. CASE BtTake \/ BtGiveUp \/ BtWrite
      <3>1. UNCHANGED <<att_pub, sp_pub, last_us, FcPhase, snap_att, snap_sp>>
        BY <1>0, <2>2 DEF BtTake, BtGiveUp, BtWrite, Goto, FcPhase
      <3>2. QED
        BY <3>1, Stutter
    <2>3. QED
      BY <1>7, <2>1, <2>2 DEF Callback
  <1>8. CASE UNCHANGED vars
    BY <1>8, Stutter DEF vars, FcPhase
  <1>9. QED
    BY <1>1, <1>2, <1>3, <1>4, <1>5, <1>6, <1>7, <1>8 DEF Next, FcTask, TelTask

(* The tasks, their mutexes and their field by field copies implement the    *)
(* atomic control loop, for every set of reports, attitudes and gamepads.    *)
THEOREM CoreImplementsAtomic == Spec => AtomicSpec
  <1>1. Init => Atomic!AInit
    BY SameData DEF Init, Atomic!AInit, FcPhase
  <1>2. QED
    BY <1>1, StepRefines, TypeCorrect, MutualExclusion, SnapshotsAreWhole,
       CommandsAreReachable, SamplesAreAttitudes, PTL
       DEF Spec, AtomicSpec, Atomic!ASpec
=============================================================================
