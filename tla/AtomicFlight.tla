---------------------------- MODULE AtomicFlight ----------------------------
(* What the firmware's core promises, without tasks, mutexes or fields: the  *)
(* attitude and the command are replaced as wholes, and the control loop     *)
(* looks at one whole attitude, then at one whole command, then drives the   *)
(* motors by what it saw or stops them.                                      *)
EXTENDS FlightData

VARIABLES
    att, cmd,           \* the current attitude and the current command
    phase,              \* what the control loop has looked at so far
    seen_att, seen_cmd, \* what it saw
    pulse               \* what drives each motor

avars == <<att, cmd, phase, seen_att, seen_cmd, pulse>>

AInit ==
    /\ att = ZeroAtt
    /\ cmd = IdleSp
    /\ phase = "rest"
    /\ seen_att = ZeroAtt
    /\ seen_cmd = IdleSp
    /\ pulse = AllArm

NewAttitude ==
    /\ att' \in Attitudes
    /\ UNCHANGED <<cmd, phase, seen_att, seen_cmd, pulse>>

(* A kill, or a command whose throttle is within the pilot's range.          *)
NewCommand ==
    /\ cmd' \in Setpoint
    /\ \/ cmd' = KillSp
       \/ /\ cmd'["killed"] = 0
          /\ cmd'["throttle"] \in ESC_PWM_MIN_US .. ESC_PWM_FLIGHT_MAX_US
    /\ UNCHANGED <<att, phase, seen_att, seen_cmd, pulse>>

SeeAttitude ==
    /\ phase = "rest"
    /\ phase' = "attitude"
    /\ seen_att' = att
    /\ UNCHANGED <<att, cmd, seen_cmd, pulse>>

SeeCommand ==
    /\ phase = "attitude"
    /\ phase' = "command"
    /\ seen_cmd' = cmd
    /\ UNCHANGED <<att, cmd, seen_att, pulse>>

Forget ==
    /\ phase' = "rest"
    /\ seen_att' = ZeroAtt
    /\ seen_cmd' = IdleSp

GiveUp ==
    /\ phase = "attitude"
    /\ Forget
    /\ UNCHANGED <<att, cmd, pulse>>

Stop ==
    /\ phase = "command"
    /\ ~ (Level(seen_att) /\ Spins(seen_cmd))
    /\ pulse' = AllArm
    /\ Forget
    /\ UNCHANGED <<att, cmd>>

Drive ==
    /\ phase = "command"
    /\ Level(seen_att) /\ Spins(seen_cmd)
    /\ \E out \in PidOutputs :
          pulse' = motor_mix(seen_cmd["throttle"],
                             out["pitch"], out["roll"], out["yaw"])
    /\ Forget
    /\ UNCHANGED <<att, cmd>>

ANext ==
    \/ NewAttitude \/ NewCommand
    \/ SeeAttitude \/ SeeCommand \/ GiveUp
    \/ Stop \/ Drive

ASpec == AInit /\ [][ANext]_avars
=============================================================================
