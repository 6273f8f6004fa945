------------------------------- MODULE PidLoop -------------------------------
(* The time base and the arithmetic of the three PID loops: pid.c, and the   *)
(* dt that flight_controller_update computes from a microsecond clock kept   *)
(* in 32 bits.  One iteration of flight_ctrl_task is a delay and one of the  *)
(* ways it can go on.  Floats are integers: angles in degrees, times in      *)
(* ticks, an integral in degrees times ticks; a division rounds down.        *)
EXTENDS Integers

CONSTANTS
    CLOCK_MOD,          \* number of values of a uint32_t count of ticks
    TICKS_PER_S,
    DT_MAX,             \* the 0.1 s beyond which dt is not believed
    DT_DEFAULT,         \* the 0.01 s used instead
    INTEGRAL_LIMIT,     \* PID_INTEGRAL_LIMIT
    OUTPUT_LIMIT,       \* PID_OUTPUT_LIMIT
    ERR_MAX,            \* largest error of a loop, in either direction
    Errors,             \* setpoint - measurement, for the three loops
    GainSets,           \* gains that may be in force
    Delays,             \* time from one iteration to the next
    BootTimes,          \* clock readings when flight_controller_init runs
    TIME_CAP            \* where the two elapsed times stop counting

Axes == {"pitch", "roll", "yaw"}

ASSUME PidAssumption ==
    /\ CLOCK_MOD \in Nat
    /\ TICKS_PER_S \in Nat /\ 1 <= TICKS_PER_S
    /\ DT_DEFAULT \in Nat /\ 1 <= DT_DEFAULT
    /\ DT_MAX \in Nat /\ DT_DEFAULT <= DT_MAX
    /\ INTEGRAL_LIMIT \in Nat
    /\ OUTPUT_LIMIT \in Nat
    /\ ERR_MAX \in Nat
    /\ Errors \subseteq [Axes -> -ERR_MAX .. ERR_MAX]
    /\ GainSets \subseteq [Axes -> [{"kp", "ki", "kd"} -> Nat]]
    /\ Delays \subseteq 1 .. CLOCK_MOD - 1
    /\ BootTimes \subseteq 0 .. CLOCK_MOD - 1
    /\ TIME_CAP \in Nat /\ DT_MAX < TIME_CAP /\ TIME_CAP <= CLOCK_MOD
    /\ INTEGRAL_LIMIT <= ERR_MAX * TIME_CAP

VARIABLES
    pc,             \* "delay" or "ready": where flight_ctrl_task is
    clock,          \* (uint32_t) esp_timer_get_time()
    last_update_us,
    dt,             \* local to flight_controller_update
    integral, prev_error,   \* of the three loops
    output,         \* what the three pid_update returned
    since_update,   \* ghost: true time since last_update_us was set
    since_reset,    \* ghost: true time since the loops were reset
    dt_true,        \* ghost: since_update when dt was computed
    flew            \* ghost: the loops have run since they were reset

pidVars == <<integral, prev_error, output>>
ghostVars == <<since_update, since_reset, dt_true, flew>>
vars == <<pc, clock, last_update_us, dt, pidVars, ghostVars>>

Zero == [a \in Axes |-> 0]

(* pid_init and flight_controller_init.                                      *)
Init ==
    /\ pc = "delay"
    /\ clock \in BootTimes
    /\ last_update_us = clock
    /\ dt = DT_DEFAULT
    /\ integral = Zero
    /\ prev_error = Zero
    /\ output = Zero
    /\ since_update = 0
    /\ since_reset = 0
    /\ dt_true = DT_DEFAULT
    /\ flew = FALSE

-----------------------------------------------------------------------------
(* Unsigned arithmetic on the clock.                                         *)

WrapAdd(t, d) == IF t + d < CLOCK_MOD THEN t + d ELSE t + d - CLOCK_MOD

(* Fault: the difference is taken in a signed type.                          *)
WrapSubSigned(t, u) == t - u

WrapSub(t, u) == IF u <= t THEN t - u ELSE t - u + CLOCK_MOD

(* Fault: a long pause is believed.                                          *)
SaneDtPositive(d) == IF d <= 0 THEN DT_DEFAULT ELSE d

SaneDt(d) == IF d <= 0 \/ d > DT_MAX THEN DT_DEFAULT ELSE d

Saturate(t) == IF t < TIME_CAP THEN t ELSE TIME_CAP

Limit(x, limit) == IF x > limit THEN limit ELSE IF x < -limit THEN -limit ELSE x

-----------------------------------------------------------------------------
(* vTaskDelayUntil, and the time the iteration takes.  What the iteration    *)
(* before computed in local variables is forgotten.                          *)
Delay(d) ==
    /\ pc = "delay"
    /\ pc' = "ready"
    /\ clock' = WrapAdd(clock, d)
    /\ since_update' = Saturate(since_update + d)
    /\ since_reset' = Saturate(since_reset + d)
    /\ dt' = DT_DEFAULT
    /\ dt_true' = DT_DEFAULT
    /\ output' = Zero
    /\ UNCHANGED <<last_update_us, integral, prev_error, flew>>

(* A mutex wait expired: `continue`.                                         *)
Abandon ==
    /\ pc = "ready"
    /\ pc' = "delay"
    /\ UNCHANGED <<clock, last_update_us, dt, pidVars, ghostVars>>

(* Fault: pid_reset clears the integrals and keeps the errors.               *)
ResetIntegralsOnly ==
    /\ integral' = Zero
    /\ UNCHANGED prev_error
    /\ since_reset' = 0
    /\ flew' = FALSE

(* flight_controller_reset_integrals: pid_reset of the three loops.          *)
ResetPids ==
    /\ integral' = Zero
    /\ prev_error' = Zero
    /\ since_reset' = 0
    /\ flew' = FALSE

(* The kill and the angle limit reset the loops and leave the clock alone.   *)
Stop ==
    /\ pc = "ready"
    /\ pc' = "delay"
    /\ ResetPids
    /\ UNCHANGED <<clock, last_update_us, dt, output, since_update, dt_true>>

(* The head of flight_controller_update.                                     *)
MeasureDt ==
    /\ dt' = SaneDt(WrapSub(clock, last_update_us))
    /\ last_update_us' = clock
    /\ dt_true' = since_update
    /\ since_update' = 0

LowThrottle ==
    /\ pc = "ready"
    /\ pc' = "delay"
    /\ MeasureDt
    /\ ResetPids
    /\ UNCHANGED <<clock, output>>

(* Fault: the integral is clamped on one side only.                          *)
IntegrateOneSided(i, error, d) ==
    IF i + error * d > INTEGRAL_LIMIT THEN INTEGRAL_LIMIT ELSE i + error * d

(* pid_update of one loop.                                                   *)
Integrate(i, error, d) == Limit(i + error * d, INTEGRAL_LIMIT)

PidOutput(g, i, error, prev, d) ==
    LET p_term == g["kp"] * error
        i_term == (g["ki"] * i) \div TICKS_PER_S
        d_term == (g["kd"] * (error - prev) * TICKS_PER_S) \div d
    IN  Limit(p_term + i_term + d_term, OUTPUT_LIMIT)

Fly(error, g) ==
    /\ pc = "ready"
    /\ pc' = "delay"
    /\ MeasureDt
    /\ integral' = [a \in Axes |-> Integrate(integral[a], error[a], dt')]
    /\ output' = [a \in Axes |-> PidOutput(g[a], integral'[a], error[a],
                                           prev_error[a], dt')]
    /\ prev_error' = error
    /\ flew' = TRUE
    /\ UNCHANGED <<clock, since_reset>>

Next ==
    \/ \E d \in Delays : Delay(d)
    \/ Abandon \/ Stop \/ LowThrottle
    \/ \E error \in Errors, g \in GainSets : Fly(error, g)

Spec == Init /\ [][Next]_vars

-----------------------------------------------------------------------------
(* Every variable keeps its type; in particular a dt is never zero and never *)
(* above 0.1 s, so pid_update does not divide by zero, and the outputs are   *)
(* within the limit that FlightCore relies on.                               *)
PidTypeOK ==
    /\ pc \in {"delay", "ready"}
    /\ clock \in 0 .. CLOCK_MOD - 1
    /\ last_update_us \in 0 .. CLOCK_MOD - 1
    /\ dt \in 1 .. DT_MAX
    /\ integral \in [Axes -> -INTEGRAL_LIMIT .. INTEGRAL_LIMIT]
    /\ prev_error \in [Axes -> -ERR_MAX .. ERR_MAX]
    /\ output \in [Axes -> -OUTPUT_LIMIT .. OUTPUT_LIMIT]
    /\ since_update \in 0 .. TIME_CAP
    /\ since_reset \in 0 .. TIME_CAP
    /\ dt_true \in 0 .. TIME_CAP
    /\ flew \in BOOLEAN

(* flight_controller.c, "Compute dt from real elapsed time, not assumed loop *)
(* period": an update that comes within 0.1 s of the one before uses the     *)
(* time that really passed, also when the 32 bit clock wrapped in between    *)
(* and when iterations in between were abandoned or killed.                  *)
DtIsElapsed == dt_true <= DT_MAX => dt = dt_true

(* flight_controller.c, "prevents integral windup while sitting on the       *)
(* ground", and main.c, "so windup doesn't cause a jump on spool-up": an     *)
(* integral is no larger than the largest error could have made it in the    *)
(* real time since the last reset and one more 0.1 s, however long the       *)
(* motors were stopped before and wherever the clock wrapped.                *)
NoWindup ==
    \A a \in Axes :
        /\ integral[a] <= ERR_MAX * (since_reset + DT_MAX)
        /\ -(ERR_MAX * (since_reset + DT_MAX)) <= integral[a]

(* pid_reset forgets the flight before: the first correction of every loop   *)
(* after a stop has the sign of the error of that moment or is zero,         *)
(* whatever integral and error the loop had when the motors stopped.  Gains  *)
(* are not negative, as TelemetryLink's LinkTypeOK says.                     *)
FirstPushAgrees ==
    [][~ flew /\ flew'
          => \A a \in Axes : \/ prev_error'[a] >= 0 /\ output'[a] >= 0
                             \/ prev_error'[a] <= 0 /\ output'[a] <= 0]_vars
=============================================================================
