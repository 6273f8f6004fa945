---------------------------- MODULE PidLoop_proofs ----------------------------
(* Proofs about the time base and the integrals of the PID loops.            *)
EXTENDS PidLoop, TLAPS

(* A value held within a limit is an integer within that limit.              *)
LEMMA LimitRange ==
    ASSUME NEW x \in Int, NEW l \in Nat
    PROVE  Limit(x, l) \in -l .. l
BY DEF Limit

(* Clamping never moves a value away from zero.                              *)
LEMMA LimitShrinks ==
    ASSUME NEW x \in Int, NEW l \in Nat, NEW b \in Nat, -b <= x, x <= b
    PROVE  -b <= Limit(x, l) /\ Limit(x, l) <= b
BY DEF Limit

(* An error acting for a time contributes at most the largest error times    *)
(* that time.                                                                *)
LEMMA ErrorTimesTime ==
    ASSUME NEW m \in Nat, NEW e \in -m .. m, NEW d \in Nat
    PROVE  e * d \in Int /\ -(m * d) <= e * d /\ e * d <= m * d
<1>1. e * d \in Int /\ m * d \in Int
  OBVIOUS
<1>2. e * d <= m * d
  <2>1. (m - e) * d >= 0
    OBVIOUS
  <2>2. (m - e) * d = m * d - e * d
    OBVIOUS
  <2> QED BY <1>1, <2>1, <2>2
<1>3. -(m * d) <= e * d
  <2>1. (m + e) * d >= 0
    OBVIOUS
  <2>2. (m + e) * d = m * d + e * d
    OBVIOUS
  <2> QED BY <1>1, <2>1, <2>2
<1> QED BY <1>1, <1>2, <1>3

(* Distributivity, for the bound on the integrals.                           *)
LEMMA TimesSum ==
    ASSUME NEW m \in Nat, NEW s \in Nat, NEW t \in Nat
    PROVE  m * (s + t) = m * s + m * t /\ m * s \in Nat /\ m * t \in Nat
OBVIOUS

(* A longer time allows a larger integral.                                   *)
LEMMA TimesMono ==
    ASSUME NEW m \in Nat, NEW s \in Nat, NEW t \in Nat, s <= t
    PROVE  m * s <= m * t
<1>1. m * (t - s) >= 0
  OBVIOUS
<1>2. m * (t - s) = m * t - m * s
  OBVIOUS
<1> QED BY <1>1, <1>2

(* The guard on dt.                                                          *)
LEMMA SaneDtRange ==
    ASSUME NEW d \in Int
    PROVE  SaneDt(d) \in 1 .. DT_MAX
BY PidAssumption DEF SaneDt

(* Unsigned arithmetic stays within the clock.                               *)
LEMMA WrapRange ==
    ASSUME NEW t \in 0 .. CLOCK_MOD - 1, NEW u \in 0 .. CLOCK_MOD - 1
    PROVE  WrapAdd(t, u) \in 0 .. CLOCK_MOD - 1 /\ WrapSub(t, u) \in 0 .. CLOCK_MOD - 1
BY PidAssumption DEF WrapAdd, WrapSub

(* The unsigned difference measures a distance shorter than the clock.       *)
LEMMA WrapSubAdd ==
    ASSUME NEW t \in 0 .. CLOCK_MOD - 1, NEW u \in 0 .. CLOCK_MOD - 1,
           NEW d \in 1 .. CLOCK_MOD - 1, WrapSub(t, u) + d < CLOCK_MOD
    PROVE  WrapSub(WrapAdd(t, d), u) = WrapSub(t, u) + d
BY PidAssumption DEF WrapAdd, WrapSub

(* The outputs of pid_update are within PID_OUTPUT_LIMIT.                    *)
LEMMA OutputRange ==
    ASSUME NEW g \in [{"kp", "ki", "kd"} -> Nat], NEW i \in Int, NEW e \in Int,
           NEW p \in Int, NEW d \in 1 .. DT_MAX
    PROVE  PidOutput(g, i, e, p, d) \in -OUTPUT_LIMIT .. OUTPUT_LIMIT
<1> DEFINE pt == g["kp"] * e
           it == (g["ki"] * i) \div TICKS_PER_S
           dterm == (g["kd"] * (e - p) * TICKS_PER_S) \div d
<1>1. pt \in Int
  BY DEF pt
<1>2. it \in Int
  BY PidAssumption DEF it
<1>3. dterm \in Int
  BY PidAssumption DEF dterm
<1>4. pt + it + dterm \in Int
  BY <1>1, <1>2, <1>3
<1> HIDE DEF pt, it, dterm
<1>5. Limit(pt + it + dterm, OUTPUT_LIMIT) \in -OUTPUT_LIMIT .. OUTPUT_LIMIT
  BY <1>4, LimitRange, PidAssumption
<1> QED BY <1>5 DEF PidOutput, pt, it, dterm

-----------------------------------------------------------------------------
(* MeasureDt keeps the types of what it writes.                              *)
LEMMA MeasureType ==
    ASSUME PidTypeOK, MeasureDt
    PROVE  /\ dt' \in 1 .. DT_MAX
           /\ last_update_us' \in 0 .. CLOCK_MOD - 1
           /\ dt_true' \in 0 .. TIME_CAP
           /\ since_update' \in 0 .. TIME_CAP
<1>1. WrapSub(clock, last_update_us) \in Int
  BY WrapRange, PidAssumption DEF PidTypeOK
<1>2. dt' \in 1 .. DT_MAX
  BY <1>1, SaneDtRange DEF MeasureDt
<1> QED BY <1>2, PidAssumption DEF PidTypeOK, MeasureDt

(* Every step keeps the types.                                               *)
LEMMA TypeStep == PidTypeOK /\ [Next]_vars => PidTypeOK'
<1> SUFFICES ASSUME PidTypeOK, [Next]_vars PROVE PidTypeOK'
  OBVIOUS
<1> USE PidAssumption
<1>0. Zero \in [Axes -> {0}] /\ 0 \in -INTEGRAL_LIMIT .. INTEGRAL_LIMIT
        /\ 0 \in -ERR_MAX .. ERR_MAX /\ 0 \in -OUTPUT_LIMIT .. OUTPUT_LIMIT
        /\ 0 \in 0 .. TIME_CAP /\ DT_DEFAULT \in 1 .. DT_MAX
        /\ DT_DEFAULT \in 0 .. TIME_CAP
  BY DEF Zero
<1>z. /\ Zero \in [Axes -> -INTEGRAL_LIMIT .. INTEGRAL_LIMIT]
      /\ Zero \in [Axes -> -ERR_MAX .. ERR_MAX]
      /\ Zero \in [Axes -> -OUTPUT_LIMIT .. OUTPUT_LIMIT]
  BY <1>0 DEF Zero
<1>1. ASSUME NEW d \in Delays, Delay(d) PROVE PidTypeOK'
  <2>1. d \in 0 .. CLOCK_MOD - 1 /\ d \in Nat
    OBVIOUS
  <2>2. clock' \in 0 .. CLOCK_MOD - 1
    BY <1>1, <2>1, WrapRange DEF Delay, PidTypeOK
  <2>3. since_update' \in 0 .. TIME_CAP /\ since_reset' \in 0 .. TIME_CAP
    BY <1>1, <2>1 DEF Delay, PidTypeOK, Saturate
  <2> QED BY <1>1, <1>0, <1>z, <2>2, <2>3 DEF Delay, PidTypeOK
<1>2. CASE Abandon
  BY <1>2 DEF Abandon, PidTypeOK, pidVars, ghostVars
<1>3. CASE Stop
  BY <1>3, <1>0, <1>z DEF Stop, ResetPids, PidTypeOK
<1>4. CASE LowThrottle
  BY <1>4, <1>0, <1>z, MeasureType DEF LowThrottle, ResetPids, PidTypeOK
<1>5. ASSUME NEW error \in Errors, NEW g \in GainSets, Fly(error, g)
      PROVE  PidTypeOK'
  <2>1. dt' \in 1 .. DT_MAX /\ last_update_us' \in 0 .. CLOCK_MOD - 1
          /\ dt_true' \in 0 .. TIME_CAP /\ since_update' \in 0 .. TIME_CAP
    BY <1>5, MeasureType DEF Fly
  <2>2. ASSUME NEW a \in Axes
        PROVE  /\ integral[a] \in Int /\ error[a] \in -ERR_MAX .. ERR_MAX
               /\ prev_error[a] \in Int /\ g[a] \in [{"kp", "ki", "kd"} -> Nat]
    BY DEF PidTypeOK
  <2>3. ASSUME NEW a \in Axes
        PROVE  Integrate(integral[a], error[a], dt') \in -INTEGRAL_LIMIT .. INTEGRAL_LIMIT
    <3>1. error[a] * dt' \in Int
      BY <2>1, <2>2, ErrorTimesTime
    <3>2. integral[a] + error[a] * dt' \in Int
      BY <2>2, <3>1
    <3> QED BY <3>2, LimitRange DEF Integrate
  <2>4. integral' \in [Axes -> -INTEGRAL_LIMIT .. INTEGRAL_LIMIT]
    BY <1>5, <2>3 DEF Fly
  <2>5. ASSUME NEW a \in Axes
        PROVE  PidOutput(g[a], integral'[a], error[a], prev_error[a], dt')
                 \in -OUTPUT_LIMIT .. OUTPUT_LIMIT
    <3>1. integral'[a] \in Int
      BY <2>4
    <3> QED BY <3>1, <2>1, <2>2, OutputRange
  <2>6. output' \in [Axes -> -OUTPUT_LIMIT .. OUTPUT_LIMIT]
    BY <1>5, <2>5 DEF Fly
  <2>7. prev_error' \in [Axes -> -ERR_MAX .. ERR_MAX]
    BY <1>5 DEF Fly
  <2> QED BY <1>5, <2>1, <2>4, <2>6, <2>7 DEF Fly, PidTypeOK
<1>6. CASE UNCHANGED vars
  BY <1>6 DEF vars, pidVars, ghostVars, PidTypeOK
<1> QED BY <1>1, <1>2, <1>3, <1>4, <1>5, <1>6 DEF Next

(* The initial states have their types.                                      *)
LEMMA TypeInit == Init => PidTypeOK
<1> USE PidAssumption
<1> SUFFICES ASSUME Init PROVE PidTypeOK
  OBVIOUS
<1>1. /\ Zero \in [Axes -> -INTEGRAL_LIMIT .. INTEGRAL_LIMIT]
      /\ Zero \in [Axes -> -ERR_MAX .. ERR_MAX]
      /\ Zero \in [Axes -> -OUTPUT_LIMIT .. OUTPUT_LIMIT]
  BY DEF Zero
<1>2. clock \in 0 .. CLOCK_MOD - 1 /\ last_update_us \in 0 .. CLOCK_MOD - 1
  BY DEF Init
<1>3. dt \in 1 .. DT_MAX /\ dt_true \in 0 .. TIME_CAP
        /\ since_update \in 0 .. TIME_CAP /\ since_reset \in 0 .. TIME_CAP
  BY DEF Init
<1> QED BY <1>1, <1>2, <1>3 DEF Init, PidTypeOK

(* Type correctness: for all constants dt stays positive and at most 0.1 s,  *)
(* the integrals and the outputs of pid_update stay within their limits.     *)
THEOREM PidTypes == Spec => []PidTypeOK
BY TypeInit, TypeStep, PTL DEF Spec

-----------------------------------------------------------------------------
(* The clock.  Until the ghost stops counting, the unsigned difference of    *)
(* the 32 bit readings is the time that has passed since the last update.    *)
ClockInv ==
    /\ PidTypeOK
    /\ since_update < TIME_CAP => WrapSub(clock, last_update_us) = since_update
    /\ pc = "ready" => since_update >= 1
    /\ DtIsElapsed

(* While the clock is exact, dt is the time since the last update or, when   *)
(* that is too long, the default; it is never more than the time that passed.*)
LEMMA DtMeasured ==
    ASSUME ClockInv, MeasureDt, pc = "ready"
    PROVE  /\ dt' <= since_update
           /\ since_update <= DT_MAX => dt' = since_update
<1> USE PidAssumption
<1>1. since_update \in 1 .. TIME_CAP
  BY DEF ClockInv, PidTypeOK
<1>2. dt' = SaneDt(WrapSub(clock, last_update_us)) /\ dt' \in 1 .. DT_MAX
  BY MeasureType DEF MeasureDt, ClockInv
<1>3. CASE since_update <= DT_MAX
  <2>1. WrapSub(clock, last_update_us) = since_update
    BY <1>1, <1>3 DEF ClockInv
  <2> QED BY <1>1, <1>2, <1>3, <2>1 DEF SaneDt
<1>4. CASE since_update > DT_MAX
  BY <1>1, <1>2, <1>4
<1> QED BY <1>1, <1>3, <1>4

(* An update starts the measurement afresh.                                  *)
LEMMA ClockAfterUpdate ==
    ASSUME ClockInv, MeasureDt, pc = "ready", pc' = "delay", clock' = clock,
           PidTypeOK'
    PROVE  ClockInv'
<1> USE PidAssumption
<1>1. WrapSub(clock, clock) = 0
  BY DEF WrapSub, ClockInv, PidTypeOK
<1>2. dt_true' <= DT_MAX => dt' = dt_true'
  BY DtMeasured DEF MeasureDt
<1> QED BY <1>1, <1>2 DEF ClockInv, MeasureDt, DtIsElapsed

(* Every step keeps the clock exact.                                         *)
LEMMA ClockStep == ClockInv /\ [Next]_vars => ClockInv'
<1> SUFFICES ASSUME ClockInv, [Next]_vars PROVE ClockInv'
  OBVIOUS
<1> USE PidAssumption
<1>0. PidTypeOK /\ PidTypeOK'
  BY TypeStep DEF ClockInv
<1>1. ASSUME NEW d \in Delays, Delay(d) PROVE ClockInv'
  <2>1. d \in 1 .. CLOCK_MOD - 1 /\ since_update \in 0 .. TIME_CAP
    BY <1>0 DEF PidTypeOK
  <2>2. since_update' >= 1
    BY <1>1, <2>1 DEF Delay, Saturate
  <2>3. ASSUME since_update' < TIME_CAP
        PROVE  WrapSub(clock', last_update_us') = since_update'
    <3>1. since_update' = since_update + d /\ since_update < TIME_CAP
            /\ since_update + d < CLOCK_MOD
      BY <1>1, <2>1, <2>3 DEF Delay, Saturate
    <3>2. WrapSub(clock, last_update_us) = since_update
      BY <3>1 DEF ClockInv
    <3>3. WrapSub(WrapAdd(clock, d), last_update_us) = since_update + d
      BY <1>0, <2>1, <3>1, <3>2, WrapSubAdd DEF PidTypeOK
    <3> QED BY <1>1, <3>1, <3>3 DEF Delay
  <2>4. DtIsElapsed'
    BY <1>1 DEF Delay, DtIsElapsed
  <2> QED BY <1>0, <2>2, <2>3, <2>4 DEF ClockInv
<1>2. CASE Abandon
  BY <1>0, <1>2 DEF Abandon, ClockInv, DtIsElapsed, ghostVars
<1>3. CASE Stop
  BY <1>0, <1>3 DEF Stop, ClockInv, DtIsElapsed
<1>4. CASE LowThrottle
  BY <1>0, <1>4, ClockAfterUpdate DEF LowThrottle
<1>5. ASSUME NEW error \in Errors, NEW g \in GainSets, Fly(error, g)
      PROVE  ClockInv'
  BY <1>0, <1>5, ClockAfterUpdate DEF Fly
<1>6. CASE UNCHANGED vars
  BY <1>0, <1>6 DEF vars, pidVars, ghostVars, ClockInv, DtIsElapsed
<1> QED BY <1>1, <1>2, <1>3, <1>4, <1>5, <1>6 DEF Next

(* The clock is exact when flight_controller_init returns.                   *)
LEMMA ClockInit == Init => ClockInv
<1> SUFFICES ASSUME Init PROVE ClockInv
  OBVIOUS
<1>1. PidTypeOK
  BY TypeInit
<1>2. WrapSub(clock, clock) = 0
  BY <1>1 DEF WrapSub, PidTypeOK
<1> QED BY <1>1, <1>2 DEF Init, ClockInv, DtIsElapsed

(* The dt of flight_controller_update is the time that really passed since   *)
(* the last update whenever that is at most 0.1 s, for every clock width.    *)
THEOREM DtIsReal == Spec => []DtIsElapsed
<1>1. Spec => []ClockInv
  BY ClockInit, ClockStep, PTL DEF Spec
<1>2. ClockInv => DtIsElapsed
  BY DEF ClockInv
<1> QED BY <1>1, <1>2, PTL

-----------------------------------------------------------------------------
(* The integrals.  Once the loops have run, the last update is not older     *)
(* than the last reset, and an integral has had the time between the two,    *)
(* and 0.1 s for the first update, to grow.                                  *)
Bounded(x, t) == x <= ERR_MAX * t /\ -(ERR_MAX * t) <= x

WindupInv ==
    /\ ClockInv
    /\ ~ flew => integral = Zero
    /\ flew /\ since_reset < TIME_CAP =>
         /\ since_update <= since_reset
         /\ \A a \in Axes :
              Bounded(integral[a], since_reset - since_update + DT_MAX)

(* A longer time allows more.                                                *)
LEMMA BoundedMono ==
    ASSUME NEW x \in Int, NEW s \in Nat, NEW t \in Nat, s <= t, Bounded(x, s)
    PROVE  Bounded(x, t)
<1>1. ERR_MAX * s <= ERR_MAX * t /\ ERR_MAX * s \in Nat /\ ERR_MAX * t \in Nat
  BY TimesMono, TimesSum, PidAssumption
<1> QED BY <1>1 DEF Bounded

(* One update adds at most dt.                                               *)
LEMMA BoundedIntegrate ==
    ASSUME NEW x \in Int, NEW s \in Nat, Bounded(x, s),
           NEW e \in -ERR_MAX .. ERR_MAX, NEW d \in Nat
    PROVE  Bounded(Integrate(x, e, d), s + d)
<1> USE PidAssumption
<1>1. e * d \in Int /\ -(ERR_MAX * d) <= e * d /\ e * d <= ERR_MAX * d
  BY ErrorTimesTime
<1>2. ERR_MAX * (s + d) = ERR_MAX * s + ERR_MAX * d
        /\ ERR_MAX * s \in Nat /\ ERR_MAX * d \in Nat
  BY TimesSum
<1>3. ERR_MAX * (s + d) \in Nat
        /\ x + e * d <= ERR_MAX * (s + d) /\ -(ERR_MAX * (s + d)) <= x + e * d
  BY <1>1, <1>2 DEF Bounded
<1>4. x + e * d \in Int
  BY <1>1
<1>5. -(ERR_MAX * (s + d)) <= Limit(x + e * d, INTEGRAL_LIMIT)
        /\ Limit(x + e * d, INTEGRAL_LIMIT) <= ERR_MAX * (s + d)
  BY <1>3, <1>4, LimitShrinks
<1> QED BY <1>5 DEF Bounded, Integrate

(* The zero integral of a reset is within any bound.                         *)
LEMMA BoundedZero ==
    ASSUME NEW t \in Nat
    PROVE  Bounded(0, t)
<1>1. ERR_MAX * t \in Nat
  BY PidAssumption, TimesSum
<1> QED BY <1>1 DEF Bounded

(* How much of the allowed time an update of length t takes.                 *)
LEMMA TimeRoom ==
    ASSUME NEW r \in Nat, NEW u \in Nat, NEW m \in Nat, NEW t \in Nat,
           u <= r, t <= u, t <= m
    PROVE  /\ r - u + m \in Nat
           /\ r - u + m + t \in Nat /\ r - u + m + t <= r + m
OBVIOUS

(* The first update after a reset fits in the extra 0.1 s.                   *)
LEMMA FirstUpdate ==
    ASSUME NEW r \in Nat, NEW m \in Nat, NEW t \in Nat, t <= m
    PROVE  0 + t = t /\ t <= r + m
OBVIOUS

(* Every step keeps the bound on the integrals.                              *)
LEMMA WindupStep == WindupInv /\ [Next]_vars => WindupInv'
<1> SUFFICES ASSUME WindupInv, [Next]_vars PROVE WindupInv'
  OBVIOUS
<1> USE PidAssumption
<1>0. ClockInv /\ ClockInv' /\ PidTypeOK /\ PidTypeOK'
  BY ClockStep, TypeStep DEF WindupInv, ClockInv
<1>t. since_update \in 0 .. TIME_CAP /\ since_reset \in 0 .. TIME_CAP
  BY <1>0 DEF PidTypeOK
<1>1. ASSUME NEW d \in Delays, Delay(d) PROVE WindupInv'
  <2>1. d \in Nat
    OBVIOUS
  <2>2. ASSUME flew', since_reset' < TIME_CAP
        PROVE  /\ since_update' <= since_reset'
               /\ since_reset' - since_update' = since_reset - since_update
               /\ since_reset < TIME_CAP /\ flew
    <3>1. since_reset' = since_reset + d /\ since_reset < TIME_CAP /\ flew
      BY <1>1, <1>t, <2>1, <2>2 DEF Delay, Saturate
    <3>2. since_update <= since_reset
      BY <3>1 DEF WindupInv
    <3>3. since_update' = since_update + d
      BY <1>1, <1>t, <2>1, <2>2, <3>1, <3>2 DEF Delay, Saturate
    <3> QED BY <1>t, <2>1, <3>1, <3>2, <3>3
  <2>3. integral' = integral /\ flew' = flew
    BY <1>1 DEF Delay
  <2> QED BY <1>0, <2>2, <2>3 DEF WindupInv
<1>2. CASE Abandon
  BY <1>0, <1>2 DEF Abandon, WindupInv, pidVars, ghostVars
<1>3. CASE Stop
  BY <1>0, <1>3 DEF Stop, ResetPids, WindupInv
<1>4. CASE LowThrottle
  BY <1>0, <1>4 DEF LowThrottle, ResetPids, WindupInv
<1>5. ASSUME NEW error \in Errors, NEW g \in GainSets, Fly(error, g)
      PROVE  WindupInv'
  <2>1. /\ MeasureDt /\ pc = "ready" /\ flew' /\ since_reset' = since_reset
        /\ since_update' = 0
        /\ integral' = [a \in Axes |-> Integrate(integral[a], error[a], dt')]
    BY <1>5 DEF Fly, MeasureDt
  <2>2. dt' \in 1 .. DT_MAX /\ dt' <= since_update
    BY <1>0, <2>1, DtMeasured, MeasureType
  <2>5. /\ dt' \in Nat /\ DT_MAX \in Nat /\ dt' <= DT_MAX
        /\ since_reset \in Nat /\ since_update \in Nat
        /\ since_reset + DT_MAX \in Nat
    BY <1>t, <2>2
  <2>3. ASSUME since_reset < TIME_CAP, NEW a \in Axes
        PROVE  Bounded(integral'[a], since_reset + DT_MAX)
    <3>1. /\ integral'[a] = Integrate(integral[a], error[a], dt')
          /\ integral[a] \in Int /\ error[a] \in -ERR_MAX .. ERR_MAX
          /\ integral'[a] \in Int
      BY <1>0, <2>1 DEF PidTypeOK
    <3>2. CASE flew
      <4> DEFINE s == since_reset - since_update + DT_MAX
      <4>0. since_update <= since_reset /\ Bounded(integral[a], s)
        BY <2>3, <3>2 DEF WindupInv
      <4>1. s \in Nat /\ s + dt' \in Nat /\ s + dt' <= since_reset + DT_MAX
        BY ONLY <2>2, <2>5, <4>0, TimeRoom
      <4> HIDE DEF s
      <4>2. Bounded(integral'[a], s + dt')
        BY <2>5, <3>1, <4>0, <4>1, BoundedIntegrate
      <4> QED BY <2>5, <3>1, <4>1, <4>2, BoundedMono
    <3>3. CASE ~ flew
      <4>1. integral[a] = 0
        BY <3>3 DEF WindupInv, Zero
      <4>2. Bounded(integral'[a], 0 + dt')
        BY <2>2, <3>1, <4>1, BoundedZero, BoundedIntegrate
      <4>3. 0 + dt' = dt' /\ dt' <= since_reset + DT_MAX
        BY ONLY <2>5, FirstUpdate
      <4> QED BY <2>5, <3>1, <4>2, <4>3, BoundedMono
    <3> QED BY <3>2, <3>3
  <2>4. since_reset - 0 + DT_MAX = since_reset + DT_MAX
    BY <1>t
  <2> QED BY <1>0, <1>t, <2>1, <2>3, <2>4 DEF WindupInv
<1>6. CASE UNCHANGED vars
  BY <1>0, <1>6 DEF vars, pidVars, ghostVars, WindupInv
<1> QED BY <1>1, <1>2, <1>3, <1>4, <1>5, <1>6 DEF Next

(* The loops start reset.                                                    *)
LEMMA WindupInit == Init => WindupInv
BY ClockInit DEF Init, WindupInv

(* Beyond TIME_CAP the clamp on the integral is the tighter bound.           *)
LEMMA WindupBound == WindupInv => NoWindup
<1> SUFFICES ASSUME WindupInv, NEW a \in Axes
             PROVE  Bounded(integral[a], since_reset + DT_MAX)
  BY DEF NoWindup, Bounded
<1> USE PidAssumption
<1>1. /\ since_update \in 0 .. TIME_CAP /\ since_reset \in 0 .. TIME_CAP
      /\ integral[a] \in -INTEGRAL_LIMIT .. INTEGRAL_LIMIT /\ flew \in BOOLEAN
  BY DEF WindupInv, ClockInv, PidTypeOK
<1>2. since_reset + DT_MAX \in Nat
  BY <1>1
<1>3. CASE since_reset = TIME_CAP
  <2>1. ERR_MAX * TIME_CAP \in Nat
    BY TimesSum
  <2>2. Bounded(integral[a], TIME_CAP)
    BY <1>1, <2>1 DEF Bounded
  <2> QED BY <1>1, <1>2, <1>3, <2>2, BoundedMono
<1>4. CASE since_reset # TIME_CAP /\ flew
  <2> DEFINE s == since_reset - since_update + DT_MAX
  <2>1. s \in Nat /\ s <= since_reset + DT_MAX /\ Bounded(integral[a], s)
    BY <1>1, <1>4 DEF WindupInv
  <2> HIDE DEF s
  <2> QED BY <1>1, <1>2, <2>1, BoundedMono
<1>5. CASE ~ flew
  <2>1. integral[a] = 0
    BY <1>5 DEF WindupInv, Zero
  <2> QED BY <1>2, <2>1, BoundedZero
<1> QED BY <1>1, <1>3, <1>4, <1>5

(* No integral is ever larger than the largest error could have made it in   *)
(* the real time since the last reset and one more 0.1 s, for every clock    *)
(* width, every sequence of delays, stops and errors.                        *)
THEOREM IntegralsDoNotWindUp == Spec => []NoWindup
<1>1. Spec => []WindupInv
  BY WindupInit, WindupStep, PTL DEF Spec
<1> QED BY <1>1, WindupBound, PTL

-----------------------------------------------------------------------------
(* The first correction.  A loop that has not run since its reset has        *)
(* nothing of the flight before.                                             *)
ResetInv == ~ flew => integral = Zero /\ prev_error = Zero

(* x does not point away from the error e.                                   *)
Agrees(x, e) == (e >= 0 => x >= 0) /\ (e <= 0 => x <= 0)

(* A gain that is not negative keeps the direction.                          *)
LEMMA ProductAgrees ==
    ASSUME NEW k \in Nat, NEW x \in Int, NEW e \in Int, Agrees(x, e)
    PROVE  k * x \in Int /\ Agrees(k * x, e)
<1>1. k * x \in Int
  OBVIOUS
<1>2. ASSUME x >= 0 PROVE k * x >= 0
  BY <1>2
<1>3. ASSUME x <= 0 PROVE k * x <= 0
  <2>1. k * (-x) >= 0
    BY <1>3
  <2>2. k * (-x) = -(k * x)
    OBVIOUS
  <2> QED BY <1>1, <2>1, <2>2
<1> QED BY <1>1, <1>2, <1>3 DEF Agrees

(* So does a division that rounds down.                                      *)
LEMMA QuotientAgrees ==
    ASSUME NEW x \in Int, NEW n \in Nat, n >= 1, NEW e \in Int, Agrees(x, e)
    PROVE  x \div n \in Int /\ Agrees(x \div n, e)
<1>1. x \div n \in Int
  OBVIOUS
<1>2. ASSUME x >= 0 PROVE x \div n >= 0
  BY <1>2
<1>3. ASSUME x <= 0 PROVE x \div n <= 0
  BY <1>3
<1> QED BY <1>1, <1>2, <1>3 DEF Agrees

(* So do the clamps of pid_update.                                           *)
LEMMA LimitAgrees ==
    ASSUME NEW x \in Int, NEW l \in Nat, NEW e \in Int, Agrees(x, e)
    PROVE  Limit(x, l) \in Int /\ Agrees(Limit(x, l), e)
BY DEF Agrees, Limit

LEMMA SumAgrees ==
    ASSUME NEW x \in Int, NEW y \in Int, NEW z \in Int, NEW e \in Int,
           Agrees(x, e), Agrees(y, e), Agrees(z, e)
    PROVE  x + y + z \in Int /\ Agrees(x + y + z, e)
BY DEF Agrees

(* From an empty integral and no previous error all three terms agree with   *)
(* the error.                                                                *)
LEMMA FirstOutputAgrees ==
    ASSUME NEW g \in [{"kp", "ki", "kd"} -> Nat], NEW e \in Int,
           NEW d \in 1 .. DT_MAX
    PROVE  Agrees(PidOutput(g, Integrate(0, e, d), e, 0, d), e)
<1> USE PidAssumption
<1> DEFINE i == Integrate(0, e, d)
           pt == g["kp"] * e
           it == (g["ki"] * i) \div TICKS_PER_S
           dterm == (g["kd"] * (e - 0) * TICKS_PER_S) \div d
<1>0. d \in Nat /\ d >= 1 /\ TICKS_PER_S \in Nat /\ TICKS_PER_S >= 1
      /\ Agrees(e, e)
  BY DEF Agrees
<1>g. g["kp"] \in Nat /\ g["ki"] \in Nat /\ g["kd"] \in Nat
  OBVIOUS
<1>1. i \in Int /\ Agrees(i, e)
  <2>1. d * e \in Int /\ Agrees(d * e, e)
    BY <1>0, ProductAgrees
  <2>2. 0 + e * d = d * e
    BY <1>0
  <2>3. i = Limit(d * e, INTEGRAL_LIMIT)
    BY <2>2 DEF Integrate
  <2> QED BY <2>1, <2>3, LimitAgrees
<1>2. pt \in Int /\ Agrees(pt, e)
  BY <1>0, <1>g, ProductAgrees
<1> HIDE DEF i
<1>3. it \in Int /\ Agrees(it, e)
  <2>1. g["ki"] * i \in Int /\ Agrees(g["ki"] * i, e)
    BY <1>1, <1>g, ProductAgrees
  <2> HIDE DEF i
  <2> QED BY <1>0, <2>1, QuotientAgrees DEF it
<1>4. dterm \in Int /\ Agrees(dterm, e)
  <2>1. g["kd"] * e \in Int /\ Agrees(g["kd"] * e, e)
    BY <1>0, <1>g, ProductAgrees
  <2>2. TICKS_PER_S * (g["kd"] * e) \in Int
        /\ Agrees(TICKS_PER_S * (g["kd"] * e), e)
    BY <1>0, <2>1, ProductAgrees
  <2>3. g["kd"] * (e - 0) * TICKS_PER_S = TICKS_PER_S * (g["kd"] * e)
    BY <1>0, <1>g
  <2>4. (TICKS_PER_S * (g["kd"] * e)) \div d \in Int
        /\ Agrees((TICKS_PER_S * (g["kd"] * e)) \div d, e)
    BY <1>0, <2>2, QuotientAgrees
  <2> QED BY <2>3, <2>4 DEF dterm
<1> HIDE DEF pt, it, dterm
<1>5. pt + it + dterm \in Int /\ Agrees(pt + it + dterm, e)
  BY <1>2, <1>3, <1>4, SumAgrees
<1>6. Agrees(Limit(pt + it + dterm, OUTPUT_LIMIT), e)
  BY <1>5, LimitAgrees
<1> QED BY <1>6 DEF PidOutput, i, pt, it, dterm

(* Every step keeps the memory of a reset loop empty.                        *)
LEMMA ResetStep == ResetInv /\ [Next]_vars => ResetInv'
BY DEF ResetInv, Next, vars, pidVars, ghostVars, Delay, Abandon, Stop,
       LowThrottle, ResetPids, Fly

(* After every stop the first correction of every loop pulls towards the     *)
(* setpoint, for all gains, every error and every dt.                         *)
THEOREM FirstPushesAgree == Spec => FirstPushAgrees
<1> DEFINE A == ~ flew /\ flew'
                  => \A a \in Axes :
                        \/ prev_error'[a] >= 0 /\ output'[a] >= 0
                        \/ prev_error'[a] <= 0 /\ output'[a] <= 0
<1>1. PidTypeOK /\ ResetInv /\ [Next]_vars => [A]_vars
  <2> SUFFICES ASSUME PidTypeOK, ResetInv, [Next]_vars, ~ flew, flew',
                      NEW a \in Axes
               PROVE  \/ prev_error'[a] >= 0 /\ output'[a] >= 0
                      \/ prev_error'[a] <= 0 /\ output'[a] <= 0
    OBVIOUS
  <2>1. PICK error \in Errors, g \in GainSets : Fly(error, g)
    BY DEF Next, vars, ghostVars, Delay, Abandon, Stop, LowThrottle, ResetPids
  <2>2. error[a] \in Int /\ g[a] \in [{"kp", "ki", "kd"} -> Nat]
    BY PidAssumption
  <2>3. integral[a] = 0 /\ prev_error[a] = 0
    BY DEF ResetInv, Zero
  <2>4. dt' \in 1 .. DT_MAX
    BY <2>1, MeasureType DEF Fly
  <2>5. /\ prev_error'[a] = error[a]
        /\ output'[a] = PidOutput(g[a], Integrate(0, error[a], dt'), error[a],
                                  0, dt')
    BY <2>1, <2>3 DEF Fly
  <2>6. Agrees(output'[a], error[a])
    BY <2>2, <2>4, <2>5, FirstOutputAgrees
  <2> QED BY <2>2, <2>5, <2>6 DEF Agrees
<1>2. Init => ResetInv
  BY DEF Init, ResetInv
<1> QED BY <1>1, <1>2, ResetStep, PidTypes, PTL DEF Spec, FirstPushAgrees
=============================================================================
