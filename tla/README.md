# A TLA+ verification of the EDNA 2.0 quadcopter firmware

EDNA 2.0 is an ESP32 quadcopter. Its firmware reads an MPU-6050, runs a Kalman
filter and three PID loops at 100 Hz, takes its commands from a Bluetooth
gamepad through Bluepad32, drives four ESCs with 50 Hz PWM, and talks UDP over
its own WiFi access point to a ground console, of which there are two (a Python
one and a Tauri one). This directory models the firmware's shared-memory core,
its PID loops with their clock, its telemetry link and both consoles, checks
them with TLC, and proves their main properties with TLAPS for all values of the
constants.

## 1. Inventory of the system

| Part | Source | State | Operations | Interaction |
|---|---|---|---|---|
| Task core | `main/main.c` | `g_pitch_deg`, `g_roll_deg`, `g_yaw_rate` under `imu_mutex`; `g_throttle`, `g_*_sp`, `g_motors_killed` under `setpoint_mutex` | `imu_task`, `flight_ctrl_task`, `controller_task`, `telemetry_task`, `app_main` | all tasks meet at the two mutexes |
| Gamepad controller | `components/controller/controller.c` | `s_connected`, `s_throttle_us` | `on_connected`, `on_disconnected`, `on_gamepad_data`, axis normalisation | Bluepad32 callbacks on the main task; publishes setpoints |
| Flight controller | `components/flight_controller/` | three PID states, `last_update_us` | `flight_controller_update`, `_reset_integrals`, `motor_mix`, `pid_*` | called by `flight_ctrl_task`; writes ESCs and the telemetry cache |
| ESC driver | `components/esc/esc.c` | last pulse per motor, LEDC duty | `esc_set_us`, `esc_set_all_us`, `esc_set_motors_us` | called by the control loop only, once tasks run |
| Telemetry | `components/telemetry/telemetry.c` | motor and PID cache, client address | `telemetry_send`, `telemetry_receive_pid_updates` | snapshots both records; writes the PID gains |
| WiFi server | `components/telemetry/wifi_server.c` | socket, client flag | `wifi_server_init`, event handler | owns the UDP socket |
| IMU | `components/imu/` | sensor registers, filter state | `mpu6050_init`, `mpu6050_read`, `kalman_update` | called by `imu_task` |
| Bluepad32 | `components/bluepad32_component/` | connection state per device | connect, ready, data, disconnect | vendored; calls the platform callbacks |
| Python console | `pythonscripts/` | socket, `_running`, receive threads, history deques, sliders | connect, disconnect, close, send gains, `_on_packet`, `_refresh_live` | UDP; receive thread and Tk main loop share the deques and `root.after` |
| Tauri console | `tools/TelemetryConsole/` | runtime, stop flag, receive thread; `connected`, `connecting` of the page | `start_telemetry`, `stop_telemetry`, connect button, packet listener | UDP; commands, answers and events between page and main thread |
| Vendored | `components/btstack`, `cmd_nvs`, `cmd_system`, `ttkbootstrap` | | | |

**Scheduling.** `imu` and `fc` run on core 1 at priority 5; `telemetry`
(priority 2), `ctrl` (3) and the main task (1), which runs the BTstack loop and
with it every gamepad callback, run on core 0. The tasks of different cores are
truly parallel; `telemetry` preempts a callback anywhere.

**What is hard.** Records of three and five scalars are copied field by field
between cores. Writers use try-locks (a sample, a command or a *kill* is
dropped when the mutex is busy) or a bounded wait that is not retried; readers
use bounded waits and abandon the iteration when they expire, leaving the ESCs
as they are. The control loop acts on copies that may be outdated when it
writes the motors. Up to four gamepads share one connected flag and one
throttle accumulator. `esc_set_us` skips hardware writes on the strength of a
remembered value. Gains are written without a lock. The clock of the loops
wraps every 71 minutes. UDP loses packets and the client address is learned
once. In the Python console a stop does not wait for the receive thread, in the
Tauri console it does, blocking the window; there commands, answers and packet
events overtake each other, and the page may be reloaded under them.

**What makes each part correct.** The task core: a reader never sees a torn
record; a kill or a tilt stops the motors, promptly and eventually, and so
should a lost gamepad. The controller: throttle within limits, and after a kill only a
deliberate ramp turns the motors again. The flight controller: stopped motors
mean reset PID loops, dt is the time that really passed, integrals do not wind
up. The ESC driver: the hardware duty is the remembered
pulse. Telemetry: gains applied are gains sent, reports are current. The
consoles: connect and disconnect may be repeated at any speed, what is shown is
in order and agrees with what runs, a stop returns, and gains sent are gains set. `PROJECT.json` lists each hazard at its line with the properties aimed at
it.

## 2. Modules

| Module | Models |
|---|---|
| `DroneConfig` | the constants of `config.h` and the relations between them the code relies on |
| `Controller` | what `controller.c` computes from one report: dead band, accumulated throttle, setpoints |
| `MotorOutput` | `motor_mix.c` and `esc.c` as operators: mixing, clamping, duty, the skipped write |
| `FlightData` | the two shared records and their distinguished values |
| `FlightCore` | the tasks and callbacks of `main.c`, `controller.c`, `flight_controller.c`, `telemetry.c` around the two mutexes |
| `AtomicFlight` | the abstract specification: whole attitudes, whole commands, one decision per iteration |
| `FlightCore_proofs` | inductive invariants and the safety theorems |
| `FlightRefinement_proofs` | `FlightCore` implements `AtomicFlight` |
| `MCFlightCore` | small instances for TLC |
| `TelemetryLink` | the UDP link: `wifi_server.c`, `telemetry.c`, and the gains of `pid.c` between two cores |
| `GainStore` | the abstract specification of the gains path: updated as a whole, reported rounded |
| `TelemetryLink_proofs` | type correctness, updates in force, the refinement of `GainStore` |
| `MCTelemetryLink` | small instances for TLC |
| `PidLoop` | `pid.c` and the dt of `flight_controller_update`, with a wrapping clock |
| `PidLoop_proofs`, `MCPidLoop` | its theorems; a small instance |
| `PythonConsole` | `udp_client.py` and `MBL_QTC.py`: receive threads and Tk main loop |
| `PythonConsole_proofs`, `MCPythonConsole` | its theorems; small instances |
| `TauriConsole` | `lib.rs`, `telemetryClient.js` and the button of `TopBar.jsx` |
| `TauriConsole_proofs`, `MCTauriConsole` | its theorems; a small instance |

`FlightCore` and `TelemetryLink` are two views of one firmware: what each leaves
open the other, or `PidLoop`, settles. `FlightCore` takes any PID output within
the limit, which `PidLoop` proves of `pid_update`; `TelemetryLink` takes a report
that may fail to be made, whose mutex waits are in `FlightCore`. The consoles meet
`TelemetryLink` at the datagrams: an update spelled with a space, as
`PythonConsole`'s `SendGains` makes it, is one of the datagrams of `spaced_json`.

### FlightCore and the code

Every access to a shared global is one step. `pc[t]` is where a task is, and
`pos[t]` the field it copies next, so a copy of five fields is five steps that
any other task may interleave with.

* **`imu`**: `ImuSample` (sleep, read, filter: `main.c` 65-82; any member of
  `Attitudes`), `ImuTake`/`ImuDrop` (the try-lock at 84), `ImuWrite` (85-87),
  `ImuGive`. A failed sensor read changes no shared state and is a stutter.
* **`fc`**: `Wake`, `TakeImu`, `ReadAtt`, `GiveImu`, `TakeSp`, `ReadSp`,
  `GiveSp` (101-127), `TakeTimeout` (the two `else continue`), then one of
  `FcKilled` (129-133), `FcAngleLimit` (135-141), `FcLowThrottle`
  (`flight_controller_update` 54-58) and `FcFly` (61-69). Only this task writes
  the PID state, the ESCs and the cache, so a decision with all its writes is
  one step (the telemetry task also reads the cache, which is not modelled:
  see `hazards`). The locals are reset when the iteration ends, as the declarations
  at 104-111 do when the next one begins.
* **`tel`**: the same snapshot actions in `telemetry_send` 73-86, without
  `g_motors_killed`, then `TelSend`. `ClientSet` says whether a console has
  registered; `telemetry_send` returns at once if not.
* **`bt`**: `Connect`, `Ready`, `Disconnect`, `GamepadKill` (X down) and
  `GamepadReport` (X up) are the callbacks up to their lock; then `BtTake`, or
  `BtGiveUp` when the mutex is held, `BtWrite` in the branch's own order of
  assignments (`BtOrder`), `BtGive`. Callbacks run one at a time. Bluepad32 is
  represented by what its `uni_hid_device.c` guarantees them: data only from a
  ready device, a disconnect only after a connect.

A mutex is its holder or `"free"`. A take with timeout 0 fails exactly when it
is held. A take with a timeout succeeds when it is free and may expire whenever
it is held; how long a holder keeps it is not modelled, so the properties hold
whatever the timing.

**Abstractions.** The filter output is any member of `Attitudes`; a PID output
is any triple of `PidOutputs`, within `PID_OUTPUT_LIMIT` and in tenths of a
microsecond so that the cast in `clamp_us` has something to drop; the PID states
are reduced to `"reset"` or `"used"`. Stick demands are exact integers in units
of 1/512 degree, because the only division in the C code is by
`STICK_MAX` = 512. `Init` is the state in which `app_main` has started the tasks;
the boot sequence itself is not modelled.

**Ghosts.** `att_pub` and `sp_pub` are the last complete publications. `frames`
counts the reports since the last kill or disconnect, whether that was published
or dropped (saturating at `FrameCap`), and `pub_frames` is its value when `sp_pub`
was published.
`late_kill` and `late_tilt` count motor writes that rest on a withdrawn command
or a superseded attitude (saturating at 2). No guard reads them.

### TelemetryLink and the code

* **Network**: `StaConnected`, `StaDisconnected` (the event handler,
  `wifi_server.c` 22-34; one station at a time, `WIFI_MAX_CONN`), `Arrive` (lwIP
  puts a datagram into the socket's mailbox). A datagram that is lost on the air
  or meets a full mailbox changes nothing and is no step.
* **`telemetry_task`**: `TelSend` or `TelSkip`, then `RecvNothing`, `RecvReject`
  or `RecvAccept`, the last followed by the three assignments of `pid_set_gains`,
  one `SetGain` each. `TelSkip` is every way in which no report arrives: an early
  return of `telemetry_send` or a lost datagram. The mutex waits of
  `telemetry_send` are in `FlightCore`.
* **`flight_ctrl_task`**: `FcRead` reads one gain of the loop `fc_axis`, three in
  a `pid_update`; `FcDone` goes on to the next loop.
* **Init**: `wifi_server_init` is over, and `app_main` ignores its result, so the
  socket is open or -1.

A datagram is the record of what the parser can tell of its text: sender, axis,
whether a space follows the colon of `"axis"`, and three gains, finite numbers in
units of 0.00001, -1 for one that is missing. (`strtof` also accepts `nan`; that
is outside the model, and so is an empty datagram, which `recvfrom` consumes
without registering its sender: neither console sends one.) A report shows the gains through `Printed`, the `%.4f` of
`telemetry_send`. `handled` is a ghost: the last datagram dealt with.

### PidLoop and the code

One iteration of `flight_ctrl_task` is a `Delay` (the clock moves, modulo
`CLOCK_MOD`) and then `Abandon` (a mutex wait expired), `Stop` (kill or angle
limit: loops reset, `last_update_us` left alone), `LowThrottle` or `Fly`, the two
paths of `flight_controller_update`. `MeasureDt` is its head (46-50), `Integrate`
and `PidOutput` are `pid_update`, `ResetPids` is `pid_reset` of the three loops.
Floats are integers: degrees, ticks, degree-ticks; the divisions round. The ghosts
`since_update` and `since_reset` are true times, counted without wrapping up to
`TIME_CAP`. One delay is shorter than a turn of the clock, but killed or abandoned
iterations may add up to more than a turn (71 minutes); the measured difference is
then arbitrary, which `DtIsElapsed` leaves open and `NoWindup` covers.

### PythonConsole and the code

Thread `i` is the receive thread of the `i`-th `start()`: `LoopTest`, `Recv` or
`RecvFails`, then the body of `_on_packet`, one step per deque
(`AppendTime`, `AppendPitch`, `AppendRoll`) and `PostRefresh`. All threads share
`_running` and the one socket, as in the code. The Tk main thread runs one
callback at a time: `Connect`, `Disconnect`, `RefreshLive`, `EditSliders`,
`SendGains`, `OnClose`. A packet is its number; `Broken` ones are rejected by
`json.loads`. (Valid JSON that is not an object would raise inside `_on_packet`
after the first append and be caught in `_recv_loop`, leaving the deques unequal;
`telemetry_send` only ever sends an object, so no packet of the model does.)
`SockOfStart` says what `start()` does about the socket: nothing.

### TauriConsole and the code

Synchronous Tauri commands run on the main thread, one after the other:
`StartExisting`, `StartFails`, `StartTelemetry`, `StopNothing`, and
`StopTelemetry` followed by `Joined` (the `join` that holds the lock). The
receive thread is `ThreadTest`, `RecvNothing` or `RecvPacket`, `Emit`; or
`RecvPanics`, when `eprintln!` of a receive error or a malformed packet cannot write.
`Joined` then answers an error, which leaves the page's `connected` as it was
(`telemetryClient.js` 151) until the next click. The page is
`ClickConnect` and `ClickDisconnect` (a button that is loading cannot be clicked),
`OnAnswer` and `OnPacket`; `Reload` forgets its state while the Rust side goes on,
and answers to the old page go nowhere. Assumed of Tauri, which is outside the
repository: commands run in the order they are invoked and their answers arrive in
that order, packet events arrive in between at any time, and `emit` does not wait
for the main thread.

## 3. Runs

All passing runs but `python_console`, whose window may be closed, check deadlock
too.

| Run | Checks | Instance |
|---|---|---|
| `core_safety` | `TypeOK`, `TiltIsPrompt`, `DisconnectSafes`, `DemandsInRange`, `StoppedMeansReset`, `WholeSnapshots`, `HoldersDoNotWait`, `AtomicSpec` (refinement) | one gamepad, a report at full stick, two attitudes, two PID outputs, telemetry contending for both mutexes |
| `core_ramp` | `KillIsPrompt`, `RampAfterKill`, `SpinUpIsEarned`, `DutyFollowsPulse`, `HeadroomKept` | two gamepads, three reports, 6 µs of throttle range, PID outputs at their limit |
| `core_liveness` | `KillStops`, `TiltStops` | `FairSpec`; one gamepad, one report, two attitudes |
| `link` | `LinkTypeOK`, `UpdateInForce`, `UsedGainsMeant`, `GainStoreSpec` (refinement), `DatagramsHandled`, `ClientInformed` | `FairSpec`; two consoles, an update of each for the same axis, one datagram without `kd` |
| `pid_loop` | `PidTypeOK`, `DtIsElapsed`, `NoWindup`, `FirstPushAgrees` | clock of 24 ticks, pauses of 1, 10 and 11 ticks, three errors of either sign, integral limit of 24 |
| `python_console` | `ConsoleTypeOK`, `HistoriesAgree`, `DisplayCatchesUp`, `ShownInOrder`, `PacketsShown` | `FairSpec`; six packets, two of them broken, three connects, histories of two |
| `tauri_console` | `TauriTypeOK`, `PortReleased`, `RunningIsShown`, `JoinProgress`, `StopReturns`, `ConnectingEnds` | `FairSpec`; five commands and three events under way |

* `KillIsPrompt`, `TiltIsPrompt`: once a stopping command or a tilted attitude
  is published, at most **one** more motor write happens before a spinning
  command or a level attitude is published: the iteration that had already made
  its copy.
* `DisconnectSafes`: when `on_disconnected` is over the kill is in force, unless
  its 10 ms wait expired (the event then is `"missed"`; what follows from that is
  `loss_missed` below).
* `WholeSnapshots`: a completed copy equals one publication.
* `RampAfterKill`: the published throttle never exceeds
  `ARM + ACCEL_MAX * pub_frames`: after a kill by either gamepad, also one whose
  own publication was dropped, it has to be built up again report by report.
* `SpinUpIsEarned`: the same at the ESCs. Motors that stand start only on a command
  for which the reports after the last kill add up to more than the spin threshold,
  or in the one iteration that had copied its command before the kill.
* `DemandsInRange`: what the control loop has copied keeps the throttle ceiling,
  `ANGLE_SETPOINT_MAX` and `YAW_RATE_MAX`. Nothing downstream limits a setpoint,
  and the raw stick range is not symmetric.
* `HeadroomKept`: no motor is given more than the ceiling and three full
  corrections. In `config.h` these add up to exactly `ESC_PWM_MAX_US` (1300 + 300
  = 1600), so the upper clamps never cut off a correction on one side only.
* `HoldersDoNotWait`: no hold-and-wait at the two mutexes, hence no circular wait.
* `StoppedMeansReset`: "so windup doesn't cause a jump on spool-up", for the kill,
  the angle limit and the low throttle.
* `DutyFollowsPulse`: the early return of `esc_set_us` never leaves a stale duty.
* `KillStops`, `TiltStops`: a published kill and a published tilt do end with
  stopped motors, or are withdrawn, although iterations of the control loop may be
  abandoned again and again on the way.

* `LinkTypeOK`: types, and no datagram puts a negative gain into a PID state.
* `UpdateInForce`: the last datagram dealt with, if well-formed, is in force.
* `UsedGainsMeant`: how far the race of `torn_gains` goes. Each gain a PID step has
  read is the default of that term of that axis or was sent for it; sets may be
  mixed, terms and axes never are.
* `GainStoreSpec`: seen from the consoles, gains change as a whole and reports
  are of gains that were all in force at once. This holds because the task that
  reports is the task that writes; it fails for `pid_update` (`torn_gains`).
* `DatagramsHandled`: what reached the socket is dealt with, one per round.
* `ClientInformed`: a client that stays associated is told the gains in force.

* `DtIsElapsed`: "Compute dt from real elapsed time": across the wrap of the
  clock, abandoned iterations and kills, a dt of up to 0.1 s is the true time.
* `NoWindup`: no integral is larger than the greatest error could have made it in
  the true time since the last reset and one more 0.1 s. After a long kill the
  first dt is the default and not the length of the kill.
* `FirstPushAgrees`: the first correction of each loop after a stop has the sign of
  the error of that moment, or is zero: integral and previous error of the flight
  before are forgotten by all paths to a stop.
* `HistoriesAgree`: between callbacks the three deques hold the same packets,
  although they are filled without a lock and an old receive thread may overlap a
  new one. It holds for a reason worth knowing: `start()` does not open a new
  socket, so the new thread never receives anything (the mutant that repairs the
  reconnect naively breaks this property and `ShownInOrder`).
* `DisplayCatchesUp`: with no thread inside the callback and no refresh queued, the
  labels show the last packet decoded and the plot ends with it.
* `ShownInOrder`: the live values never go back to an older packet.
* `PacketsShown`: a packet that waits for a connected console is shown, or a later
  one is, unless the pilot disconnects; broken packets do not stop the thread.
* `PortReleased`: whenever a command is about to run there is a receive thread
  exactly if there is a runtime; a start never meets a socket of its own.
* `RunningIsShown`: when everything is answered a running receiver is shown as
  connected. The converse does not hold: a packet event delivered after the answer
  to a stop shows "Live UDP" with nothing listening, until the next click.
* `JoinProgress`: while `stop_telemetry` waits in `join`, every step of the receive
  thread brings its end nearer: at most one more packet, no further round.
* `StopReturns`, `ConnectingEnds`: the window does not hang in `join`, and the
  button does not stay loading, also when the start failed.

**Disagreements with the repository's own words** (`expect: violation`):

* `x_button_kill`: `controller.c:301` logs "motors killed" although the try-lock
  at 293 may have failed. The counterexample: the control loop on the other
  core holds `setpoint_mutex` at that instant. Bluepad32 repeats reports while
  X is held, which makes the loss unlikely to last; a single report loses it.
* `loss_missed`: `controller.c:274` says "Safe the drone on disconnect". When the
  10 ms of the take at 276 expire nothing is published and nobody tries again: the
  run has the motors turning for ever with no gamepad left, under the fairness of
  `core_liveness`. A holder of `setpoint_mutex` would have to be kept from running
  for 10 ms, so this is rare; but no second line of defence stands behind it.
* `torn_gains`: `pid.h:6` has the PID instances protected by single-task access;
  one `pid_update` reads gains of two updates.
* `spaced_json`: `MBL_QTC.py:13` promises that Send Gains updates the drone;
  `json.dumps` writes a space that `json_get_str` does not accept.
* `edit_lost`: the same line promises that what the pilot adjusted is sent; every
  report, 50 a second, sets the sliders back to the drone's gains first.

**Bounds and why they suffice.** The PWM scale is compressed (`MIN` 1000, `SPIN`
1001, flight maximum 1002, driver maximum 1004) so that one report takes the
accumulator across the spin threshold and to the ceiling; all comparisons of the
code still have values on both sides and on the boundary, and clamping happens
at both ends. `core_ramp` has a wider range so that ramping takes several
reports, PID outputs at their limit, which clamp motors at the bottom and leave
them below a driver maximum of 1080, so that `HeadroomKept` is about the sum and not
about the clamp (the upper clamp is met in `core_safety`), and two gamepads that
share the accumulator (interchangeable, hence the symmetry set); its throttle also
stops exactly at the spin threshold, which the single report of `core_safety` skips. One gamepad
is enough for the other safety properties, since no guard tells devices apart. `FrameCap` saturates a ghost above the point where it
matters (`CoreAssumption`). Two attitudes, level and beyond the limit, are what
the code tells apart. `MailboxSize` is 2 instead of 6: one datagram can wait
behind another, and the limit is met. Two consoles are what registration tells
apart. In `pid_loop` a tick is the 10 ms period; 1, 10 and 11 ticks are a normal
period, the longest pause believed and one that is not, and the clock wraps within
three pauses, in between and exactly at its end; the errors of opposite sign let a
loop be wound up one way and start again the other way. In `python_console` three connects
let two old threads overlap a new one and two points make the deques drop. In
`tauri_console` five commands and answers are more than one page and its
predecessor need to have start and stop under way at once; events saturate, being
alike. The theorems below remove all of these bounds.

**Fairness** (`FairSpec`). Weak fairness of each task's own steps: FreeRTOS
schedules `imu` and `fc` at the highest priority of core 1 and both sleep every
10 ms; on core 0 every task sleeps. A callback that has begun finishes
(`WF(Callback)`). The one extra assumption is about the waits of the control loop:
they may expire infinitely often, but if they do there also are infinitely many
iterations that get both mutexes. Their 2 ms are ample for critical sections of five
assignments, and FreeRTOS mutexes lend the holder the waiter's priority. Were
*every* wait to expire, no code would stop the motors; that case of `main.c:127` is
assumed away. Nothing is assumed about gamepads, the sensor or the success of a
try-lock. For the link: weak fairness of
`telemetry_task`, which sleeps 20 ms and never blocks (the socket is
non-blocking), and strong fairness of `TelSend`: reports to a client that stays
are not lost, and its mutex waits do not expire, every time. Nothing is assumed
about consoles. In `PythonConsole`: weak fairness of each receive thread, whose
`recvfrom` times out after 50 ms, and of the main loop's `after` queue; nothing of
the pilot or the network. In `TauriConsole`: weak fairness of the main thread, of
the receive thread (whose `recv` times out after 200 ms, so that it gets back to
the flag whether packets come or not) and of the page's two handlers; nothing of
clicks, packets or reloads.

**Mutants.** Each property has a planted fault in the code it is about (an
unguarded take, an off-by-one throttle comparison, a kill that forgets the flag,
a stop that forgets the PIDs, a coarse duty comparison, ...), defined before the
operator it replaces and marked "Fault".

## 4. Theorems

All are proved by TLAPS for every value of the constants that satisfies the
assumptions: the order `0 < MIN <= ARM <= SPIN < FLIGHT_MAX <= MAX` and
non-negative rates and limits (`DroneConfig`), attitudes and PID outputs of the
right type (`FlightData`), `FrameCap` large enough (`FlightCore`), a default dt of
at least one tick within the limit and pauses shorter than a turn of the clock
(`PidLoop`), and the types of packets and bounds in the consoles. `config.h`
satisfies them, and TLC evaluates them on every run.

* `TypeCorrect`: `Spec => []TypeOK`.
* `MutualExclusion`: each mutex is held exactly by the task inside its section.
* `CopiesAreFaithful`: `CopyInv`. `WholeSnapshots` is not inductive: it speaks
  of completed copies only. The strengthening says of *every* moment that the
  fields copied so far (`Done(order, pos)`) agree with the source, for the
  writers (`GlobalInv`, which also ties the globals to the last publication
  outside a write) and for the readers (`SnapInv`). It rests on `MutexInv`: while
  a reader is inside, no writer is.
* `SnapshotsAreWhole`, from these.
* `RampIsEnforced`: by `CommandInv`, which says of the accumulator and of the
  command a callback is carrying that the reports since the last kill account for
  them, and of the published command that those counted at its publication do. Arithmetic of `accumulate_throttle` is in lemmas.
* `KillsArePrompt`, `TiltsArePrompt`: by `LateInv`. The key is that a loop past
  its copy may hold a withdrawn command only if the late counter is still 0.
* `StoppedMotorsAreReset`, `DutiesFollowPulses`: by `OutputInv`. The mixer lemma
  `MixSpinsSome` shows that above the spin threshold some motor always stays
  above the arm pulse: the four corrections sum to zero.
* `SpinUpsAreEarned`, an action property: a motor that starts is started by `FcFly`,
  since every other step leaves the pulses alone or at the arm pulse
  (`OnlyFlyingStarts`). Either the last published command spins, and `CommandInv`
  bounds its throttle by the reports, or by `LateInv` this is the first late write.
* `DemandsStayInRange`: by `RangeInv`, the same bound of the command a callback
  carries, of the globals in the middle of being written, and of the copies. It
  needs no mutex: a mixture of two records in range is in range.
* `MotorsHaveHeadroom`: from `RangeInv`. `MixBound` is the arithmetic of the mixer:
  each motor gets the throttle and three corrections, rounded towards zero.
* `NoHoldAndWait`: from `MutexInv`, which says where a holder is.
* `CoreImplementsAtomic`: `Spec => AtomicSpec`. Under the mapping, publications
  are the ghosts and a copy becomes "seen" when its mutex is given back; each
  concrete step is one abstract step or a stutter.

* `LinkTypes`: `LinkTypeOK`, with `InSet`: a datagram being applied was accepted.
  Assumed is only that datagrams have their type (`LinkAssumption`).
* `UpdatesTakeForce`: `UpdateInForce` is not inductive, since it says nothing
  while `pid_set_gains` is at work; `WrittenSoFar` says that the gains assigned
  so far are the datagram's.
* `LinkImplementsStore`: `Spec => GainStoreSpec`. The store has the new gains from
  the moment the datagram is accepted; `AssignmentStutters` shows that the three
  assignments then change nothing, the last by `WrittenSoFar`.
* `RaceInventsNoGain`: by `GainsMeant`, the same of every gain in a PID state, also
  in the middle of `pid_set_gains`, and `InSet` for the datagram being applied.

* `LossIsSafe`: `DisconnectSafes`, by `LossInv`, the same of the last publication,
  which `GlobalInv` ties to the globals; `CommandInv` says that a disconnect
  carries the kill.
* `PidTypes`: `PidTypeOK`; dt is never zero, so the division of `pid_update` is
  safe without its guard.
* `DtIsReal`: `ClockInv` ties the wrapped difference of the two clock readings to
  the true time, as long as that is below `TIME_CAP`, and says that some time has
  passed before an update; `WrapSub` and `WrapAdd` have lemmas of their own.
* `IntegralsDoNotWindUp`: `NoWindup` is not inductive, since it does not know how
  much of the time since the reset the integral already accounts for. `WindupInv`
  bounds it by `since_reset - since_update + DT_MAX`: the 0.1 s pay for the first
  dt after a reset, which may be the default although less time has passed.
* `FirstPushesAgree`, an action property: by `ResetInv`, loops that have not flown
  since a reset have no integral and no previous error, so that all three terms of
  the first step are multiples of the error by numbers that are not negative (gains
  are not, as `LinkTypes` shows of the link).
* `ConsoleTypes`, `LiveValuesInOrder`: by `ReaderInv` (only the first receive
  thread ever gets a packet, and the one inside the callback holds `_latest`) and
  `OrderInv` (shown, queued, latest and waiting packets are in ascending order).
* `HistoriesStayTogether`: by `HistoryInv`, which says for each point inside the
  callback which deques are one packet ahead.
* `DisplayIsComplete`: by `DisplayInv`, which says that the `after` queue, or the
  labels if it is empty, and the plot end with `_latest`, with `ReaderInv` and
  `OrderInv`.
* `TauriTypes`; `PortIsReleased`: by `PortInv`, which adds that during the join the
  flag is set and the runtime gone.
* `RunningReceiverIsShown`: by `ShownInv`. Commands of an earlier page come before
  those of this one, so once this page has an answer no foreign command can change
  the runtime behind its back; and of a running receiver the last answer, seen or
  still under way, is "listening".

* `JoinsProgress`, an action property: from `PortInv`. It is the safety half of
  `StopReturns`: three steps of the thread at most end the wait; that it does take
  them is fairness and stays with TLC.

Every invariant and every action property of a passing run has its theorem. Only
model-checked: the liveness properties (`KillStops`, `TiltStops`,
`DatagramsHandled`, `ClientInformed`, `PacketsShown`, `StopReturns`,
`ConnectingEnds`), because liveness under fairness is out of the prover's reach, and
the violations, which are counterexamples.

## 5. Not modelled

* `components/imu`: register traffic and floating point filtering. What matters to
  the rest, that a sample may come late, never, or be dropped, is in `FlightCore`.
* `app_main`'s boot sequence runs once, in one task, before anything else.
* `esc_calibration.c` is not called; lines 1-190 of `controller.c` are a
  commented-out earlier version.
* BTstack, Bluepad32, `cmd_nvs`, `cmd_system` and ttkbootstrap are third-party
  libraries in the tree and make up some 99% of its lines. Of Bluepad32 the model
  has what the platform callbacks rest on.
* In the Tauri console sending gains and confirming them cannot be reached: the
  Send All button (`PidPanel.jsx` 26-32) has no `onClick`. `telemetry_status` is
  never invoked. Drawing, history and settings are left out in both consoles.

## 6. Behaviour worth knowing that needs no run

These follow from a few lines each, or the repository promises nothing about them:

* `controller.c:272`: one `s_connected` for all gamepads; with two, the flag is 0
  when one has left (`controller.h:24` says otherwise). Nothing reads it.
* `flight_controller.c:57`: the telemetry cache keeps the last flying pulses after
  a stop, although `telemetry.h:27` has it set after each update.
* `telemetry.c:157`: the first sender since boot is the client until reboot; a
  second console's greeting (`udp_client.py:6`) changes nothing.
* `README.md:536` of the repository has the PID system average the pitch and roll
  values of a motor; `motor_mix.c:18-21` adds them (and yaw) to the throttle.
  `MotorOutput` follows the code.
* `config.h:33`: full stick moves the throttle by 2 µs per callback; full stick
  *down* is raw 511, and `ThrottleRate` truncates 1.998 to 1.
* `wifi_server.h:25` promises a client address that nothing records.
* `config.h:87`: `PID_INTEGRAL_LIMIT` is 0, so the integral term is off whatever
  `ki` is. `pid.c:30` says the derivative is on the measurement; line 33 takes it
  of the error. `PidLoop` follows the code, for every limit.
* `udp_client.py:42`: after Disconnect and Connect the Python console says it is
  connected and receives nothing. `MBL_QTC.py:308-312` copies the deques while the
  receive thread may be between two appends, so a frame may have a time without
  an angle.
* `lib.rs:171`, `179`: a receive thread that panics leaves the runtime in place; the
  page goes on showing a connection until the pilot disconnects.
* `telemetryClient.js:107`: a late packet event shows a stopped receiver as live.
* `main.c:69-72`: a failed sensor read drops its period from the filter's dt.
