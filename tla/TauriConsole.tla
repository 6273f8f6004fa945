----------------------------- MODULE TauriConsole -----------------------------
(* The Tauri console: the commands of lib.rs, which the main thread runs one *)
(* at a time, its receive thread, and the page with useTelemetry and the     *)
(* button of TopBar.  Commands and their answers keep their order; packet    *)
(* events reach the page on a way of their own.  The page may be reloaded    *)
(* while the Rust side goes on.  What a packet holds and the wording of      *)
(* errors are left out.                                                      *)
EXTENDS Integers, Sequences

CONSTANTS
    MaxPending,     \* bound: commands and answers under way
    MaxEvents       \* bound: packet events under way that are told apart

ASSUME TauriAssumption == MaxPending \in Nat /\ MaxEvents \in Nat

VARIABLES
    runtime,        \* TelemetryState: "none" or "some"
    stop,           \* the stop flag the receive thread looks at
    thread,         \* the receive thread: "none" once it has ended, "panicked"
                    \* when it died and nobody has joined it yet
    main,           \* the main thread: "idle", or "join" inside stop_telemetry
    served,         \* whether the page that asked for that stop is still there
    commands,       \* invoked, not yet run
    answers,        \* answered, not yet seen by the page
    events,         \* packets emitted and not yet seen by the page
    connected, connecting,      \* of useTelemetry
    answered        \* ghost: this page has seen an answer

rustVars == <<runtime, stop, thread, main, served>>
pageVars == <<connected, connecting, answered>>
vars == <<rustVars, commands, answers, events, pageVars>>

Init ==
    /\ runtime = "none"
    /\ stop = FALSE
    /\ thread = "none"
    /\ main = "idle"
    /\ served = FALSE
    /\ commands = <<>>
    /\ answers = <<>>
    /\ events = 0
    /\ connected = FALSE
    /\ connecting = FALSE
    /\ answered = FALSE

-----------------------------------------------------------------------------
(* The commands.  here: the page that invoked the command is still there.    *)

Command == [name : {"start", "stop"}, here : BOOLEAN]

Runs(name) == main = "idle" /\ commands # <<>> /\ Head(commands).name = name

(* The answer to a page that is gone goes nowhere.                           *)
Answer(a, here) == answers' = IF here THEN Append(answers, a) ELSE answers

(* Fault: the status of a running receiver says it is not listening.         *)
ListeningNot == FALSE

(* status_from_runtime(existing, true)                                       *)
Listening == TRUE

StartExisting ==
    /\ Runs("start")
    /\ runtime = "some"
    /\ commands' = Tail(commands)
    /\ Answer(IF Listening THEN "listening" ELSE "silent", Head(commands).here)
    /\ UNCHANGED <<rustVars, events, pageVars>>

(* bind, connect, send or try_clone fails, and the socket is dropped.        *)
StartFails ==
    /\ Runs("start")
    /\ runtime = "none"
    /\ commands' = Tail(commands)
    /\ Answer("failed", Head(commands).here)
    /\ UNCHANGED <<rustVars, events, pageVars>>

(* The receiver is set up with a stop flag and a thread of its own.          *)
StartTelemetry ==
    /\ Runs("start")
    /\ runtime = "none"
    /\ runtime' = "some"
    /\ stop' = FALSE
    /\ thread' = "test"
    /\ commands' = Tail(commands)
    /\ Answer("listening", Head(commands).here)
    /\ UNCHANGED <<main, served, events, pageVars>>

StopNothing ==
    /\ Runs("stop")
    /\ runtime = "none"
    /\ commands' = Tail(commands)
    /\ Answer("stopped", Head(commands).here)
    /\ UNCHANGED <<rustVars, events, pageVars>>

(* Fault: the thread is joined without having been told to stop.             *)
StopUntold ==
    /\ Runs("stop")
    /\ runtime = "some"
    /\ runtime' = "none"
    /\ main' = "join"
    /\ served' = Head(commands).here
    /\ commands' = Tail(commands)
    /\ UNCHANGED <<stop, thread, answers, events, pageVars>>

(* stop_telemetry takes the runtime, sets the flag and joins the thread,     *)
(* holding the lock of the state.                                            *)
StopTelemetry ==
    /\ Runs("stop")
    /\ runtime = "some"
    /\ runtime' = "none"
    /\ stop' = TRUE
    /\ main' = "join"
    /\ served' = Head(commands).here
    /\ commands' = Tail(commands)
    /\ UNCHANGED <<thread, answers, events, pageVars>>

(* Fault: the thread is detached instead of joined.                          *)
ThreadDetached == TRUE

ThreadEnded == thread \in {"none", "panicked"}

(* join reports a panic, which becomes the error of stop_telemetry; the      *)
(* runtime is dropped either way.                                            *)
Joined ==
    /\ main = "join"
    /\ ThreadEnded
    /\ main' = "idle"
    /\ served' = FALSE
    /\ thread' = IF thread = "panicked" THEN "none" ELSE thread
    /\ Answer(IF thread = "panicked" THEN "panicked" ELSE "stopped", served)
    /\ UNCHANGED <<runtime, stop, commands, events, pageVars>>

MainThread ==
    \/ StartExisting \/ StartFails \/ StartTelemetry
    \/ StopNothing \/ StopTelemetry \/ Joined

-----------------------------------------------------------------------------
(* The receive thread.                                                       *)

ThreadTest ==
    /\ thread = "test"
    /\ thread' = IF stop THEN "none" ELSE "recv"
    /\ UNCHANGED <<runtime, stop, main, served, commands, answers, events, pageVars>>

(* Fault: recv blocks until a datagram comes.                                *)
RecvForever == FALSE

(* set_read_timeout(200 ms)                                                  *)
ReadTimeout == TRUE

(* recv times out or fails, or the datagram is malformed.                    *)
RecvNothing ==
    /\ thread = "recv"
    /\ ReadTimeout
    /\ thread' = "test"
    /\ UNCHANGED <<runtime, stop, main, served, commands, answers, events, pageVars>>

(* eprintln! of such an error panics when stderr cannot be written: the      *)
(* thread unwinds, drops its clone of the socket and waits to be joined.     *)
RecvPanics ==
    /\ thread = "recv"
    /\ thread' = "panicked"
    /\ UNCHANGED <<runtime, stop, main, served, commands, answers, events, pageVars>>

RecvPacket ==
    /\ thread = "recv"
    /\ thread' = "emit"
    /\ UNCHANGED <<runtime, stop, main, served, commands, answers, events, pageVars>>

(* app.emit does not wait for the main thread.  A report of the firmware is  *)
(* one line.                                                                 *)
Emit ==
    /\ thread = "emit"
    /\ thread' = "test"
    /\ events' = IF events < MaxEvents THEN events + 1 ELSE events
    /\ UNCHANGED <<runtime, stop, main, served, commands, answers, pageVars>>

-----------------------------------------------------------------------------
(* The page.                                                                 *)

Invoke(name) ==
    /\ Len(commands) + Len(answers) < MaxPending
    /\ commands' = Append(commands, [name |-> name, here |-> TRUE])
    /\ UNCHANGED <<rustVars, answers, events>>

(* A button that is loading cannot be clicked.                               *)
ClickConnect ==
    /\ ~ connected /\ ~ connecting
    /\ Invoke("start")
    /\ connecting' = TRUE
    /\ UNCHANGED <<connected, answered>>

ClickDisconnect ==
    /\ connected /\ ~ connecting
    /\ Invoke("stop")
    /\ UNCHANGED pageVars

(* Fault: setConnecting(false) is skipped when start_telemetry fails.        *)
ConnectingAfterAnswered(a) ==
    connecting' = IF a = "listening" THEN FALSE ELSE connecting

(* connect: finally; disconnect does not touch the flag.                     *)
ConnectingAfter(a) ==
    connecting' = IF a \in {"stopped", "panicked"} THEN connecting ELSE FALSE

(* invoke resolves or rejects: setConnected(Boolean(status.listening)) after *)
(* start_telemetry or setConnected(false) when it failed, setConnected(false) *)
(* after stop_telemetry, whose error leaves connected as it was.             *)
OnAnswer ==
    /\ answers # <<>>
    /\ answers' = Tail(answers)
    /\ connected' = IF Head(answers) = "panicked" THEN connected
                    ELSE Head(answers) = "listening"
    /\ ConnectingAfter(Head(answers))
    /\ answered' = TRUE
    /\ UNCHANGED <<rustVars, commands, events>>

(* The listener of telemetry://packet.                                       *)
OnPacket ==
    /\ events > 0
    /\ events' = events - 1
    /\ connected' = TRUE
    /\ UNCHANGED <<rustVars, commands, answers, connecting, answered>>

(* The page is loaded again.                                                 *)
Reload ==
    /\ commands' = [k \in 1 .. Len(commands) |-> [commands[k] EXCEPT !.here = FALSE]]
    /\ served' = FALSE
    /\ answers' = <<>>
    /\ events' = 0
    /\ connected' = FALSE
    /\ connecting' = FALSE
    /\ answered' = FALSE
    /\ UNCHANGED <<runtime, stop, thread, main>>

Page == OnAnswer \/ OnPacket

Next ==
    \/ MainThread
    \/ ThreadTest \/ RecvNothing \/ RecvPanics \/ RecvPacket \/ Emit
    \/ ClickConnect \/ ClickDisconnect \/ Page \/ Reload

Spec == Init /\ [][Next]_vars

-----------------------------------------------------------------------------
(* Every variable keeps its type; a start_telemetry that succeeds answers    *)
(* that it is listening, also when it found a receiver running.              *)
TauriTypeOK ==
    /\ runtime \in {"none", "some"}
    /\ stop \in BOOLEAN
    /\ thread \in {"none", "test", "recv", "emit", "panicked"}
    /\ main \in {"idle", "join"}
    /\ served \in BOOLEAN
    /\ commands \in Seq(Command)
    /\ answers \in Seq({"listening", "failed", "stopped", "panicked"})
    /\ events \in 0 .. MaxEvents
    /\ connected \in BOOLEAN
    /\ connecting \in BOOLEAN
    /\ answered \in BOOLEAN

(* Whenever a command is about to run, a receive thread, alive or panicked   *)
(* and not yet joined, exists exactly if there is a runtime, and it has not  *)
(* been told to stop: start_telemetry never finds the port taken by a thread *)
(* of its own, and never are there two threads emitting packets.             *)
PortReleased ==
    main = "idle" => (thread # "none" <=> runtime = "some")
                       /\ (runtime = "some" => ~ stop)

(* App.jsx shows "Live UDP" or "Awaiting data": when nothing is under way    *)
(* and the page has had an answer, a running receiver is shown as connected, *)
(* however often and however fast the button was clicked, so that the button *)
(* stops it.                                                                 *)
RunningIsShown ==
    (commands = <<>> /\ answers = <<>> /\ main = "idle" /\ answered)
        => (runtime = "some" => connected)

(* How many more steps a receive thread that has been told to stop can take. *)
StepsLeft ==
    CASE thread = "recv" -> 3
      [] thread = "emit" -> 2
      [] thread \in {"test", "panicked"} -> 1
      [] thread = "none" -> 0

(* While stop_telemetry waits in join, holding the lock of the state and the *)
(* main thread, every step of the receive thread brings its end nearer: it   *)
(* cannot start another round, nor can another thread take its place, so the *)
(* window is blocked for one read timeout and one packet at most.            *)
JoinProgress == [][main = "join" /\ thread' # thread => StepsLeft' < StepsLeft]_vars

(* Each thread is scheduled, and the page handles what reaches it.           *)
TauriFairness ==
    /\ WF_vars(MainThread)
    /\ WF_vars(ThreadTest \/ RecvNothing \/ Emit)
    /\ WF_vars(OnAnswer)
    /\ WF_vars(OnPacket)

FairSpec == Spec /\ TauriFairness

(* stop_telemetry blocks the main thread, and with it the window, only until *)
(* the receive thread has noticed the flag.                                  *)
StopReturns == main = "join" ~> main = "idle"

(* The button does not stay loading.                                         *)
ConnectingEnds == connecting ~> ~ connecting
=============================================================================
