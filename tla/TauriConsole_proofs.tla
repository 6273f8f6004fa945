------------------------- MODULE TauriConsole_proofs -------------------------
(* Proofs about the Tauri console, for every number of commands and events   *)
(* under way.                                                                *)
EXTENDS TauriConsole, TLAPS

Reply == {"listening", "failed", "stopped", "panicked"}

-----------------------------------------------------------------------------
(* Types.                                                                    *)

(* A command leaves the queue of commands well typed.                        *)
LEMMA TailOfCommands ==
    ASSUME commands \in Seq(Command), commands # <<>>
    PROVE  /\ Head(commands) \in Command
           /\ Tail(commands) \in Seq(Command)
OBVIOUS

(* A reply keeps the queue of answers well typed.                            *)
LEMMA AnswerType ==
    ASSUME answers \in Seq(Reply), NEW a \in Reply, NEW here, Answer(a, here)
    PROVE  answers' \in Seq(Reply)
<1>1. Append(answers, a) \in Seq(Reply)
  OBVIOUS
<1> QED BY <1>1 DEF Answer

(* The commands of lib.rs, which all leave the page alone, keep the types.   *)
LEMMA MainThreadType == TauriTypeOK /\ MainThread => TauriTypeOK'
<1> SUFFICES ASSUME TauriTypeOK, MainThread PROVE TauriTypeOK'
  OBVIOUS
<1>t. answers \in Seq(Reply) /\ commands \in Seq(Command)
  BY DEF TauriTypeOK, Reply
<1>a. answers' \in Seq(Reply)
  <2>1. Reply = {"listening", "failed", "stopped", "panicked"}
    BY DEF Reply
  <2>2. CASE StartExisting
    BY <2>1, <2>2, <1>t, AnswerType DEF StartExisting, Listening
  <2>3. CASE StartFails
    BY <2>1, <2>3, <1>t, AnswerType DEF StartFails
  <2>4. CASE StartTelemetry
    BY <2>1, <2>4, <1>t, AnswerType DEF StartTelemetry
  <2>5. CASE StopNothing
    BY <2>1, <2>5, <1>t, AnswerType DEF StopNothing
  <2>6. CASE StopTelemetry
    BY <2>6, <1>t DEF StopTelemetry
  <2>7. CASE Joined
    BY <2>1, <2>7, <1>t, AnswerType DEF Joined
  <2> QED BY <2>2, <2>3, <2>4, <2>5, <2>6, <2>7 DEF MainThread
<1>c. commands' \in Seq(Command)
  <2>1. CASE Joined
    BY <2>1, <1>t DEF Joined
  <2>2. CASE ~ Joined
    <3>1. commands # <<>> /\ commands' = Tail(commands)
      BY <2>2 DEF MainThread, StartExisting, StartFails, StartTelemetry,
                  StopNothing, StopTelemetry, Runs
    <3> QED BY <3>1, <1>t, TailOfCommands
  <2> QED BY <2>1, <2>2
<1>r. runtime' \in {"none", "some"} /\ stop' \in BOOLEAN /\ main' \in {"idle", "join"}
      /\ thread' \in {"none", "test", "recv", "emit", "panicked"}
  BY DEF TauriTypeOK, MainThread, StartExisting, StartFails, StartTelemetry,
         StopNothing, StopTelemetry, Joined, rustVars
<1>s. served' \in BOOLEAN
  <2>1. CASE StopTelemetry
    <3>1. Head(commands) \in Command
      BY <2>1, <1>t, TailOfCommands DEF StopTelemetry, Runs
    <3> QED BY <2>1, <3>1 DEF StopTelemetry, Command
  <2>2. CASE ~ StopTelemetry
    BY <2>2 DEF TauriTypeOK, MainThread, StartExisting, StartFails, StartTelemetry,
                StopNothing, Joined, rustVars
  <2> QED BY <2>1, <2>2
<1>p. UNCHANGED <<events, pageVars>>
  BY DEF MainThread, StartExisting, StartFails, StartTelemetry,
         StopNothing, StopTelemetry, Joined
<1> QED BY <1>a, <1>c, <1>r, <1>s, <1>p DEF TauriTypeOK, Reply, pageVars

(* Init sets every variable to a value of its type.                          *)
LEMMA TypeInit == Init => TauriTypeOK
<1> SUFFICES ASSUME Init PROVE TauriTypeOK
  OBVIOUS
<1>1. commands \in Seq(Command) /\ answers \in Seq(Reply)
  BY DEF Init
<1>2. events \in 0 .. MaxEvents
  BY TauriAssumption DEF Init
<1> QED BY <1>1, <1>2 DEF Init, TauriTypeOK, Reply

(* Every step keeps the types.                                               *)
LEMMA TypeNext == TauriTypeOK /\ [Next]_vars => TauriTypeOK'
<1> SUFFICES ASSUME TauriTypeOK, [Next]_vars PROVE TauriTypeOK'
  OBVIOUS
<1>1. CASE MainThread
  BY <1>1, MainThreadType
<1>2. CASE ThreadTest \/ RecvNothing \/ RecvPanics \/ RecvPacket
  BY <1>2 DEF TauriTypeOK, ThreadTest, RecvNothing, RecvPanics, RecvPacket, pageVars
<1>3. CASE Emit
  BY <1>3, TauriAssumption DEF TauriTypeOK, Emit, pageVars
<1>4. CASE ClickConnect \/ ClickDisconnect
  <2>1. [name |-> "start", here |-> TRUE] \in Command
        /\ [name |-> "stop", here |-> TRUE] \in Command
    BY DEF Command
  <2>2. commands' \in Seq(Command)
    <3>1. PICK c \in Command : commands' = Append(commands, c)
      BY <1>4, <2>1 DEF ClickConnect, ClickDisconnect, Invoke
    <3>2. commands \in Seq(Command)
      BY DEF TauriTypeOK
    <3> QED BY <3>1, <3>2
  <2> QED BY <1>4, <2>2 DEF TauriTypeOK, ClickConnect, ClickDisconnect, Invoke, rustVars, pageVars
<1>5. CASE OnAnswer
  <2>1. answers' \in Seq(Reply)
    BY <1>5 DEF TauriTypeOK, OnAnswer, Reply
  <2>2. connected' \in BOOLEAN /\ connecting' \in BOOLEAN /\ answered' \in BOOLEAN
    BY <1>5 DEF TauriTypeOK, OnAnswer, ConnectingAfter
  <2> QED BY <1>5, <2>1, <2>2 DEF TauriTypeOK, OnAnswer, rustVars, Reply
<1>6. CASE OnPacket
  BY <1>6, TauriAssumption DEF TauriTypeOK, OnPacket, rustVars
<1>7. CASE Reload
  <2>1. commands' \in Seq(Command)
    <3>1. ASSUME NEW k \in 1 .. Len(commands)
          PROVE  [commands[k] EXCEPT !.here = FALSE] \in Command
      <4>1. commands[k] \in Command
        BY DEF TauriTypeOK
      <4> QED BY <4>1 DEF Command
    <3> QED BY <1>7, <3>1 DEF TauriTypeOK, Reload
  <2>2. answers' \in Seq(Reply)
    BY <1>7 DEF Reload
  <2>3. events' \in 0 .. MaxEvents
    BY <1>7, TauriAssumption DEF Reload
  <2> QED BY <1>7, <2>1, <2>2, <2>3 DEF TauriTypeOK, Reload, Reply
<1>8. CASE UNCHANGED vars
  BY <1>8 DEF TauriTypeOK, vars, rustVars, pageVars
<1> QED BY <1>1, <1>2, <1>3, <1>4, <1>5, <1>6, <1>7, <1>8 DEF Next, Page

(* Type correctness: whatever is clicked and received, lib.rs and the page   *)
(* keep their variables within their types; connected stays a Boolean.       *)
THEOREM TauriTypes == Spec => []TauriTypeOK
<1>1. Init => TauriTypeOK
  BY TypeInit
<1>2. TauriTypeOK /\ [Next]_vars => TauriTypeOK'
  BY TypeNext
<1> QED BY <1>1, <1>2, PTL DEF Spec

-----------------------------------------------------------------------------
(* The receive thread and the runtime.  While stop_telemetry waits, the      *)
(* runtime is gone and the flag is set; otherwise the thread lives exactly   *)
(* as long as the runtime and does not see the flag.                         *)
PortInv ==
    /\ PortReleased
    /\ main = "join" => runtime = "none" /\ stop

(* Every step keeps PortInv.                                                 *)
LEMMA PortNext == TauriTypeOK /\ PortInv /\ [Next]_vars => PortInv'
<1> SUFFICES ASSUME TauriTypeOK, PortInv, [Next]_vars PROVE PortInv'
  OBVIOUS
<1> USE DEF PortInv, PortReleased
<1>1. CASE StartExisting \/ StartFails \/ StopNothing
  BY <1>1 DEF StartExisting, StartFails, StopNothing, rustVars
<1>2. CASE StartTelemetry
  BY <1>2 DEF StartTelemetry, Runs
<1>3. CASE StopTelemetry
  BY <1>3 DEF StopTelemetry
<1>4. CASE Joined
  BY <1>4 DEF TauriTypeOK, Joined, ThreadEnded
<1>5. CASE ThreadTest
  BY <1>5 DEF TauriTypeOK, ThreadTest
<1>6. CASE RecvNothing \/ RecvPanics \/ RecvPacket \/ Emit
  BY <1>6 DEF RecvNothing, RecvPanics, RecvPacket, Emit
<1>7. CASE ClickConnect \/ ClickDisconnect \/ Page \/ Reload
  BY <1>7 DEF ClickConnect, ClickDisconnect, Invoke, Page, OnAnswer, OnPacket, Reload, rustVars
<1>8. CASE UNCHANGED vars
  BY <1>8 DEF vars, rustVars
<1> QED BY <1>1, <1>2, <1>3, <1>4, <1>5, <1>6, <1>7, <1>8 DEF Next, MainThread

(* The port is released when stop_telemetry returns: outside of it a receive *)
(* thread exists exactly when a runtime does, however the commands follow    *)
(* each other.                                                               *)
THEOREM PortIsReleased == Spec => []PortReleased
<1>1. Init => PortInv
  BY DEF Init, PortInv, PortReleased
<1>2. TauriTypeOK /\ PortInv /\ [Next]_vars => PortInv'
  BY PortNext
<1>3. PortInv => PortReleased
  BY DEF PortInv
<1> QED BY <1>1, <1>2, <1>3, TauriTypes, PTL DEF Spec

-----------------------------------------------------------------------------
(* What the page shows.                                                      *)

(* The commands of this page come after those of an earlier one.             *)
OldFirst ==
    \A i, j \in 1 .. Len(commands) : i < j /\ commands[i].here => commands[j].here

AllHere == \A k \in 1 .. Len(commands) : commands[k].here

(* Once this page has an answer, or waits for that of a stop, all commands   *)
(* left are its own; and the last thing it has heard, or is about to hear,   *)
(* of a running receiver is "listening".                                     *)
ShownInv ==
    /\ OldFirst
    /\ (answers # <<>> \/ answered) => AllHere
    /\ main = "join" /\ served => AllHere
    /\ runtime = "some" /\ answers # <<>> => answers[Len(answers)] = "listening"
    /\ runtime = "some" /\ answers = <<>> /\ answered => connected

(* A command that leaves the queue keeps the order, and if it is of this     *)
(* page, so are all that follow it.                                          *)
LEMMA RunKeepsOrder ==
    ASSUME commands \in Seq(Command), commands # <<>>, OldFirst,
           commands' = Tail(commands)
    PROVE  /\ OldFirst'
           /\ Head(commands).here => AllHere'
           /\ AllHere => AllHere' /\ Head(commands).here
<1>1. Len(commands') = Len(commands) - 1 /\ Len(commands) \in Nat \ {0}
  OBVIOUS
<1>2. \A k \in 1 .. Len(commands') : commands'[k] = commands[k + 1]
  OBVIOUS
<1>3. Head(commands) = commands[1]
  OBVIOUS
<1>4. OldFirst'
  BY <1>1, <1>2 DEF OldFirst
<1>5. Head(commands).here => AllHere'
  BY <1>1, <1>2, <1>3 DEF OldFirst, AllHere
<1>6. AllHere => AllHere' /\ Head(commands).here
  BY <1>1, <1>2, <1>3 DEF AllHere
<1> QED BY <1>4, <1>5, <1>6

(* The last of the answers after another one was put to them.                *)
LEMMA LastAnswer ==
    ASSUME answers \in Seq(Reply), NEW a \in Reply, NEW here, Answer(a, here)
    PROVE  /\ here => answers' # <<>> /\ answers'[Len(answers')] = a
           /\ ~ here => answers' = answers
BY DEF Answer

(* A step that runs a command and answers a keeps ShownInv, provided a       *)
(* receiver that runs afterwards is what the answer says.                    *)
LEMMA RunStep ==
    ASSUME TauriTypeOK, ShownInv, commands # <<>>, commands' = Tail(commands),
           main = "idle", main' = "idle",
           NEW a \in Reply, Answer(a, Head(commands).here),
           runtime' = "some" => a = "listening",
           UNCHANGED pageVars
    PROVE  ShownInv'
<1>1. commands \in Seq(Command) /\ answers \in Seq(Reply)
  BY DEF TauriTypeOK, Reply
<1>2. OldFirst
  BY DEF ShownInv
<1>3. /\ OldFirst'
      /\ Head(commands).here => AllHere'
      /\ AllHere => AllHere' /\ Head(commands).here
  BY <1>1, <1>2, RunKeepsOrder
<1>4. /\ Head(commands).here => answers' # <<>> /\ answers'[Len(answers')] = a
      /\ ~ Head(commands).here => answers' = answers
  BY <1>1, LastAnswer
<1>5. CASE Head(commands).here
  BY <1>3, <1>4, <1>5 DEF ShownInv
<1>6. CASE ~ Head(commands).here
  <2>1. answers = <<>> /\ ~ answered
    BY <1>3, <1>6 DEF ShownInv
  <2>2. answers' = <<>> /\ ~ answered'
    BY <1>4, <1>6, <2>1 DEF pageVars
  <2> QED BY <1>3, <2>2 DEF ShownInv
<1> QED BY <1>5, <1>6

(* Every step keeps ShownInv.                                                *)
LEMMA ShownNext == TauriTypeOK /\ PortInv /\ ShownInv /\ [Next]_vars => ShownInv'
<1> SUFFICES ASSUME TauriTypeOK, PortInv, ShownInv, [Next]_vars PROVE ShownInv'
  OBVIOUS
<1>t. commands \in Seq(Command) /\ answers \in Seq(Reply)
  BY DEF TauriTypeOK, Reply
<1>r. Reply = {"listening", "failed", "stopped", "panicked"}
  BY DEF Reply
<1>1. CASE StartExisting
  BY <1>1, <1>r, RunStep DEF StartExisting, Listening, Runs, rustVars
<1>2. CASE StartFails
  BY <1>2, <1>r, RunStep DEF StartFails, Runs, rustVars
<1>3. CASE StartTelemetry
  BY <1>3, <1>r, RunStep DEF StartTelemetry, Runs
<1>4. CASE StopNothing
  BY <1>4, <1>r, RunStep DEF StopNothing, Runs, rustVars
<1>5. CASE StopTelemetry
  <2>1. /\ OldFirst'
        /\ Head(commands).here => AllHere'
        /\ AllHere => AllHere' /\ Head(commands).here
    BY <1>5, <1>t, RunKeepsOrder DEF StopTelemetry, Runs, ShownInv
  <2>2. runtime' = "none" /\ served' = Head(commands).here
        /\ UNCHANGED <<answers, answered>>
    BY <1>5 DEF StopTelemetry, pageVars
  <2> QED BY <2>1, <2>2 DEF ShownInv
<1>6. CASE Joined
  <2>1. runtime' = "none" /\ main' = "idle" /\ UNCHANGED <<commands, answered>>
    BY <1>6 DEF Joined, PortInv, pageVars
  <2>2. ~ served => answers' = answers
    BY <1>6 DEF Joined, Answer
  <2>3. served => AllHere
    BY <1>6 DEF ShownInv, Joined
  <2>4. OldFirst' /\ (AllHere => AllHere')
    BY <2>1 DEF ShownInv, OldFirst, AllHere
  <2> QED BY <2>1, <2>2, <2>3, <2>4 DEF ShownInv
<1>7. CASE ThreadTest \/ RecvNothing \/ RecvPanics \/ RecvPacket \/ Emit
  BY <1>7 DEF ThreadTest, RecvNothing, RecvPanics, RecvPacket, Emit, pageVars, ShownInv, OldFirst, AllHere
<1>8. CASE ClickConnect \/ ClickDisconnect
  <2>1. PICK c : c.here /\ commands' = Append(commands, c)
    BY <1>8 DEF ClickConnect, ClickDisconnect, Invoke
  <2>2. Len(commands') = Len(commands) + 1 /\ Len(commands) \in Nat
    BY <1>t, <2>1
  <2>3. commands'[Len(commands')] = c
        /\ \A k \in 1 .. Len(commands) : commands'[k] = commands[k]
    BY <1>t, <2>1
  <2>4. OldFirst'
    BY <2>1, <2>2, <2>3 DEF ShownInv, OldFirst
  <2>5. AllHere => AllHere'
    BY <2>1, <2>2, <2>3 DEF AllHere
  <2>6. UNCHANGED <<main, served, runtime, answers, answered, connected>>
    BY <1>8 DEF ClickConnect, ClickDisconnect, Invoke, rustVars, pageVars
  <2> QED BY <2>4, <2>5, <2>6 DEF ShownInv
<1>9. CASE OnAnswer
  <2>1. UNCHANGED <<main, served, runtime, commands>> /\ answered'
    BY <1>9 DEF OnAnswer, rustVars
  <2>2. OldFirst' /\ AllHere'
    BY <1>9, <2>1 DEF OnAnswer, ShownInv, OldFirst, AllHere
  <2>3. answers # <<>> /\ answers' = Tail(answers) /\ (Head(answers) = "listening" => connected')
    BY <1>9 DEF OnAnswer
  <2>4. CASE answers' = <<>>
    <3>1. Head(answers) = answers[Len(answers)]
      <4>1. Len(answers) \in Nat \ {0} /\ Len(answers') = Len(answers) - 1
        BY <1>t, <2>3
      <4>2. Len(answers') = 0
        BY <2>4
      <4>3. Len(answers) = 1
        BY <4>1, <4>2
      <4> QED BY <1>t, <4>3
    <3>2. runtime' = "some" => connected'
      BY <2>1, <2>3, <3>1 DEF ShownInv
    <3> QED BY <2>2, <2>4, <3>2 DEF ShownInv
  <2>5. CASE answers' # <<>>
    <3>1. answers'[Len(answers')] = answers[Len(answers)]
      BY <1>t, <2>3, <2>5
    <3>2. runtime' = "some" => answers'[Len(answers')] = "listening"
      BY <2>1, <2>3, <3>1 DEF ShownInv
    <3> QED BY <2>2, <2>5, <3>2 DEF ShownInv
  <2> QED BY <2>4, <2>5
<1>10. CASE OnPacket
  BY <1>10 DEF OnPacket, rustVars, ShownInv, OldFirst, AllHere
<1>11. CASE Reload
  <2>1. Len(commands') = Len(commands)
    BY <1>11, <1>t DEF Reload
  <2>2. \A k \in 1 .. Len(commands) : ~ commands'[k].here
    <3>1. \A k \in 1 .. Len(commands) : commands[k] \in Command
      BY <1>t
    <3> QED BY <1>11, <3>1 DEF Reload, Command
  <2>3. OldFirst'
    BY <2>1, <2>2 DEF OldFirst
  <2>4. answers' = <<>> /\ ~ answered' /\ ~ served'
    BY <1>11 DEF Reload
  <2> QED BY <2>3, <2>4 DEF ShownInv
<1>12. CASE UNCHANGED vars
  BY <1>12 DEF vars, rustVars, pageVars, ShownInv, OldFirst, AllHere
<1> QED BY <1>1, <1>2, <1>3, <1>4, <1>5, <1>6, <1>7, <1>8, <1>9, <1>10, <1>11, <1>12
        DEF Next, MainThread, Page

(* The top bar does not show a running receiver as disconnected once all     *)
(* commands are answered, for any sequence of clicks and reloads.            *)
THEOREM RunningReceiverIsShown == Spec => []RunningIsShown
<1>1. Init => PortInv /\ ShownInv
  BY DEF Init, PortInv, PortReleased, ShownInv, OldFirst, AllHere
<1>2. TauriTypeOK /\ PortInv /\ ShownInv /\ [Next]_vars => (PortInv /\ ShownInv)'
  BY PortNext, ShownNext
<1>3. ShownInv => RunningIsShown
  BY DEF ShownInv, RunningIsShown
<1> QED BY <1>1, <1>2, <1>3, TauriTypes, PTL DEF Spec

-----------------------------------------------------------------------------
(* The wait of stop_telemetry.  A thread that has been told to stop only     *)
(* comes nearer to its end, and no command can start another one; with the   *)
(* thread being scheduled this is why the wait is over after three steps.    *)
THEOREM JoinsProgress == Spec => JoinProgress
<1> DEFINE A == main = "join" /\ thread' # thread => StepsLeft' < StepsLeft
<1>1. TauriTypeOK /\ PortInv /\ [Next]_vars => [A]_vars
  <2> SUFFICES ASSUME TauriTypeOK, PortInv, [Next]_vars, main = "join",
                      thread' # thread
               PROVE  StepsLeft' < StepsLeft
    OBVIOUS
  <2>1. stop /\ ~ StartTelemetry
    BY DEF PortInv, StartTelemetry, Runs
  <2>2. CASE ThreadTest
    <3>1. thread = "test" /\ thread' = "none"
      BY <2>1, <2>2 DEF ThreadTest
    <3> QED BY <3>1 DEF StepsLeft
  <2>3. CASE RecvNothing
    <3>1. thread = "recv" /\ thread' = "test"
      BY <2>3 DEF RecvNothing
    <3> QED BY <3>1 DEF StepsLeft
  <2>4. CASE RecvPacket
    <3>1. thread = "recv" /\ thread' = "emit"
      BY <2>4 DEF RecvPacket
    <3> QED BY <3>1 DEF StepsLeft
  <2>5. CASE Emit
    <3>1. thread = "emit" /\ thread' = "test"
      BY <2>5 DEF Emit
    <3> QED BY <3>1 DEF StepsLeft
  <2>6. CASE RecvPanics
    <3>1. thread = "recv" /\ thread' = "panicked"
      BY <2>6 DEF RecvPanics
    <3> QED BY <3>1 DEF StepsLeft
  <2>7. CASE Joined
    <3>1. thread = "panicked" /\ thread' = "none"
      BY <2>7 DEF Joined
    <3> QED BY <3>1 DEF StepsLeft
  <2>8. ThreadTest \/ RecvNothing \/ RecvPanics \/ RecvPacket \/ Emit \/ Joined
    BY <2>1 DEF Next, MainThread, StartExisting, StartFails, StopNothing,
                StopTelemetry, ClickConnect, ClickDisconnect, Invoke,
                Page, OnAnswer, OnPacket, Reload, vars, rustVars
  <2> QED BY <2>2, <2>3, <2>4, <2>5, <2>6, <2>7, <2>8
<1>2. Init => PortInv
  BY DEF Init, PortInv, PortReleased
<1> QED BY <1>1, <1>2, PortNext, TauriTypes, PTL DEF Spec, JoinProgress
=============================================================================
