---------------------------- MODULE PythonConsole ----------------------------
(* The Python console: udp_client.py's receive thread and MBL_QTC.py's Tk    *)
(* main thread.  A telemetry packet is its number in the order of arrival;   *)
(* Broken are those json.loads rejects, Reported the gains the others carry, *)
(* one value for the nine sliders.  The plot and the packet rate are left    *)
(* out: they only read what is modelled here.                                *)
EXTENDS Integers, Sequences

CONSTANTS
    MaxPackets,     \* bound: packets that arrive
    MaxStarts,      \* bound: times Connect is clicked
    MAX_POINTS,     \* maxlen of the history deques
    Broken,
    GainValues,     \* slider positions
    Reported,
    NoGains         \* no slider position

Packets == 1 .. MaxPackets
Threads == 1 .. MaxStarts

ASSUME ConsoleAssumption ==
    /\ MaxPackets \in Nat
    /\ MaxStarts \in Nat
    /\ MAX_POINTS \in Nat \ {0}
    /\ Broken \subseteq Packets
    /\ Reported \in [Packets -> GainValues]
    /\ NoGains \notin GainValues

VARIABLES
    sock,           \* "open" or "closed"
    inbox,          \* packets waiting in the socket
    arrived,        \* number of the last packet that arrived
    _running,       \* of UDPClient
    starts,         \* how many receive threads have been made
    thread,         \* where each receive thread is
    packet,         \* the packet it works on
    _latest,
    t_history, pitch_history, roll_history,
    after_queue,    \* root.after calls the main loop has not run yet
    connected,      \* of QTCApp
    live,           \* the packet the labels show, 0 for none
    gain_vars,      \* the sliders
    window,         \* "open", or "closed" once _on_close has run
    wanted,         \* ghost: the pilot's last edit since the last send
    sent            \* ghost: the gains of the last send and wanted by then

netVars == <<sock, inbox, arrived>>
recvVars == <<_running, starts, thread, packet, _latest>>
histVars == <<t_history, pitch_history, roll_history>>
uiVars == <<connected, live, gain_vars, window>>
ghostVars == <<wanted, sent>>
vars == <<netVars, recvVars, histVars, after_queue, uiVars, ghostVars>>

(* UDPClient and QTCApp are constructed; the socket is bound.                *)
Init ==
    /\ sock = "open"
    /\ inbox = <<>>
    /\ arrived = 0
    /\ _running = FALSE
    /\ starts = 0
    /\ thread = [i \in Threads |-> "none"]
    /\ packet = [i \in Threads |-> 0]
    /\ _latest = 0
    /\ t_history = <<>>
    /\ pitch_history = <<>>
    /\ roll_history = <<>>
    /\ after_queue = <<>>
    /\ connected = FALSE
    /\ live = 0
    /\ gain_vars \in GainValues
    /\ window = "open"
    /\ wanted = NoGains
    /\ sent = <<NoGains, NoGains>>

(* A packet reaches the bound socket; one that is lost is no step.           *)
Arrive ==
    /\ window = "open"
    /\ sock = "open"
    /\ arrived < MaxPackets
    /\ arrived' = arrived + 1
    /\ inbox' = Append(inbox, arrived')
    /\ UNCHANGED <<sock, recvVars, histVars, after_queue, uiVars, ghostVars>>

-----------------------------------------------------------------------------
(* The receive threads: _recv_loop and the callback _on_packet.              *)

Goto(i, label) == thread' = [thread EXCEPT ![i] = label]

(* while self._running                                                       *)
LoopTest(i) ==
    /\ thread[i] = "test"
    /\ Goto(i, IF _running THEN "recv" ELSE "done")
    /\ UNCHANGED <<netVars, _running, starts, packet, _latest, histVars,
                   after_queue, uiVars, ghostVars>>

(* recvfrom times out, or fails because the socket is closed.                *)
RecvFails(i) ==
    /\ thread[i] = "recv"
    /\ sock = "closed" \/ inbox = <<>>
    /\ Goto(i, "test")
    /\ UNCHANGED <<netVars, _running, starts, packet, _latest, histVars,
                   after_queue, uiVars, ghostVars>>

(* Fault: a JSONDecodeError ends the loop.                                   *)
AfterBroken == "done"

AfterDecodeError == "test"

(* recvfrom, decode, and the new _latest.                                    *)
Recv(i) ==
    /\ thread[i] = "recv"
    /\ sock = "open"
    /\ inbox # <<>>
    /\ inbox' = Tail(inbox)
    /\ IF Head(inbox) \in Broken
       THEN /\ Goto(i, AfterDecodeError)
            /\ UNCHANGED <<packet, _latest>>
       ELSE /\ Goto(i, "t")
            /\ packet' = [packet EXCEPT ![i] = Head(inbox)]
            /\ _latest' = Head(inbox)
    /\ UNCHANGED <<sock, arrived, _running, starts, histVars, after_queue,
                   uiVars, ghostVars>>

(* Fault: a list instead of a deque with maxlen.                             *)
PushUnbounded(q, n) == Append(q, n)

(* deque.append.                                                             *)
Push(q, n) == IF Len(q) < MAX_POINTS THEN Append(q, n) ELSE Append(Tail(q), n)

AppendTime(i) ==
    /\ thread[i] = "t"
    /\ t_history' = Push(t_history, packet[i])
    /\ Goto(i, "pitch")
    /\ UNCHANGED <<netVars, _running, starts, packet, _latest, pitch_history,
                   roll_history, after_queue, uiVars, ghostVars>>

AppendPitch(i) ==
    /\ thread[i] = "pitch"
    /\ pitch_history' = Push(pitch_history, packet[i])
    /\ Goto(i, "roll")
    /\ UNCHANGED <<netVars, _running, starts, packet, _latest, t_history,
                   roll_history, after_queue, uiVars, ghostVars>>

AppendRoll(i) ==
    /\ thread[i] = "roll"
    /\ roll_history' = Push(roll_history, packet[i])
    /\ Goto(i, "post")
    /\ UNCHANGED <<netVars, _running, starts, packet, _latest, t_history,
                   pitch_history, after_queue, uiVars, ghostVars>>

(* Fault: a refresh that is still to be run is taken to show this packet too. *)
PostCoalesced(i) ==
    /\ thread[i] = "post"
    /\ after_queue' = IF after_queue = <<>> THEN <<packet[i]>> ELSE after_queue
    /\ Goto(i, "test")
    /\ packet' = [packet EXCEPT ![i] = 0]
    /\ UNCHANGED <<netVars, _running, starts, _latest, histVars, uiVars,
                   ghostVars>>

(* root.after(0, self._refresh_live, d)                                      *)
PostRefresh(i) ==
    /\ thread[i] = "post"
    /\ after_queue' = Append(after_queue, packet[i])
    /\ Goto(i, "test")
    /\ packet' = [packet EXCEPT ![i] = 0]
    /\ UNCHANGED <<netVars, _running, starts, _latest, histVars, uiVars,
                   ghostVars>>

ThreadStep(i) ==
    /\ window = "open"
    /\ \/ LoopTest(i) \/ RecvFails(i) \/ Recv(i)
       \/ AppendTime(i) \/ AppendPitch(i) \/ AppendRoll(i) \/ PostRefresh(i)

-----------------------------------------------------------------------------
(* The Tk main thread, one callback at a time.                               *)

(* Fault: start() opens a new socket.                                        *)
SockAtStart == sock' = "open"

(* start() uses whatever socket there is.                                    *)
SockOfStart == sock' = sock

(* _toggle_connect while disconnected: start().  Its hello is lost when the  *)
(* socket is closed; _send_raw catches the OSError.                          *)
Connect ==
    /\ window = "open"
    /\ ~ connected
    /\ starts < MaxStarts
    /\ SockOfStart
    /\ _running' = TRUE
    /\ starts' = starts + 1
    /\ thread' = [thread EXCEPT ![starts + 1] = "test"]
    /\ connected' = TRUE
    /\ UNCHANGED <<inbox, arrived, packet, _latest, histVars, after_queue,
                   live, gain_vars, window, ghostVars>>

(* _toggle_connect while connected: stop().                                  *)
Disconnect ==
    /\ window = "open"
    /\ connected
    /\ _running' = FALSE
    /\ sock' = "closed"
    /\ inbox' = <<>>
    /\ connected' = FALSE
    /\ UNCHANGED <<arrived, starts, thread, packet, _latest, histVars,
                   after_queue, live, gain_vars, window, ghostVars>>

(* The main loop runs the oldest _refresh_live: labels, bars and sliders.    *)
RefreshLive ==
    /\ window = "open"
    /\ after_queue # <<>>
    /\ after_queue' = Tail(after_queue)
    /\ live' = Head(after_queue)
    /\ gain_vars' = Reported[live']
    /\ UNCHANGED <<netVars, recvVars, histVars, connected, window, ghostVars>>

EditSliders(g) ==
    /\ window = "open"
    /\ gain_vars' = g
    /\ wanted' = g
    /\ UNCHANGED <<netVars, recvVars, histVars, after_queue, connected, live,
                   window, sent>>

SendGains ==
    /\ window = "open"
    /\ connected
    /\ sent' = <<gain_vars, wanted>>
    /\ wanted' = NoGains
    /\ UNCHANGED <<netVars, recvVars, histVars, after_queue, uiVars>>

(* _on_close ends the program and its daemon threads.                        *)
OnClose ==
    /\ window = "open"
    /\ window' = "closed"
    /\ _running' = IF connected THEN FALSE ELSE _running
    /\ sock' = "closed"
    /\ inbox' = <<>>
    /\ UNCHANGED <<arrived, starts, thread, packet, _latest, histVars,
                   after_queue, connected, live, gain_vars, ghostVars>>

MainThread ==
    \/ Connect \/ Disconnect \/ RefreshLive \/ SendGains \/ OnClose
    \/ \E g \in GainValues : EditSliders(g)

Next == Arrive \/ MainThread \/ \E i \in Threads : ThreadStep(i)

Spec == Init /\ [][Next]_vars

-----------------------------------------------------------------------------
(* Every variable keeps its type and the histories their length.             *)
ConsoleTypeOK ==
    /\ sock \in {"open", "closed"}
    /\ inbox \in Seq(Packets)
    /\ arrived \in 0 .. MaxPackets
    /\ _running \in BOOLEAN
    /\ starts \in 0 .. MaxStarts
    /\ thread \in [Threads -> {"none", "test", "recv", "t", "pitch", "roll",
                               "post", "done"}]
    /\ packet \in [Threads -> 0 .. MaxPackets]
    /\ _latest \in 0 .. MaxPackets
    /\ \A q \in {t_history, pitch_history, roll_history} :
          q \in Seq(Packets) /\ Len(q) <= MAX_POINTS
    /\ after_queue \in Seq(Packets)
    /\ connected \in BOOLEAN
    /\ live \in 0 .. MaxPackets
    /\ gain_vars \in GainValues
    /\ window \in {"open", "closed"}
    /\ wanted \in GainValues \cup {NoGains}
    /\ sent \in (GainValues \cup {NoGains}) \X (GainValues \cup {NoGains})

(* Threads that are inside _on_packet.                                       *)
Busy == {i \in Threads : thread[i] \in {"t", "pitch", "roll", "post"}}

(* _on_packet fills three deques one after the other without a lock; when no *)
(* thread is inside it they hold the same packets, so the plot's lines go    *)
(* with its times, also after Connect was clicked again while the old        *)
(* receive thread had not ended.                                             *)
HistoriesAgree ==
    Busy = {} => t_history = pitch_history /\ t_history = roll_history

(* When no thread is inside _on_packet and the main loop has run every       *)
(* _refresh_live, the labels show the last packet that was decoded, and the  *)
(* plot ends with it: nothing that was received is lost on the way through   *)
(* the thread and the event queue, and labels and plot agree.                *)
DisplayCatchesUp ==
    Busy = {} /\ after_queue = <<>>
        => /\ live = _latest
           /\ live # 0 => /\ t_history # <<>>
                          /\ t_history[Len(t_history)] = live

(* The live values never go back to an older packet, whatever is clicked,    *)
(* although packets pass through two threads and an event queue.             *)
ShownInOrder == [][live' >= live]_vars

(* The receive threads and the main loop are scheduled.                      *)
ConsoleFairness ==
    /\ \A i \in Threads : WF_vars(ThreadStep(i))
    /\ WF_vars(RefreshLive)

FairSpec == Spec /\ ConsoleFairness

(* udp_client.py, "Calls registered callbacks with each packet": a packet    *)
(* that waits in the socket of a connected console is shown, or a later one  *)
(* is, unless the pilot disconnects or closes the window.                    *)
PacketsShown ==
    \A n \in Packets \ Broken :
        connected /\ (\E k \in 1 .. Len(inbox) : inbox[k] = n)
            ~> live >= n \/ ~ connected \/ window = "closed"

-----------------------------------------------------------------------------
(* What the repository says of itself and the code does not keep.            *)

(* MBL_QTC.py, "Adjust PID sliders and click "Send Gains" to hot-update the  *)
(* drone": what is sent is what the pilot adjusted.                          *)
SendsTheEdit == sent[2] # NoGains => sent[1] = sent[2]
=============================================================================
