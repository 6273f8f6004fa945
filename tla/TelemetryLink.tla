---------------------------- MODULE TelemetryLink ----------------------------
(* The UDP link of the firmware: wifi_server.c owns the access point and the *)
(* socket, telemetry_task alternates telemetry_send with                     *)
(* telemetry_receive_pid_updates, and the gains it writes with pid_set_gains *)
(* are read by pid_update on the other core.                                 *)
(*                                                                           *)
(* A datagram is what the parser can tell of its text: the axis it names,    *)
(* whether a space follows the colon of "axis" (Python's json.dumps writes   *)
(* one, serde_json does not), and the three gains, finite numbers in units   *)
(* of 0.00001.  A gain that is absent is -1, the marker json_get_float       *)
(* makes of it; the receiver only asks whether a gain is negative.           *)
(*                                                                           *)
(* Datagrams get lost: one that never reaches the mailbox, or that meets a   *)
(* full one, is no step; a report that is lost is TelSkip.                   *)
EXTENDS Integers, Sequences

CONSTANTS
    Consoles,       \* network addresses consoles may use
    NoConsole,      \* no address
    Packets,        \* datagrams they may send
    NoPacket,       \* no datagram
    NoReport,       \* what a console shows before its first report
    DefaultGains,   \* PID_<axis>_KP, _KI, _KD of config.h
    MailboxSize     \* CONFIG_LWIP_UDP_RECVMBOX_SIZE

Axes == {"pitch", "roll", "yaw"}
GainNames == {"kp", "ki", "kd"}
Gains == [GainNames -> Int]
Packet == [from : Consoles, axis : STRING, spaced : BOOLEAN, gains : Gains]

ASSUME LinkAssumption ==
    /\ Packets \subseteq Packet
    /\ NoConsole \notin Consoles
    /\ NoPacket \notin Packets
    /\ DefaultGains \in [Axes -> [GainNames -> Nat]]
    /\ MailboxSize \in Nat \ {0}

VARIABLES
    station,        \* the console associated with the access point
    s_sock,         \* 0, or -1 when wifi_server_init failed
    s_client_known, \* wifi_server.c's flag
    mailbox,        \* datagrams waiting in the socket
    s_client,       \* telemetry.c's client, NoConsole while !s_client_set
    gains,          \* kp, ki, kd of the three PID states
    tel_pc, tel_pos, tel_in,    \* telemetry_task
    fc_axis, fc_pos,    \* flight_ctrl_task: the loop at work, gains it read
    used,           \* the gains pid_update has read so far
    reports,        \* gains each console was last told, as printed
    handled         \* ghost: the last datagram that was dealt with

netVars == <<station, s_sock, s_client_known, mailbox>>
telVars == <<tel_pc, tel_pos, tel_in>>
fcVars == <<fc_axis, fc_pos, used>>
vars == <<netVars, s_client, gains, telVars, fcVars, reports, handled>>

(* pid_set_gains writes, and pid_update reads, in this order.                *)
GainOrder == <<"kp", "ki", "kd">>

(* The PID loops in the order flight_controller_update runs them.            *)
AxisOrder == <<"pitch", "roll", "yaw">>

(* Nothing read yet.                                                         *)
NoGains == [k \in GainNames |-> 0]

Init ==
    /\ station = NoConsole
    /\ s_sock \in {0, -1}
    /\ s_client_known = FALSE
    /\ mailbox = <<>>
    /\ s_client = NoConsole
    /\ gains = DefaultGains
    /\ tel_pc = "send"
    /\ tel_pos = 1
    /\ tel_in = NoPacket
    /\ fc_axis = 1
    /\ fc_pos = 0
    /\ used = NoGains
    /\ reports = [c \in Consoles |-> NoReport]
    /\ handled = NoPacket

-----------------------------------------------------------------------------
(* The access point takes one station at a time (WIFI_MAX_CONN).             *)

StaConnected(c) ==
    /\ station = NoConsole
    /\ station' = c
    /\ UNCHANGED <<s_sock, s_client_known, mailbox, s_client, gains, telVars,
                   fcVars, reports, handled>>

StaDisconnected ==
    /\ station # NoConsole
    /\ station' = NoConsole
    /\ s_client_known' = FALSE
    /\ UNCHANGED <<s_sock, mailbox, s_client, gains, telVars, fcVars, reports,
                   handled>>

(* A datagram arrives and finds room.                                        *)
Arrive(p) ==
    /\ s_sock >= 0
    /\ station = p.from
    /\ Len(mailbox) < MailboxSize
    /\ mailbox' = Append(mailbox, p)
    /\ UNCHANGED <<station, s_sock, s_client_known, s_client, gains, telVars,
                   fcVars, reports, handled>>

-----------------------------------------------------------------------------
(* telemetry_task.                                                           *)

(* "%.4f": a report gives the gains in units of 0.0001, rounded.             *)
Printed(g) == [a \in Axes |-> [k \in GainNames |-> (g[a][k] + 5) \div 10]]

(* Fault: a client that has been told something is not told again.           *)
TelSendOnce ==
    /\ tel_pc = "send"
    /\ s_sock >= 0
    /\ s_client # NoConsole
    /\ station = s_client
    /\ reports[s_client] = NoReport
    /\ reports' = [reports EXCEPT ![s_client] = Printed(gains)]
    /\ tel_pc' = "recv"
    /\ UNCHANGED <<netVars, s_client, gains, tel_pos, tel_in, fcVars, handled>>

(* telemetry_send reaches sendto, and the report reaches the client.         *)
TelSend ==
    /\ tel_pc = "send"
    /\ s_sock >= 0
    /\ s_client # NoConsole
    /\ station = s_client
    /\ reports' = [reports EXCEPT ![s_client] = Printed(gains)]
    /\ tel_pc' = "recv"
    /\ UNCHANGED <<netVars, s_client, gains, tel_pos, tel_in, fcVars, handled>>

(* telemetry_send returns early (no socket, no client, a mutex wait that     *)
(* expired), or its report is lost.                                          *)
TelSkip ==
    /\ tel_pc = "send"
    /\ tel_pc' = "recv"
    /\ UNCHANGED <<netVars, s_client, gains, tel_pos, tel_in, fcVars, reports,
                   handled>>

(* Fault: datagrams are left alone until there is a client.                  *)
RecvNothingNoClient ==
    /\ tel_pc = "recv"
    /\ s_sock < 0 \/ mailbox = <<>> \/ s_client = NoConsole
    /\ tel_pc' = "send"
    /\ UNCHANGED <<netVars, s_client, gains, tel_pos, tel_in, fcVars, reports,
                   handled>>

(* No socket, or recvfrom says EAGAIN.                                       *)
RecvNothing ==
    /\ tel_pc = "recv"
    /\ s_sock < 0 \/ mailbox = <<>>
    /\ tel_pc' = "send"
    /\ UNCHANGED <<netVars, s_client, gains, tel_pos, tel_in, fcVars, reports,
                   handled>>

(* The two extractors: json_get_str looks for "axis":" without a space.      *)
json_get_str(p) == IF p.spaced THEN "" ELSE p.axis
json_get_float(p, key) == p.gains[key]

(* Fault: a datagram without all three gains is taken.                       *)
AcceptsAny(p) == json_get_str(p) \in Axes

Accepts(p) ==
    /\ \A key \in GainNames : json_get_float(p, key) >= 0
    /\ json_get_str(p) \in Axes

Register(p) == s_client' = IF s_client = NoConsole THEN p.from ELSE s_client

(* recvfrom delivers the oldest datagram and its sender may become the       *)
(* client.  A malformed one or one with an unknown axis ends here.           *)
RecvReject ==
    /\ tel_pc = "recv"
    /\ s_sock >= 0
    /\ mailbox # <<>>
    /\ ~ Accepts(Head(mailbox))
    /\ mailbox' = Tail(mailbox)
    /\ Register(Head(mailbox))
    /\ handled' = Head(mailbox)
    /\ tel_pc' = "send"
    /\ UNCHANGED <<station, s_sock, s_client_known, gains, tel_pos, tel_in,
                   fcVars, reports>>

RecvAccept ==
    /\ tel_pc = "recv"
    /\ s_sock >= 0
    /\ mailbox # <<>>
    /\ Accepts(Head(mailbox))
    /\ mailbox' = Tail(mailbox)
    /\ Register(Head(mailbox))
    /\ tel_in' = Head(mailbox)
    /\ tel_pc' = "set"
    /\ UNCHANGED <<station, s_sock, s_client_known, gains, tel_pos, fcVars,
                   reports, handled>>

(* Fault: the derivative gain is never written.                              *)
LastGainShort == tel_pos >= Len(GainOrder) - 1

LastGain == tel_pos = Len(GainOrder)

(* Fault: the same gain is assigned three times.                             *)
SetGainRepeated ==
    /\ tel_pc = "set"
    /\ gains' = [gains EXCEPT ![json_get_str(tel_in)][GainOrder[tel_pos]] =
                                  tel_in.gains["kp"]]
    /\ tel_pc' = IF LastGain THEN "send" ELSE "set"
    /\ tel_pos' = IF LastGain THEN 1 ELSE tel_pos + 1
    /\ tel_in' = IF LastGain THEN NoPacket ELSE tel_in
    /\ handled' = IF LastGain THEN tel_in ELSE handled
    /\ UNCHANGED <<netVars, s_client, fcVars, reports>>

(* pid_set_gains, one assignment.                                            *)
SetGain ==
    /\ tel_pc = "set"
    /\ gains' = [gains EXCEPT ![json_get_str(tel_in)][GainOrder[tel_pos]] =
                                  tel_in.gains[GainOrder[tel_pos]]]
    /\ tel_pc' = IF LastGain THEN "send" ELSE "set"
    /\ tel_pos' = IF LastGain THEN 1 ELSE tel_pos + 1
    /\ tel_in' = IF LastGain THEN NoPacket ELSE tel_in
    /\ handled' = IF LastGain THEN tel_in ELSE handled
    /\ UNCHANGED <<netVars, s_client, fcVars, reports>>

-----------------------------------------------------------------------------
(* pid_update of the three loops in turn, as the reads of its gains.         *)

FcAxis == AxisOrder[fc_axis]
FcGain == GainOrder[fc_pos + 1]

FcRead ==
    /\ fc_pos < 3
    /\ used' = [used EXCEPT ![FcGain] = gains[FcAxis][FcGain]]
    /\ fc_pos' = fc_pos + 1
    /\ UNCHANGED <<netVars, s_client, gains, telVars, fc_axis, reports, handled>>

(* pid_update returns; the next loop, or the next iteration's first.         *)
FcDone ==
    /\ fc_pos = 3
    /\ fc_pos' = 0
    /\ fc_axis' = IF fc_axis = 3 THEN 1 ELSE fc_axis + 1
    /\ used' = NoGains
    /\ UNCHANGED <<netVars, s_client, gains, telVars, reports, handled>>

-----------------------------------------------------------------------------
Receive == RecvNothing \/ RecvReject \/ RecvAccept \/ SetGain

TelTask == TelSend \/ TelSkip \/ Receive

Network ==
    \/ \E c \in Consoles : StaConnected(c)
    \/ StaDisconnected
    \/ \E p \in Packets : Arrive(p)

Next == Network \/ TelTask \/ FcRead \/ FcDone

Spec == Init /\ [][Next]_vars

-----------------------------------------------------------------------------
(* Safety.                                                                   *)

(* Every variable keeps its type and the mailbox its limit; a gain is never  *)
(* negative, whatever datagrams arrive: the -1 that json_get_float makes of  *)
(* a missing key never gets into a PID state.                                *)
LinkTypeOK ==
    /\ station \in Consoles \cup {NoConsole}
    /\ s_sock \in {0, -1}
    /\ s_client_known \in BOOLEAN
    /\ mailbox \in Seq(Packets) /\ Len(mailbox) <= MailboxSize
    /\ s_client \in Consoles \cup {NoConsole}
    /\ gains \in [Axes -> [GainNames -> Nat]]
    /\ tel_pc \in {"send", "recv", "set"}
    /\ tel_pos \in 1 .. 3
    /\ tel_in \in Packets \cup {NoPacket}
    /\ fc_axis \in 1 .. 3
    /\ fc_pos \in 0 .. 3
    /\ used \in [GainNames -> Nat]
    /\ reports \in [Consoles -> [Axes -> [GainNames -> Nat]] \cup {NoReport}]
    /\ handled \in Packets \cup {NoPacket}

(* telemetry.h, "If a valid packet is received, hot-updates the named PID    *)
(* instance": a well-formed update in the documented format is in force when *)
(* the receiver is done with it, and stays so until the next datagram.       *)
UpdateInForce ==
    handled # NoPacket /\ Accepts(handled) /\ tel_pc # "set"
        => gains[handled.axis] = handled.gains

(* The sets of gains an axis can properly have.                              *)
WholeGains(axis) ==
    {DefaultGains[axis]}
      \cup {p.gains : p \in {q \in Packets : Accepts(q) /\ q.axis = axis}}

(* How far the race of pid_set_gains with pid_update goes: every single gain *)
(* a PID step has read is the default of its axis and of its name, or was    *)
(* sent for them.  A step may mix sets (see UsedGainsWhole) but never        *)
(* computes with a value nobody meant for that term of that loop.            *)
UsedGainsMeant ==
    \A i \in 1 .. fc_pos :
        \E g \in WholeGains(FcAxis) : used[GainOrder[i]] = g[GainOrder[i]]

(* telemetry_send and pid_set_gains run in one task, so the report never     *)
(* catches an update half way: towards the consoles the link behaves as an   *)
(* atomic store of gains.  While pid_set_gains is at work the store already  *)
(* has the new gains.                                                        *)
Store == INSTANCE GainStore WITH
    Updates <- {[axis |-> json_get_str(p), gains |-> p.gains] :
                   p \in {q \in Packets : Accepts(q)}},
    FirstGains <- DefaultGains,
    Viewers <- Consoles,
    Nothing <- NoReport,
    Render <- Printed,
    store <- IF tel_pc = "set"
             THEN [gains EXCEPT ![json_get_str(tel_in)] = tel_in.gains]
             ELSE gains,
    shown <- reports

GainStoreSpec == Store!SSpec

-----------------------------------------------------------------------------
(* Liveness: telemetry_task keeps going round, and reports are not lost      *)
(* forever while the client is there.                                        *)
LinkFairness ==
    /\ WF_vars(TelTask)
    /\ SF_vars(TelSend)

FairSpec == Spec /\ LinkFairness

(* Every datagram that reached the socket is dealt with.                     *)
DatagramsHandled ==
    \A p \in Packets :
        (\E i \in 1 .. Len(mailbox) : mailbox[i] = p) ~> handled = p

(* A console that is the client and stays associated is eventually told the  *)
(* gains in force.                                                           *)
ClientInformed ==
    \A c \in Consoles :
        s_client = c /\ station = c ~> reports[c] = Printed(gains) \/ station # c

-----------------------------------------------------------------------------
(* What the repository says of itself and the code does not keep.            *)

(* pid.h, "the flight controller task does this via its own 100 Hz           *)
(* single-task access": a PID step computes with one set of gains.           *)
UsedGainsWhole ==
    fc_pos = 3 => used \in WholeGains(FcAxis)

(* MBL_QTC.py, "click Send Gains to hot-update the drone": an update with    *)
(* three gains for a known axis is applied, however its JSON is spaced.      *)
ConsoleUpdatesApplied ==
    (/\ handled # NoPacket
     /\ tel_pc # "set"
     /\ handled.axis \in Axes
     /\ \A key \in GainNames : handled.gains[key] >= 0)
        => gains[handled.axis] = handled.gains
=============================================================================
