------------------------ MODULE TelemetryLink_proofs ------------------------
(* Type correctness of the link, the update that is in force, and the        *)
(* refinement of GainStore, for every set of consoles and datagrams.         *)
EXTENDS TelemetryLink, TLAPS

USE DEF netVars, telVars, fcVars

LEMMA OrderFacts ==
    /\ Len(GainOrder) = 3
    /\ GainOrder[1] = "kp" /\ GainOrder[2] = "ki" /\ GainOrder[3] = "kd"
    /\ \A i \in 1 .. 3 : GainOrder[i] \in GainNames
    /\ \A i \in 1 .. 3 : AxisOrder[i] \in Axes
  BY DEF GainOrder, AxisOrder, GainNames, Axes

(* The datagram at work names an axis and has three gains.                   *)
InSet ==
    IF tel_pc = "set"
    THEN /\ tel_in \in Packets
         /\ Accepts(tel_in)
    ELSE tel_pos = 1

LEMMA AcceptedUpdate ==
    ASSUME NEW p \in Packets, Accepts(p)
    PROVE  /\ json_get_str(p) \in Axes
           /\ json_get_str(p) = p.axis
           /\ p.gains \in [GainNames -> Nat]
  <1>1. p.gains \in [GainNames -> Int]
    BY LinkAssumption DEF Packet, Gains
  <1>2. \A key \in GainNames : p.gains[key] >= 0
    BY DEF Accepts, json_get_float
  <1>3. json_get_str(p) \in Axes
    BY DEF Accepts
  <1>4. json_get_str(p) = p.axis
    BY <1>3 DEF json_get_str, Axes
  <1>5. QED
    BY <1>1, <1>2, <1>3, <1>4

LEMMA TypeInit == Init => LinkTypeOK /\ InSet
  <1> SUFFICES ASSUME Init PROVE LinkTypeOK /\ InSet
    OBVIOUS
  <1>1. mailbox \in Seq(Packets) /\ Len(mailbox) <= MailboxSize
    BY LinkAssumption DEF Init
  <1>2. /\ gains \in [Axes -> [GainNames -> Nat]]
        /\ used \in [GainNames -> Nat]
    BY LinkAssumption DEF Init, NoGains
  <1>3. reports \in [Consoles -> [Axes -> [GainNames -> Nat]] \cup {NoReport}]
    BY DEF Init
  <1>4. s_client_known \in BOOLEAN
    BY Zenon DEF Init
  <1>5. tel_pos \in 1 .. 3 /\ fc_axis \in 1 .. 3 /\ fc_pos \in 0 .. 3 /\ s_sock \in {0, -1}
    BY DEF Init
  <1>6. QED
    BY <1>1, <1>2, <1>3, <1>4, <1>5, Zenon DEF Init, LinkTypeOK, InSet

(* A report of proper gains shows proper gains.                              *)
LEMMA PrintedType ==
    LinkTypeOK => Printed(gains) \in [Axes -> [GainNames -> Nat]]
  <1> SUFFICES ASSUME LinkTypeOK, NEW a \in Axes, NEW k \in GainNames
               PROVE  (gains[a][k] + 5) \div 10 \in Nat
    BY DEF Printed
  <1>1. gains[a][k] \in Nat
    BY DEF LinkTypeOK
  <1>2. QED
    BY <1>1

LEMMA HeadTail ==
    ASSUME LinkTypeOK, mailbox # <<>>
    PROVE  /\ Head(mailbox) \in Packets
           /\ Tail(mailbox) \in Seq(Packets)
           /\ Len(Tail(mailbox)) <= MailboxSize
           /\ Head(mailbox).from \in Consoles
  <1>1. /\ Head(mailbox) \in Packets
        /\ Tail(mailbox) \in Seq(Packets)
        /\ Len(Tail(mailbox)) <= MailboxSize
    BY LinkAssumption DEF LinkTypeOK
  <1>2. QED
    BY <1>1, LinkAssumption DEF Packet

LEMMA TypeStep == LinkTypeOK /\ InSet /\ [Next]_vars => LinkTypeOK' /\ InSet'
  <1> SUFFICES ASSUME LinkTypeOK, InSet, [Next]_vars
               PROVE  LinkTypeOK' /\ InSet'
    OBVIOUS
  <1>1. ASSUME NEW c \in Consoles, StaConnected(c) PROVE LinkTypeOK' /\ InSet'
    BY <1>1 DEF LinkTypeOK, InSet, StaConnected
  <1>2. CASE StaDisconnected
    BY <1>2 DEF LinkTypeOK, InSet, StaDisconnected
  <1>3. ASSUME NEW p \in Packets, Arrive(p) PROVE LinkTypeOK' /\ InSet'
    <2>1. mailbox' \in Seq(Packets) /\ Len(mailbox') <= MailboxSize
      BY <1>3, LinkAssumption DEF LinkTypeOK, Arrive
    <2>2. QED
      BY <1>3, <2>1 DEF LinkTypeOK, InSet, Arrive
  <1>4. CASE TelSend
    <2>1. s_client \in Consoles
      BY <1>4 DEF LinkTypeOK, TelSend
    <2>2. reports' \in [Consoles -> [Axes -> [GainNames -> Nat]] \cup {NoReport}]
      BY <1>4, <2>1, PrintedType DEF LinkTypeOK, TelSend
    <2>3. QED
      BY <1>4, <2>2 DEF LinkTypeOK, InSet, TelSend
  <1>5. CASE TelSkip \/ RecvNothing
    BY <1>5 DEF LinkTypeOK, InSet, TelSkip, RecvNothing
  <1>6. CASE RecvReject
    <2>1. mailbox # <<>>
      BY <1>6 DEF RecvReject
    <2>2. s_client' \in Consoles \cup {NoConsole}
      BY <1>6, <2>1, HeadTail DEF LinkTypeOK, RecvReject, Register
    <2>3. QED
      BY <1>6, <2>1, <2>2, HeadTail DEF LinkTypeOK, InSet, RecvReject
  <1>7. CASE RecvAccept
    <2>1. mailbox # <<>>
      BY <1>7 DEF RecvAccept
    <2>2. s_client' \in Consoles \cup {NoConsole}
      BY <1>7, <2>1, HeadTail DEF LinkTypeOK, RecvAccept, Register
    <2>3. LinkTypeOK'
      BY <1>7, <2>1, <2>2, HeadTail DEF LinkTypeOK, RecvAccept
    <2>4. tel_pc' = "set" /\ tel_in' = Head(mailbox) /\ Accepts(Head(mailbox))
      BY <1>7 DEF RecvAccept
    <2>5. InSet'
      BY <2>1, <2>4, HeadTail DEF InSet, Accepts, json_get_str, json_get_float
    <2>6. QED
      BY <2>3, <2>5
  <1>8. CASE SetGain
    <2>1. tel_pc = "set" /\ tel_in \in Packets /\ Accepts(tel_in)
      BY <1>8 DEF SetGain, InSet
    <2>2. /\ json_get_str(tel_in) \in Axes
          /\ tel_in.gains \in [GainNames -> Nat]
      BY <2>1, AcceptedUpdate
    <2>3. tel_pos \in 1 .. 3 /\ GainOrder[tel_pos] \in GainNames
      BY OrderFacts DEF LinkTypeOK
    <2>4. gains' \in [Axes -> [GainNames -> Nat]]
      BY <1>8, <2>2, <2>3 DEF LinkTypeOK, SetGain
    <2>5. tel_pos' \in 1 .. 3
      BY <1>8, <2>3, OrderFacts DEF SetGain, LastGain
    <2>6. LinkTypeOK'
      BY <1>8, <2>1, <2>4, <2>5 DEF LinkTypeOK, SetGain
    <2>7. InSet'
      BY <1>8, <2>1 DEF InSet, SetGain, Accepts, json_get_str, json_get_float
    <2>8. QED
      BY <2>6, <2>7
  <1>9. CASE FcRead
    <2>1. fc_pos \in 0 .. 2 /\ fc_axis \in 1 .. 3
      BY <1>9 DEF LinkTypeOK, FcRead
    <2>2. FcAxis \in Axes /\ FcGain \in GainNames
      BY <2>1, OrderFacts DEF FcAxis, FcGain
    <2>3. used' \in [GainNames -> Nat]
      BY <1>9, <2>2 DEF LinkTypeOK, FcRead
    <2>4. QED
      BY <1>9, <2>1, <2>3 DEF LinkTypeOK, InSet, FcRead
  <1>10. CASE FcDone
    <2>1. used' \in [GainNames -> Nat]
      BY <1>10 DEF FcDone, NoGains
    <2>2. QED
      BY <1>10, <2>1 DEF LinkTypeOK, InSet, FcDone
  <1>11. CASE UNCHANGED vars
    BY <1>11 DEF LinkTypeOK, InSet, vars, Accepts, json_get_str,
                 json_get_float
  <1>12. QED
    BY <1>1, <1>2, <1>3, <1>4, <1>5, <1>6, <1>7, <1>8, <1>9, <1>10, <1>11
    DEF Next, Network, TelTask, Receive

(* The link keeps its types: no datagram, whatever it lacks, puts a negative *)
(* gain into a PID state, and the mailbox keeps its limit.                   *)
THEOREM LinkTypes == Spec => []LinkTypeOK
  BY TypeInit, TypeStep, PTL DEF Spec

-----------------------------------------------------------------------------
(* UpdateInForce only speaks of updates that are over.  While one is under   *)
(* way, the gains written so far are those of the datagram.                  *)
WrittenSoFar ==
    tel_pc = "set" =>
        \A i \in 1 .. 3 :
            i < tel_pos => gains[tel_in.axis][GainOrder[i]] =
                               tel_in.gains[GainOrder[i]]

UpdateInv == WrittenSoFar /\ UpdateInForce

(* One assignment of pid_set_gains, and what the last one leaves.            *)
LEMMA Assignment ==
    ASSUME LinkTypeOK, InSet, WrittenSoFar, SetGain
    PROVE  /\ tel_in \in Packets
           /\ tel_in.axis \in Axes
           /\ json_get_str(tel_in) = tel_in.axis
           /\ tel_in.gains \in [GainNames -> Nat]
           /\ gains' \in [Axes -> [GainNames -> Nat]]
           /\ \A a \in Axes \ {tel_in.axis} : gains'[a] = gains[a]
           /\ \A i \in 1 .. 3 :
                 i <= tel_pos => gains'[tel_in.axis][GainOrder[i]] =
                                     tel_in.gains[GainOrder[i]]
           /\ LastGain => gains'[tel_in.axis] = tel_in.gains
  <1>1. tel_pc = "set" /\ tel_in \in Packets /\ Accepts(tel_in)
    BY DEF SetGain, InSet
  <1>2. /\ json_get_str(tel_in) = tel_in.axis
        /\ tel_in.axis \in Axes
        /\ tel_in.gains \in [GainNames -> Nat]
    BY <1>1, AcceptedUpdate
  <1>3. tel_pos \in 1 .. 3 /\ GainOrder[tel_pos] \in GainNames
    BY OrderFacts DEF LinkTypeOK
  <1>4. gains' = [gains EXCEPT ![tel_in.axis][GainOrder[tel_pos]] =
                                   tel_in.gains[GainOrder[tel_pos]]]
    BY <1>2 DEF SetGain
  <1>5. /\ gains' \in [Axes -> [GainNames -> Nat]]
        /\ \A a \in Axes \ {tel_in.axis} : gains'[a] = gains[a]
    BY <1>2, <1>3, <1>4 DEF LinkTypeOK
  <1>6. gains'[tel_in.axis] =
            [gains[tel_in.axis] EXCEPT ![GainOrder[tel_pos]] =
                                           tel_in.gains[GainOrder[tel_pos]]]
    BY <1>2, <1>4 DEF LinkTypeOK
  <1>7. ASSUME NEW i \in 1 .. 3, i <= tel_pos
        PROVE  gains'[tel_in.axis][GainOrder[i]] = tel_in.gains[GainOrder[i]]
    <2>1. gains[tel_in.axis] \in [GainNames -> Nat] /\ GainOrder[i] \in GainNames
      BY <1>2, OrderFacts DEF LinkTypeOK
    <2>2. CASE i = tel_pos
      BY <1>6, <2>1, <2>2
    <2>3. CASE i < tel_pos
      <3>1. gains[tel_in.axis][GainOrder[i]] = tel_in.gains[GainOrder[i]]
        BY <1>1, <2>3 DEF WrittenSoFar
      <3>2. QED
        BY <1>6, <2>1, <3>1
    <2>4. QED
      BY <1>3, <1>7, <2>2, <2>3
  <1>8. ASSUME LastGain PROVE gains'[tel_in.axis] = tel_in.gains
    <2>1. tel_pos = 3
      BY <1>8, OrderFacts DEF LastGain
    <2>2. \A k \in GainNames : gains'[tel_in.axis][k] = tel_in.gains[k]
      BY <1>7, <2>1, OrderFacts DEF GainNames
    <2>3. gains'[tel_in.axis] \in [GainNames -> Nat]
      BY <1>2, <1>5
    <2>4. QED
      BY <1>2, <2>2, <2>3
  <1>9. QED
    BY <1>1, <1>2, <1>5, <1>7, <1>8

LEMMA UpdateStep ==
    LinkTypeOK /\ InSet /\ UpdateInv /\ [Next]_vars => UpdateInv'
  <1> SUFFICES ASSUME LinkTypeOK, InSet, UpdateInv, [Next]_vars
               PROVE  UpdateInv'
    OBVIOUS
  <1> USE DEF UpdateInv
  <1>1. CASE UNCHANGED <<gains, tel_pc, tel_pos, tel_in, handled>>
    BY <1>1 DEF WrittenSoFar, UpdateInForce, Accepts, json_get_str,
                json_get_float
  <1>2. CASE TelSend \/ TelSkip \/ RecvNothing
    <2>1. UNCHANGED <<gains, handled>> /\ tel_pc # "set" /\ tel_pc' # "set"
      BY <1>2 DEF TelSend, TelSkip, RecvNothing
    <2>2. QED
      BY <2>1 DEF WrittenSoFar, UpdateInForce, Accepts, json_get_str,
                  json_get_float
  <1>3. CASE RecvReject
    <2>1. handled' = Head(mailbox) /\ ~ Accepts(Head(mailbox)) /\ tel_pc' = "send"
      BY <1>3 DEF RecvReject
    <2>2. QED
      BY <2>1 DEF WrittenSoFar, UpdateInForce, Accepts, json_get_str,
                  json_get_float
  <1>4. CASE RecvAccept
    <2>1. tel_pos' = 1 /\ tel_pc' = "set"
      BY <1>4 DEF RecvAccept, InSet
    <2>2. QED
      BY <2>1 DEF WrittenSoFar, UpdateInForce
  <1>5. CASE SetGain
    <2>1. CASE LastGain
      <3>1. tel_pc' = "send" /\ handled' = tel_in
        BY <1>5, <2>1 DEF SetGain
      <3>2. gains'[tel_in.axis] = tel_in.gains
        BY <1>5, <2>1, Assignment
      <3>3. QED
        BY <3>1, <3>2 DEF WrittenSoFar, UpdateInForce
    <2>2. CASE ~ LastGain
      <3>1. tel_pc' = "set" /\ tel_in' = tel_in /\ tel_pos' = tel_pos + 1
        BY <1>5, <2>2 DEF SetGain
      <3>2. tel_pos \in 1 .. 3
        BY DEF LinkTypeOK
      <3>3. \A i \in 1 .. 3 :
               i <= tel_pos => gains'[tel_in.axis][GainOrder[i]] =
                                   tel_in.gains[GainOrder[i]]
        BY <1>5, Assignment
      <3>4. WrittenSoFar'
        BY <3>1, <3>2, <3>3 DEF WrittenSoFar, GainOrder
      <3>5. QED
        BY <3>1, <3>4 DEF UpdateInForce
    <2>3. QED
      BY <2>1, <2>2
  <1>6. QED
    BY <1>1, <1>2, <1>3, <1>4, <1>5
    DEF Next, Network, TelTask, Receive, StaConnected, StaDisconnected, Arrive,
        FcRead, FcDone, vars

(* A well-formed update is in force once the receiver is done with it, and   *)
(* stays so until the next datagram is dealt with.                           *)
THEOREM UpdatesTakeForce == Spec => []UpdateInForce
  <1>1. Init => UpdateInv
    BY DEF Init, UpdateInv, WrittenSoFar, UpdateInForce
  <1>2. QED
    BY <1>1, TypeInit, TypeStep, UpdateStep, PTL DEF Spec, UpdateInv
-----------------------------------------------------------------------------
(* The link implements GainStore.  An update takes place when its datagram   *)
(* is accepted, a report when it is sent; every other step is a stutter.     *)

StoreBar == IF tel_pc = "set"
            THEN [gains EXCEPT ![json_get_str(tel_in)] = tel_in.gains]
            ELSE gains

StoreUpdates == {[axis |-> json_get_str(p), gains |-> p.gains] :
                    p \in {q \in Packets : Accepts(q)}}

LEMMA AcceptUpdates ==
    ASSUME LinkTypeOK, InSet, RecvAccept
    PROVE  /\ reports' = reports
           /\ \E u \in StoreUpdates : StoreBar' = [StoreBar EXCEPT ![u.axis] = u.gains]
  <1> DEFINE p == Head(mailbox)
             u == [axis |-> json_get_str(p), gains |-> p.gains]
  <1>1. p \in Packets /\ Accepts(p)
    BY HeadTail DEF RecvAccept
  <1>2. u \in StoreUpdates
    BY <1>1 DEF StoreUpdates
  <1>3. tel_pc = "recv" /\ tel_pc' = "set" /\ tel_in' = p /\ gains' = gains
    BY DEF RecvAccept
  <1>4. StoreBar = gains
    BY <1>3 DEF StoreBar
  <1>5. StoreBar' = [gains EXCEPT ![u.axis] = u.gains]
    BY <1>3 DEF StoreBar, json_get_str
  <1>6. reports' = reports
    BY DEF RecvAccept
  <1>7. QED
    BY <1>2, <1>4, <1>5, <1>6

LEMMA AssignmentStutters ==
    ASSUME LinkTypeOK, InSet, WrittenSoFar, SetGain
    PROVE  StoreBar' = StoreBar /\ reports' = reports
  <1> DEFINE a == tel_in.axis
             whole == [gains EXCEPT ![a] = tel_in.gains]
  <1>1. /\ a \in Axes
        /\ tel_in.gains \in [GainNames -> Nat]
        /\ gains' \in [Axes -> [GainNames -> Nat]]
        /\ \A b \in Axes \ {a} : gains'[b] = gains[b]
        /\ LastGain => gains'[a] = tel_in.gains
        /\ json_get_str(tel_in) = a
    BY Assignment
  <1>2. gains \in [Axes -> [GainNames -> Nat]]
    BY DEF LinkTypeOK
  <1>3. StoreBar = whole
    BY <1>1 DEF StoreBar, SetGain
  <1>4. [gains' EXCEPT ![a] = tel_in.gains] = whole
    BY <1>1, <1>2
  <1>5. CASE LastGain
    <2>1. StoreBar' = gains'
      BY <1>5 DEF StoreBar, SetGain
    <2>2. gains' = whole
      BY <1>1, <1>2, <1>5
    <2>3. QED
      BY <1>3, <2>1, <2>2 DEF SetGain
  <1>6. CASE ~ LastGain
    <2>1. tel_pc' = "set" /\ tel_in' = tel_in
      BY <1>6 DEF SetGain
    <2>2. json_get_str(tel_in)' = a
      BY <1>1, <2>1 DEF json_get_str
    <2>3. StoreBar' = [gains' EXCEPT ![a] = tel_in.gains]
      BY <2>1, <2>2 DEF StoreBar
    <2>4. QED
      BY <1>3, <1>4, <2>3 DEF SetGain
  <1>7. QED
    BY <1>5, <1>6

LEMMA StoreStep ==
    LinkTypeOK /\ InSet /\ UpdateInv /\ [Next]_vars
        => [Store!SNext]_<<StoreBar, reports>>
  <1> SUFFICES ASSUME LinkTypeOK, InSet, UpdateInv, [Next]_vars
               PROVE  [Store!SNext]_<<StoreBar, reports>>
    OBVIOUS
  <1>1. CASE UNCHANGED <<gains, tel_pc, tel_in, reports>>
    BY <1>1 DEF StoreBar, json_get_str
  <1>2. CASE TelSend
    <2>1. s_client \in Consoles
      BY <1>2 DEF TelSend, LinkTypeOK
    <2>2. StoreBar = gains /\ StoreBar' = gains
      BY <1>2 DEF TelSend, StoreBar
    <2>3. reports' = [reports EXCEPT ![s_client] = Printed(StoreBar)]
      BY <1>2, <2>2 DEF TelSend
    <2>4. Store!Show(s_client)
      BY <2>2, <2>3 DEF Store!Show, StoreBar
    <2>5. QED
      BY <2>1, <2>4 DEF Store!SNext
  <1>3. CASE TelSkip \/ RecvNothing \/ RecvReject
    <2>1. UNCHANGED <<gains, reports>> /\ tel_pc # "set" /\ tel_pc' # "set"
      BY <1>3 DEF TelSkip, RecvNothing, RecvReject
    <2>2. QED
      BY <2>1 DEF StoreBar
  <1>4. CASE RecvAccept
    <2>1. PICK u \in StoreUpdates : StoreBar' = [StoreBar EXCEPT ![u.axis] = u.gains]
      BY <1>4, AcceptUpdates
    <2>2. Store!Update(u)
      BY <1>4, <2>1, AcceptUpdates DEF Store!Update, StoreBar
    <2>3. QED
      BY <2>1, <2>2 DEF Store!SNext, StoreUpdates
  <1>5. CASE SetGain
    BY <1>5, AssignmentStutters DEF UpdateInv
  <1>6. QED
    BY <1>1, <1>2, <1>3, <1>4, <1>5
    DEF Next, Network, TelTask, Receive, StaConnected, StaDisconnected, Arrive,
        FcRead, FcDone, vars

(* Towards the consoles the link is an atomic store of gains, although       *)
(* pid_set_gains writes them one by one.                                     *)
THEOREM LinkImplementsStore == Spec => GainStoreSpec
  <1>1. Init => Store!SInit
    BY DEF Init, Store!SInit
  <1>2. Init => UpdateInv
    BY DEF Init, UpdateInv, WrittenSoFar, UpdateInForce
  <1>3. LinkTypeOK /\ InSet /\ UpdateInv /\ [Next]_vars
            => [Store!SNext]_(Store!svars)
    BY StoreStep DEF Store!svars, StoreBar
  <1>4. QED
    BY <1>1, <1>2, <1>3, TypeInit, TypeStep, UpdateStep, PTL
    DEF Spec, GainStoreSpec, Store!SSpec

-----------------------------------------------------------------------------
(* The race of pid_set_gains with pid_update.  Every gain in a PID state, in *)
(* the middle of an update too, belongs to one of the sets its axis can      *)
(* properly have; so does every gain already read.                           *)

Meant(axis, k, v) == \E g \in WholeGains(axis) : v = g[k]

GainsMeant == \A a \in Axes, k \in GainNames : Meant(a, k, gains[a][k])

LEMMA UpdateIsMeant ==
    ASSUME NEW p \in Packets, Accepts(p), NEW k \in GainNames
    PROVE  Meant(p.axis, k, p.gains[k])
  <1>1. p.gains \in WholeGains(p.axis)
    BY DEF WholeGains
  <1>2. QED
    BY <1>1 DEF Meant

LEMMA GainsStep ==
    LinkTypeOK /\ InSet /\ GainsMeant /\ [Next]_vars => GainsMeant'
  <1> SUFFICES ASSUME LinkTypeOK, InSet, GainsMeant, [Next]_vars,
                      NEW a \in Axes, NEW k \in GainNames
               PROVE  Meant(a, k, gains'[a][k])
    BY DEF GainsMeant, Meant, WholeGains, Accepts, json_get_str, json_get_float
  <1>1. CASE gains' = gains
    BY <1>1 DEF GainsMeant
  <1>2. CASE SetGain
    <2>1. tel_in \in Packets /\ Accepts(tel_in)
      BY <1>2 DEF SetGain, InSet
    <2>2. /\ json_get_str(tel_in) = tel_in.axis /\ tel_in.axis \in Axes
      BY <2>1, AcceptedUpdate
    <2> DEFINE key == GainOrder[tel_pos]
    <2>3. key \in GainNames /\ gains \in [Axes -> [GainNames -> Nat]]
      BY OrderFacts DEF LinkTypeOK
    <2>4. gains' = [gains EXCEPT ![tel_in.axis][key] = tel_in.gains[key]]
      BY <1>2, <2>2 DEF SetGain
    <2> HIDE DEF key
    <2>5. CASE a = tel_in.axis /\ k = key
      <3>1. gains'[a][k] = tel_in.gains[k]
        BY <2>2, <2>3, <2>4, <2>5
      <3>2. QED
        BY <2>1, <2>5, <3>1, UpdateIsMeant
    <2>6. CASE ~ (a = tel_in.axis /\ k = key)
      <3>1. gains'[a][k] = gains[a][k]
        BY <2>2, <2>3, <2>4, <2>6
      <3>2. QED
        BY <3>1 DEF GainsMeant
    <2>7. QED
      BY <2>5, <2>6
  <1>3. QED
    BY <1>1, <1>2
    DEF Next, Network, TelTask, Receive, StaConnected, StaDisconnected, Arrive,
        TelSend, TelSkip, RecvNothing, RecvReject, RecvAccept, FcRead, FcDone,
        vars

LEMMA UsedStep ==
    LinkTypeOK /\ GainsMeant /\ UsedGainsMeant /\ [Next]_vars => UsedGainsMeant'
  <1> SUFFICES ASSUME LinkTypeOK, GainsMeant, UsedGainsMeant, [Next]_vars
               PROVE  UsedGainsMeant'
    OBVIOUS
  <1>0. fc_pos \in 0 .. 3 /\ fc_axis \in 1 .. 3 /\ used \in [GainNames -> Nat]
    BY DEF LinkTypeOK
  <1>1. CASE UNCHANGED <<fc_axis, fc_pos, used>>
    BY <1>1 DEF UsedGainsMeant, FcAxis, WholeGains, Accepts, json_get_str,
                json_get_float
  <1>2. CASE FcRead
    <2> SUFFICES ASSUME NEW i \in 1 .. fc_pos'
                 PROVE  Meant(FcAxis, GainOrder[i], used'[GainOrder[i]])
      BY <1>2 DEF UsedGainsMeant, Meant, FcRead, FcAxis, WholeGains, Accepts,
                  json_get_str, json_get_float
    <2>1. /\ fc_pos < 3 /\ fc_pos' = fc_pos + 1
          /\ used' = [used EXCEPT ![GainOrder[fc_pos + 1]] =
                                      gains[FcAxis][GainOrder[fc_pos + 1]]]
      BY <1>2 DEF FcRead, FcGain
    <2>2. i \in 1 .. 3 /\ fc_pos + 1 \in 1 .. 3 /\ FcAxis \in Axes
          /\ (i = fc_pos + 1 \/ i \in 1 .. fc_pos)
      BY <1>0, <2>1, OrderFacts DEF FcAxis
    <2>3. GainOrder[i] \in GainNames /\ GainOrder[fc_pos + 1] \in GainNames
      BY <2>2, OrderFacts
    <2>4. CASE i = fc_pos + 1
      <3>1. used'[GainOrder[i]] = gains[FcAxis][GainOrder[i]]
        BY <1>0, <2>1, <2>3, <2>4
      <3>2. QED
        BY <2>2, <2>3, <3>1 DEF GainsMeant
    <2>5. CASE i \in 1 .. fc_pos
      <3>1. GainOrder[i] # GainOrder[fc_pos + 1]
        <4>1. i # fc_pos + 1
          BY <1>0, <2>5
        <4>2. QED
          BY <2>2, <4>1, OrderFacts
      <3>2. used'[GainOrder[i]] = used[GainOrder[i]]
        BY <1>0, <2>1, <2>3, <3>1
      <3>3. Meant(FcAxis, GainOrder[i], used[GainOrder[i]])
        BY <2>5 DEF UsedGainsMeant, Meant
      <3>4. QED
        BY <3>2, <3>3
    <2>6. QED
      BY <2>2, <2>4, <2>5
  <1>3. CASE FcDone
    <2>1. fc_pos' = 0
      BY <1>3 DEF FcDone
    <2>2. QED
      BY <2>1 DEF UsedGainsMeant
  <1>4. QED
    BY <1>1, <1>2, <1>3
    DEF Next, Network, TelTask, Receive, StaConnected, StaDisconnected, Arrive,
        TelSend, TelSkip, RecvNothing, RecvReject, RecvAccept, SetGain, vars

(* Whatever the interleaving of the two cores, a PID step computes with      *)
(* gains that were each meant for that term of that loop.                    *)
THEOREM RaceInventsNoGain == Spec => []UsedGainsMeant
  <1>1. Init => GainsMeant
    <2>1. \A a \in Axes : DefaultGains[a] \in WholeGains(a)
      BY DEF WholeGains
    <2>2. QED
      BY <2>1 DEF Init, GainsMeant, Meant
  <1>2. Init => UsedGainsMeant
    BY DEF Init, UsedGainsMeant
  <1>3. QED
    BY <1>1, <1>2, TypeInit, TypeStep, GainsStep, UsedStep, PTL DEF Spec
=============================================================================
