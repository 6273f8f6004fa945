------------------------- MODULE PythonConsole_proofs -------------------------
(* Proofs about the Python console: packets cross the receive thread and the *)
(* event queue in order because the socket is never opened again.            *)
EXTENDS PythonConsole, TLAPS

BusyLabels == {"t", "pitch", "roll", "post"}

(* The elements of q ascend and lie between lo and hi.                       *)
Ascends(q, lo, hi) ==
    /\ \A j, k \in 1 .. Len(q) : j < k => q[j] <= q[k]
    /\ \A k \in 1 .. Len(q) : lo <= q[k] /\ q[k] <= hi

(* Appending the upper bound.                                                *)
LEMMA AscendsAppend ==
    ASSUME NEW q \in Seq(Packets), NEW lo \in Nat, NEW hi \in Nat,
           Ascends(q, lo, hi), NEW n \in Packets, hi <= n, lo <= n
    PROVE  Append(q, n) \in Seq(Packets) /\ Ascends(Append(q, n), lo, n)
<1> USE ConsoleAssumption DEF Packets
<1>1. /\ Append(q, n) \in Seq(Packets)
      /\ Len(Append(q, n)) = Len(q) + 1
      /\ Len(q) \in Nat
      /\ \A k \in 1 .. Len(q) : Append(q, n)[k] = q[k]
      /\ Append(q, n)[Len(q) + 1] = n
      /\ \A k \in 1 .. Len(q) : q[k] \in 1 .. MaxPackets
  OBVIOUS
<1>2. \A k \in 1 .. Len(q) + 1 : lo <= Append(q, n)[k] /\ Append(q, n)[k] <= n
  BY <1>1 DEF Ascends
<1>3. ASSUME NEW j \in 1 .. Len(q) + 1, NEW k \in 1 .. Len(q) + 1, j < k
      PROVE  Append(q, n)[j] <= Append(q, n)[k]
  <2>1. CASE k = Len(q) + 1
    BY <1>1, <1>2, <2>1
  <2>2. CASE k # Len(q) + 1
    <3>1. j \in 1 .. Len(q) /\ k \in 1 .. Len(q)
      BY <1>1, <1>3, <2>2
    <3>2. q[j] <= q[k] /\ Append(q, n)[j] = q[j] /\ Append(q, n)[k] = q[k]
      BY <1>1, <1>3, <3>1 DEF Ascends
    <3> QED BY <3>2
  <2> QED BY <2>1, <2>2
<1> QED BY <1>1, <1>2, <1>3 DEF Ascends

(* Taking the head, which becomes the new lower bound.                       *)
LEMMA AscendsTail ==
    ASSUME NEW q \in Seq(Packets), q # <<>>, NEW lo \in Nat, NEW hi \in Nat,
           Ascends(q, lo, hi)
    PROVE  /\ Tail(q) \in Seq(Packets) /\ Head(q) \in Packets
           /\ lo <= Head(q) /\ Head(q) <= hi
           /\ Ascends(Tail(q), Head(q), hi)
           /\ Ascends(Tail(q), lo, hi)
<1> USE ConsoleAssumption DEF Packets
<1>1. /\ Len(q) \in Nat /\ 1 <= Len(q)
      /\ Tail(q) \in Seq(Packets) /\ Len(Tail(q)) = Len(q) - 1
      /\ \A k \in 1 .. Len(q) - 1 : Tail(q)[k] = q[k + 1]
      /\ Head(q) = q[1]
      /\ \A k \in 1 .. Len(q) : q[k] \in 1 .. MaxPackets
  OBVIOUS
<1>2. \A k \in 1 .. Len(q) - 1 : k + 1 \in 1 .. Len(q)
  BY <1>1
<1>3. \A j, k \in 1 .. Len(Tail(q)) : j < k => Tail(q)[j] <= Tail(q)[k]
  BY <1>1, <1>2 DEF Ascends
<1>4. \A k \in 1 .. Len(Tail(q)) :
        lo <= Tail(q)[k] /\ Tail(q)[k] <= hi /\ Head(q) <= Tail(q)[k]
  BY <1>1, <1>2 DEF Ascends
<1> QED BY <1>1, <1>3, <1>4 DEF Ascends

(* Narrower bounds.                                                          *)
LEMMA AscendsBounds ==
    ASSUME NEW q \in Seq(Packets), NEW lo \in Nat, NEW hi \in Nat,
           NEW l \in Nat, NEW h \in Nat, Ascends(q, lo, hi), l <= lo, hi <= h
    PROVE  Ascends(q, l, h)
<1>1. \A k \in 1 .. Len(q) : q[k] \in Nat
  BY ConsoleAssumption DEF Packets
<1> QED BY <1>1 DEF Ascends

-----------------------------------------------------------------------------
(* A deque keeps its type and its length.                                    *)
LEMMA PushType ==
    ASSUME NEW q \in Seq(Packets), Len(q) <= MAX_POINTS, NEW n \in Packets
    PROVE  Push(q, n) \in Seq(Packets) /\ Len(Push(q, n)) <= MAX_POINTS
<1> USE ConsoleAssumption
<1>1. CASE Len(q) < MAX_POINTS
  BY <1>1 DEF Push
<1>2. CASE ~ (Len(q) < MAX_POINTS)
  <2>1. q # <<>> /\ Len(q) \in Nat
    BY <1>2
  <2>2. Tail(q) \in Seq(Packets) /\ Len(Tail(q)) = Len(q) - 1
    BY <2>1
  <2> QED BY <1>2, <2>1, <2>2 DEF Push
<1> QED BY <1>1, <1>2

(* What the threads rest on: the socket is open only for the first of them,  *)
(* so only the first can hold a packet, which is then the latest.            *)
ReaderInv ==
    /\ sock = "open" => starts <= 1 /\ (~ connected => starts = 0)
    /\ \A i \in Threads : thread[i] # "none" => i <= starts
    /\ \A i \in Threads : thread[i] \in BusyLabels =>
          i = 1 /\ packet[i] = _latest /\ _latest \in Packets

OrderInv ==
    /\ live <= _latest
    /\ _latest <= arrived
    /\ Ascends(after_queue, live, _latest)
    /\ Ascends(inbox, _latest, arrived)

ConsoleInv == ConsoleTypeOK /\ ReaderInv /\ OrderInv

(* The console starts with nothing received.                                 *)
LEMMA InvInit == Init => ConsoleInv
<1> SUFFICES ASSUME Init PROVE ConsoleInv
  OBVIOUS
<1> USE ConsoleAssumption
<1>0. <<>> \in Seq(Packets) /\ Len(<<>>) = 0 /\ 0 <= MAX_POINTS
  OBVIOUS
<1>1. ConsoleTypeOK
  <2>1. /\ thread \in [Threads -> {"none", "test", "recv", "t", "pitch", "roll",
                                    "post", "done"}]
        /\ packet \in [Threads -> 0 .. MaxPackets]
    BY DEF Init
  <2>2. /\ arrived \in 0 .. MaxPackets /\ starts \in 0 .. MaxStarts
        /\ _latest \in 0 .. MaxPackets /\ live \in 0 .. MaxPackets
    BY DEF Init
  <2>3. /\ inbox \in Seq(Packets) /\ after_queue \in Seq(Packets)
        /\ \A q \in {t_history, pitch_history, roll_history} :
              q \in Seq(Packets) /\ Len(q) <= MAX_POINTS
    BY <1>0 DEF Init
  <2>4. sent \in (GainValues \cup {NoGains}) \X (GainValues \cup {NoGains})
    BY DEF Init
  <2> QED BY <2>1, <2>2, <2>3, <2>4 DEF Init, ConsoleTypeOK
<1>2. ReaderInv
  BY DEF Init, ReaderInv, BusyLabels
<1>3. OrderInv
  BY <1>0 DEF Init, OrderInv, Ascends
<1> QED BY <1>1, <1>2, <1>3 DEF ConsoleInv

(* The steps of a receive thread that move no packet.                        *)
LEMMA LoopSteps ==
    ASSUME ConsoleInv, NEW i \in Threads, LoopTest(i) \/ RecvFails(i)
    PROVE  ConsoleInv'
<1> USE ConsoleAssumption
<1>1. /\ thread[i] \in {"test", "recv"}
      /\ \E l \in {"test", "recv", "done"} : thread' = [thread EXCEPT ![i] = l]
  BY DEF LoopTest, RecvFails, Goto
<1>2. UNCHANGED <<sock, inbox, arrived, _running, starts, packet, _latest, t_history,
                  pitch_history, roll_history, after_queue, connected, live,
                  gain_vars, window, wanted, sent>>
  BY DEF LoopTest, RecvFails, netVars, histVars, uiVars, ghostVars
<1>3. thread \in [Threads -> {"none", "test", "recv", "t", "pitch", "roll",
                               "post", "done"}]
  BY DEF ConsoleInv, ConsoleTypeOK
<1>4. ConsoleTypeOK'
  BY <1>1, <1>2, <1>3 DEF ConsoleInv, ConsoleTypeOK
<1>5. ReaderInv'
  BY <1>1, <1>2, <1>3 DEF ConsoleInv, ReaderInv, BusyLabels
<1>6. OrderInv'
  BY <1>2 DEF ConsoleInv, OrderInv
<1> QED BY <1>4, <1>5, <1>6 DEF ConsoleInv

(* Receiving a packet: only the first thread can.                            *)
LEMMA RecvStep ==
    ASSUME ConsoleInv, NEW i \in Threads, Recv(i)
    PROVE  ConsoleInv'
<1> USE ConsoleAssumption
<1>1. /\ sock = "open" /\ inbox # <<>> /\ inbox' = Tail(inbox)
      /\ thread[i] = "recv"
      /\ UNCHANGED <<sock, arrived, _running, starts, t_history,
                     pitch_history, roll_history, after_queue, connected, live,
                     gain_vars, window, wanted, sent>>
  BY DEF Recv, histVars, uiVars, ghostVars
<1>2. /\ ConsoleTypeOK /\ ReaderInv /\ OrderInv
      /\ inbox \in Seq(Packets) /\ _latest \in Nat /\ arrived \in Nat
      /\ live \in Nat /\ after_queue \in Seq(Packets)
      /\ thread \in [Threads -> {"none", "test", "recv", "t", "pitch", "roll",
                                  "post", "done"}]
      /\ packet \in [Threads -> 0 .. MaxPackets]
  BY DEF ConsoleInv, ConsoleTypeOK
<1>3. /\ Tail(inbox) \in Seq(Packets) /\ Head(inbox) \in Packets
      /\ _latest <= Head(inbox) /\ Head(inbox) <= arrived
      /\ Ascends(Tail(inbox), Head(inbox), arrived)
      /\ Ascends(Tail(inbox), _latest, arrived)
  BY <1>1, <1>2, AscendsTail DEF OrderInv
<1>4. i = 1 /\ Threads \subseteq Nat /\ starts \in Nat
  BY <1>1, <1>2 DEF ReaderInv, ConsoleTypeOK, Threads
<1>5. \A j \in Threads : j # i => thread[j] \notin BusyLabels
  BY <1>2, <1>4 DEF ReaderInv
<1>6. CASE Head(inbox) \in Broken
  <2>1. thread' = [thread EXCEPT ![i] = "test"] /\ UNCHANGED <<packet, _latest>>
    BY <1>6 DEF Recv, Goto, AfterDecodeError
  <2>2. ConsoleTypeOK'
    BY <1>1, <1>2, <1>3, <2>1 DEF ConsoleTypeOK
  <2>3. ReaderInv'
    BY <1>1, <1>2, <2>1 DEF ReaderInv, BusyLabels
  <2>4. OrderInv'
    BY <1>1, <1>2, <1>3, <2>1 DEF OrderInv
  <2> QED BY <2>2, <2>3, <2>4 DEF ConsoleInv
<1>7. CASE Head(inbox) \notin Broken
  <2>1. /\ thread' = [thread EXCEPT ![i] = "t"]
        /\ packet' = [packet EXCEPT ![i] = Head(inbox)]
        /\ _latest' = Head(inbox)
    BY <1>7 DEF Recv, Goto
  <2>2. Head(inbox) \in 0 .. MaxPackets /\ Head(inbox) \in Nat
    BY <1>3 DEF Packets
  <2>3. ConsoleTypeOK'
    BY <1>1, <1>2, <1>3, <2>1, <2>2 DEF ConsoleTypeOK
  <2>4. ReaderInv'
    BY <1>1, <1>2, <1>3, <1>4, <1>5, <2>1 DEF ReaderInv, BusyLabels
  <2>5. Ascends(after_queue, live, Head(inbox)) /\ live <= Head(inbox)
    BY <1>2, <1>3, <2>2, AscendsBounds DEF OrderInv
  <2>6. OrderInv'
    BY <1>1, <1>2, <1>3, <2>1, <2>5 DEF OrderInv
  <2> QED BY <2>3, <2>4, <2>6 DEF ConsoleInv
<1> QED BY <1>6, <1>7

(* The appends of _on_packet.                                                *)
LEMMA AppendSteps ==
    ASSUME ConsoleInv, NEW i \in Threads,
           AppendTime(i) \/ AppendPitch(i) \/ AppendRoll(i)
    PROVE  ConsoleInv'
<1> USE ConsoleAssumption
<1>1. /\ thread[i] \in BusyLabels
      /\ \E l \in BusyLabels : thread' = [thread EXCEPT ![i] = l]
      /\ UNCHANGED <<sock, inbox, arrived, _running, starts, packet, _latest,
                     after_queue, connected, live, gain_vars, window, wanted, sent>>
  BY DEF AppendTime, AppendPitch, AppendRoll, Goto, BusyLabels, netVars, uiVars,
         ghostVars
<1>2. /\ ConsoleTypeOK /\ ReaderInv /\ OrderInv
      /\ thread \in [Threads -> {"none", "test", "recv", "t", "pitch", "roll",
                                  "post", "done"}]
      /\ \A q \in {t_history, pitch_history, roll_history} :
            q \in Seq(Packets) /\ Len(q) <= MAX_POINTS
  BY DEF ConsoleInv, ConsoleTypeOK
<1>3. packet[i] \in Packets
  BY <1>1, <1>2 DEF ReaderInv
<1>4. \A q \in {t_history, pitch_history, roll_history} :
        Push(q, packet[i]) \in Seq(Packets) /\ Len(Push(q, packet[i])) <= MAX_POINTS
  BY <1>2, <1>3, PushType
<1>5. \A q \in {t_history', pitch_history', roll_history'} :
        q \in Seq(Packets) /\ Len(q) <= MAX_POINTS
  BY <1>2, <1>4 DEF AppendTime, AppendPitch, AppendRoll
<1>6. thread' \in [Threads -> {"none", "test", "recv", "t", "pitch", "roll",
                               "post", "done"}]
  BY <1>1, <1>2 DEF BusyLabels
<1>7. ConsoleTypeOK'
  BY <1>1, <1>2, <1>5, <1>6 DEF ConsoleTypeOK
<1>8. ReaderInv'
  BY <1>1, <1>2 DEF ReaderInv, BusyLabels
<1>9. OrderInv'
  BY <1>1, <1>2 DEF OrderInv
<1> QED BY <1>7, <1>8, <1>9 DEF ConsoleInv

(* Handing the packet to the main loop.                                      *)
LEMMA PostStep ==
    ASSUME ConsoleInv, NEW i \in Threads, PostRefresh(i)
    PROVE  ConsoleInv'
<1> USE ConsoleAssumption
<1>1. /\ thread[i] \in BusyLabels
      /\ thread' = [thread EXCEPT ![i] = "test"]
      /\ packet' = [packet EXCEPT ![i] = 0]
      /\ after_queue' = Append(after_queue, packet[i])
      /\ UNCHANGED <<sock, inbox, arrived, _running, starts, _latest, t_history,
                     pitch_history, roll_history, connected, live, gain_vars,
                     window, wanted, sent>>
  BY DEF PostRefresh, Goto, BusyLabels, netVars, histVars, uiVars, ghostVars
<1>2. /\ ConsoleTypeOK /\ ReaderInv /\ OrderInv
      /\ thread \in [Threads -> {"none", "test", "recv", "t", "pitch", "roll",
                                  "post", "done"}]
      /\ packet \in [Threads -> 0 .. MaxPackets]
      /\ after_queue \in Seq(Packets) /\ live \in Nat /\ _latest \in Nat
  BY DEF ConsoleInv, ConsoleTypeOK
<1>3. packet[i] = _latest /\ _latest \in Packets
  BY <1>1, <1>2 DEF ReaderInv
<1>4. /\ after_queue' \in Seq(Packets)
      /\ Ascends(after_queue', live, _latest)
  BY <1>1, <1>2, <1>3, AscendsAppend DEF OrderInv
<1>5. ConsoleTypeOK'
  BY <1>1, <1>2, <1>4 DEF ConsoleTypeOK
<1>6. ReaderInv'
  BY <1>1, <1>2 DEF ReaderInv, BusyLabels
<1>7. OrderInv'
  BY <1>1, <1>2, <1>4 DEF OrderInv
<1> QED BY <1>5, <1>6, <1>7 DEF ConsoleInv

(* The main loop shows the oldest waiting packet.                            *)
LEMMA RefreshStep ==
    ASSUME ConsoleInv, RefreshLive
    PROVE  ConsoleInv' /\ live' >= live
<1> USE ConsoleAssumption
<1>1. /\ after_queue # <<>> /\ after_queue' = Tail(after_queue)
      /\ live' = Head(after_queue) /\ gain_vars' = Reported[live']
      /\ UNCHANGED <<sock, inbox, arrived, _running, starts, thread, packet,
                     _latest, t_history, pitch_history, roll_history, connected,
                     window, wanted, sent>>
  BY DEF RefreshLive, netVars, recvVars, histVars, ghostVars
<1>2. /\ ConsoleTypeOK /\ ReaderInv /\ OrderInv
      /\ after_queue \in Seq(Packets) /\ live \in Nat /\ _latest \in Nat
  BY DEF ConsoleInv, ConsoleTypeOK
<1>3. /\ Tail(after_queue) \in Seq(Packets) /\ Head(after_queue) \in Packets
      /\ live <= Head(after_queue) /\ Head(after_queue) <= _latest
      /\ Ascends(Tail(after_queue), Head(after_queue), _latest)
  BY <1>1, <1>2, AscendsTail DEF OrderInv
<1>4. live' \in 0 .. MaxPackets /\ gain_vars' \in GainValues /\ live' >= live
  BY <1>1, <1>2, <1>3 DEF Packets
<1>5. ConsoleTypeOK'
  BY <1>1, <1>2, <1>3, <1>4 DEF ConsoleTypeOK
<1>6. ReaderInv'
  BY <1>1, <1>2 DEF ReaderInv
<1>7. OrderInv'
  BY <1>1, <1>2, <1>3 DEF OrderInv
<1> QED BY <1>4, <1>5, <1>6, <1>7 DEF ConsoleInv

(* A new packet arrives.                                                     *)
LEMMA ArriveStep ==
    ASSUME ConsoleInv, Arrive
    PROVE  ConsoleInv'
<1> USE ConsoleAssumption
<1>1. /\ arrived < MaxPackets /\ arrived' = arrived + 1
      /\ inbox' = Append(inbox, arrived')
      /\ UNCHANGED <<sock, _running, starts, thread, packet, _latest, t_history,
                     pitch_history, roll_history, after_queue, connected, live,
                     gain_vars, window, wanted, sent>>
  BY DEF Arrive, recvVars, histVars, uiVars, ghostVars
<1>2. /\ ConsoleTypeOK /\ ReaderInv /\ OrderInv
      /\ inbox \in Seq(Packets) /\ arrived \in Nat /\ _latest \in Nat
  BY DEF ConsoleInv, ConsoleTypeOK
<1>3. arrived' \in Packets /\ arrived <= arrived' /\ _latest <= arrived'
  BY <1>1, <1>2 DEF Packets, OrderInv
<1>4. inbox' \in Seq(Packets) /\ Ascends(inbox', _latest, arrived')
  BY <1>1, <1>2, <1>3, AscendsAppend DEF OrderInv
<1>5. ConsoleTypeOK'
  BY <1>1, <1>2, <1>3, <1>4 DEF ConsoleTypeOK, Packets
<1>6. ReaderInv'
  BY <1>1, <1>2 DEF ReaderInv
<1>7. OrderInv'
  BY <1>1, <1>2, <1>3, <1>4 DEF OrderInv
<1> QED BY <1>5, <1>6, <1>7 DEF ConsoleInv

(* What the pilot clicks.                                                    *)
LEMMA ClickSteps ==
    ASSUME ConsoleInv,
           \/ Connect \/ Disconnect \/ SendGains \/ OnClose
           \/ \E g \in GainValues : EditSliders(g)
    PROVE  ConsoleInv'
<1> USE ConsoleAssumption
<1>1. /\ ConsoleTypeOK /\ ReaderInv /\ OrderInv
      /\ thread \in [Threads -> {"none", "test", "recv", "t", "pitch", "roll",
                                  "post", "done"}]
      /\ starts \in Nat /\ arrived \in Nat /\ _latest \in Nat
  BY DEF ConsoleInv, ConsoleTypeOK
<1>2. CASE Connect
  <2>1. /\ ~ connected /\ starts < MaxStarts /\ starts' = starts + 1
        /\ connected' = TRUE /\ sock' = sock /\ _running' = TRUE
        /\ thread' = [thread EXCEPT ![starts + 1] = "test"]
        /\ UNCHANGED <<inbox, arrived, packet, _latest, t_history, pitch_history,
                       roll_history, after_queue, live, gain_vars, window,
                       wanted, sent>>
    BY <1>2 DEF Connect, SockOfStart, histVars, ghostVars
  <2>5. /\ starts' \in 0 .. MaxStarts
        /\ thread' \in [Threads -> {"none", "test", "recv", "t", "pitch", "roll",
                                     "post", "done"}]
    <3>1. /\ starts < MaxStarts /\ starts' = starts + 1
          /\ thread' = [thread EXCEPT ![starts + 1] = "test"]
      BY <2>1
    <3>2. starts' \in 0 .. MaxStarts
      BY <1>1, <3>1
    <3>3. thread' \in [Threads -> {"none", "test", "recv", "t", "pitch", "roll",
                                   "post", "done"}]
      BY <1>1, <3>1
    <3> QED BY <3>2, <3>3
  <2>6. connected' \in BOOLEAN /\ _running' \in BOOLEAN
    BY <2>1, Zenon
  <2>2. ConsoleTypeOK'
    BY <1>1, <2>1, <2>5, <2>6 DEF ConsoleTypeOK
  <2>3. ReaderInv'
    BY <1>1, <2>1 DEF ReaderInv, BusyLabels, Threads
  <2>4. OrderInv'
    BY <1>1, <2>1 DEF OrderInv
  <2> QED BY <2>2, <2>3, <2>4 DEF ConsoleInv
<1>3. CASE Disconnect \/ OnClose
  <2>1. /\ sock' = "closed" /\ inbox' = <<>>
        /\ _running' \in {FALSE, _running} /\ connected' \in {FALSE, connected}
        /\ window' \in {"closed", window}
        /\ UNCHANGED <<arrived, starts, thread, packet, _latest, t_history,
                       pitch_history, roll_history, after_queue, live,
                       gain_vars, wanted, sent>>
    BY <1>3 DEF Disconnect, OnClose, histVars, ghostVars
  <2>2. <<>> \in Seq(Packets) /\ Len(<<>>) = 0
    OBVIOUS
  <2>7. _running' \in BOOLEAN /\ connected' \in BOOLEAN
          /\ window' \in {"open", "closed"}
    BY <1>1, <2>1, Zenon DEF ConsoleTypeOK
  <2>3. ConsoleTypeOK'
    BY <1>1, <2>1, <2>2, <2>7 DEF ConsoleTypeOK
  <2>4. ReaderInv'
    BY <1>1, <2>1 DEF ReaderInv
  <2>5. Ascends(inbox', _latest, arrived)
    BY <2>1, <2>2 DEF Ascends
  <2>6. OrderInv'
    BY <1>1, <2>1, <2>5 DEF OrderInv
  <2> QED BY <2>3, <2>4, <2>6 DEF ConsoleInv
<1>4. CASE SendGains \/ \E g \in GainValues : EditSliders(g)
  <2>1. /\ gain_vars' \in GainValues
        /\ wanted' \in GainValues \cup {NoGains}
        /\ sent' \in (GainValues \cup {NoGains}) \X (GainValues \cup {NoGains})
        /\ UNCHANGED <<sock, inbox, arrived, _running, starts, thread, packet,
                       _latest, t_history, pitch_history, roll_history,
                       after_queue, connected, live, window>>
    BY <1>1, <1>4 DEF SendGains, EditSliders, ConsoleTypeOK, netVars, recvVars,
                      histVars, uiVars
  <2>2. ConsoleTypeOK'
    BY <1>1, <2>1 DEF ConsoleTypeOK
  <2>3. ReaderInv'
    BY <1>1, <2>1 DEF ReaderInv
  <2>4. OrderInv'
    BY <1>1, <2>1 DEF OrderInv
  <2> QED BY <2>2, <2>3, <2>4 DEF ConsoleInv
<1> QED BY <1>2, <1>3, <1>4

(* Every step keeps the invariant and never shows an older packet.           *)
LEMMA InvStep == ConsoleInv /\ [Next]_vars => ConsoleInv' /\ live' >= live
<1> SUFFICES ASSUME ConsoleInv, [Next]_vars PROVE ConsoleInv' /\ live' >= live
  OBVIOUS
<1>0. live \in Int
  BY DEF ConsoleInv, ConsoleTypeOK
<1>1. CASE Arrive
  <2>1. live' = live
    BY <1>1 DEF Arrive, uiVars
  <2> QED BY <1>0, <1>1, <2>1, ArriveStep
<1>2. ASSUME NEW i \in Threads, ThreadStep(i) PROVE ConsoleInv' /\ live' >= live
  <2>1. live' = live
    BY <1>2 DEF ThreadStep, LoopTest, RecvFails, Recv, AppendTime, AppendPitch,
                AppendRoll, PostRefresh, uiVars
  <2>2. ConsoleInv'
    BY <1>2, LoopSteps, RecvStep, AppendSteps, PostStep DEF ThreadStep
  <2> QED BY <1>0, <2>1, <2>2
<1>3. CASE RefreshLive
  BY <1>3, RefreshStep
<1>4. CASE \/ Connect \/ Disconnect \/ SendGains \/ OnClose
           \/ \E g \in GainValues : EditSliders(g)
  <2>1. live' = live
    BY <1>4 DEF Connect, Disconnect, SendGains, OnClose, EditSliders, uiVars
  <2> QED BY <1>0, <1>4, <2>1, ClickSteps
<1>5. CASE UNCHANGED vars
  <2>1. ConsoleInv'
    BY <1>5 DEF vars, netVars, recvVars, histVars, uiVars, ghostVars, ConsoleInv,
                ConsoleTypeOK, ReaderInv, OrderInv
  <2> QED BY <1>0, <1>5, <2>1 DEF vars, uiVars
<1> QED BY <1>1, <1>2, <1>3, <1>4, <1>5 DEF Next, MainThread

(* Type correctness, for any number of packets and of clicks on Connect.     *)
THEOREM ConsoleTypes == Spec => []ConsoleTypeOK
<1>1. Spec => []ConsoleInv
  BY InvInit, InvStep, PTL DEF Spec
<1>2. ConsoleInv => ConsoleTypeOK
  BY DEF ConsoleInv
<1> QED BY <1>1, <1>2, PTL

(* The live values never go back to an older packet, for any number of       *)
(* packets, of threads left over from earlier connections, and of clicks.    *)
THEOREM LiveValuesInOrder == Spec => ShownInOrder
<1>1. Spec => []ConsoleInv
  BY InvInit, InvStep, PTL DEF Spec
<1>2. ConsoleInv /\ [Next]_vars => [live' >= live]_vars
  BY InvStep
<1> QED BY <1>1, <1>2, PTL DEF Spec, ShownInOrder

-----------------------------------------------------------------------------
(* The histories: how far the thread inside _on_packet has got.              *)
HistoryInv ==
    /\ ConsoleInv
    /\ \A i \in Threads :
          /\ thread[i] \in {"t", "post"} =>
                t_history = pitch_history /\ t_history = roll_history
          /\ thread[i] = "pitch" =>
                t_history = Push(pitch_history, packet[i]) /\ roll_history = pitch_history
          /\ thread[i] = "roll" =>
                t_history = pitch_history /\ t_history = Push(roll_history, packet[i])
    /\ HistoriesAgree

(* Every step keeps the histories in step.                                   *)
LEMMA HistoryStep == HistoryInv /\ [Next]_vars => HistoryInv'
<1> SUFFICES ASSUME HistoryInv, [Next]_vars PROVE HistoryInv'
  OBVIOUS
<1>0. /\ ConsoleInv /\ ConsoleInv'
      /\ thread \in [Threads -> {"none", "test", "recv", "t", "pitch", "roll",
                                  "post", "done"}]
      /\ packet \in [Threads -> 0 .. MaxPackets]
  BY InvStep DEF HistoryInv, ConsoleInv, ConsoleTypeOK
<1>1. ASSUME NEW i \in Threads, thread[i] \in BusyLabels
      PROVE  \A j \in Threads : j # i => thread[j] \notin BusyLabels
  BY <1>0, <1>1 DEF ConsoleInv, ReaderInv
<1>2. ASSUME NEW i \in Threads, AppendTime(i) \/ AppendPitch(i) \/ AppendRoll(i)
             \/ PostRefresh(i)
      PROVE  HistoryInv'
  <2>1. \A j \in Threads : j # i => thread[j] \notin BusyLabels
    BY <1>1, <1>2 DEF AppendTime, AppendPitch, AppendRoll, PostRefresh, BusyLabels
  <2>2. CASE AppendTime(i)
    BY <1>0, <2>1, <2>2 DEF AppendTime, Goto, HistoryInv, HistoriesAgree, Busy,
                            BusyLabels
  <2>3. CASE AppendPitch(i)
    BY <1>0, <2>1, <2>3 DEF AppendPitch, Goto, HistoryInv, HistoriesAgree, Busy,
                            BusyLabels
  <2>4. CASE AppendRoll(i)
    BY <1>0, <2>1, <2>4 DEF AppendRoll, Goto, HistoryInv, HistoriesAgree, Busy,
                            BusyLabels
  <2>5. CASE PostRefresh(i)
    BY <1>0, <2>1, <2>5 DEF PostRefresh, Goto, HistoryInv, HistoriesAgree, Busy,
                            BusyLabels, histVars
  <2> QED BY <1>2, <2>2, <2>3, <2>4, <2>5
<1>3. ASSUME NEW i \in Threads, Recv(i) PROVE HistoryInv'
  <2>1. \A j \in Threads : thread[j] \notin BusyLabels
    <3>1. sock = "open" /\ thread[i] = "recv"
      BY <1>3 DEF Recv
    <3>2. i = 1
      <4>1. ReaderInv
        BY <1>0 DEF ConsoleInv
      <4>2. i <= starts /\ starts <= 1
        BY <3>1, <4>1 DEF ReaderInv
      <4>3. i \in Nat /\ 1 <= i /\ starts \in Int
        BY <1>0, ConsoleAssumption DEF ConsoleInv, ConsoleTypeOK, Threads
      <4> QED BY <4>2, <4>3
    <3> QED BY <1>0, <3>1, <3>2 DEF ConsoleInv, ReaderInv, BusyLabels
  <2>2. t_history = pitch_history /\ t_history = roll_history
    BY <2>1 DEF HistoryInv, HistoriesAgree, Busy, BusyLabels
  <2>3. \E l \in {"test", "t"} : thread' = [thread EXCEPT ![i] = l]
    BY <1>3 DEF Recv, Goto, AfterDecodeError
  <2>4. UNCHANGED <<t_history, pitch_history, roll_history>>
    BY <1>3 DEF Recv, histVars
  <2> QED BY <1>0, <2>1, <2>2, <2>3, <2>4 DEF HistoryInv, HistoriesAgree, BusyLabels
<1>4. ASSUME UNCHANGED <<histVars, packet>>,
             \A j \in Threads : \/ thread'[j] = thread[j]
                                \/ {thread[j], thread'[j]} \cap BusyLabels = {}
      PROVE  HistoryInv'
  <2>1. \A j \in Threads : (thread'[j] \in BusyLabels <=> thread[j] \in BusyLabels)
                           /\ (thread[j] \in BusyLabels => thread'[j] = thread[j])
    BY <1>4
  <2>2. HistoriesAgree'
    BY <1>4, <2>1 DEF HistoryInv, HistoriesAgree, Busy, BusyLabels, histVars
  <2> QED BY <1>0, <1>4, <2>1, <2>2 DEF HistoryInv, BusyLabels, histVars
<1>5. ASSUME NEW i \in Threads, LoopTest(i) \/ RecvFails(i) PROVE HistoryInv'
  <2>1. \A j \in Threads : \/ thread'[j] = thread[j]
                           \/ {thread[j], thread'[j]} \cap BusyLabels = {}
    BY <1>0, <1>5 DEF LoopTest, RecvFails, Goto, BusyLabels
  <2> QED BY <1>4, <1>5, <2>1 DEF LoopTest, RecvFails
<1>6. CASE Connect
  <2>0. starts + 1 \in Threads /\ thread[starts + 1] = "none"
    BY <1>0, <1>6, ConsoleAssumption
       DEF Connect, ConsoleInv, ConsoleTypeOK, ReaderInv, Threads
  <2>1. \A j \in Threads : \/ thread'[j] = thread[j]
                           \/ {thread[j], thread'[j]} \cap BusyLabels = {}
    BY <1>0, <1>6, <2>0 DEF Connect, BusyLabels
  <2> QED BY <1>4, <1>6, <2>1 DEF Connect
<1>7. CASE Arrive \/ RefreshLive \/ Disconnect \/ SendGains \/ OnClose
           \/ (\E g \in GainValues : EditSliders(g)) \/ UNCHANGED vars
  <2>1. UNCHANGED <<histVars, packet, thread>>
    BY <1>7 DEF Arrive, RefreshLive, Disconnect, SendGains, OnClose, EditSliders,
                vars, recvVars
  <2> QED BY <1>4, <2>1
<1> QED BY <1>2, <1>3, <1>5, <1>6, <1>7 DEF Next, MainThread, ThreadStep

(* Whenever no thread is inside _on_packet the three histories are equal,    *)
(* for any number of packets and of clicks on Connect.                       *)
THEOREM HistoriesStayTogether == Spec => []HistoriesAgree
<1>1. Init => HistoryInv
  BY InvInit DEF Init, HistoryInv, HistoriesAgree
<1>2. Spec => []HistoryInv
  BY <1>1, HistoryStep, PTL DEF Spec
<1>3. HistoryInv => HistoriesAgree
  BY DEF HistoryInv
<1> QED BY <1>2, <1>3, PTL

-----------------------------------------------------------------------------
(* The display.  What is still to be shown ends with the latest packet; and  *)
(* so does the plot, except while a thread is about to append it.            *)
Last(q) == q[Len(q)]

QueueEndsWithLatest ==
    Busy = {} => IF after_queue = <<>> THEN live = _latest
                                       ELSE Last(after_queue) = _latest

PlotEndsWithLatest ==
    (\A i \in Threads : thread[i] # "t") /\ _latest # 0
        => t_history # <<>> /\ Last(t_history) = _latest

DisplayInv == QueueEndsWithLatest /\ PlotEndsWithLatest

LEMMA AppendLast ==
    ASSUME NEW q \in Seq(Packets), NEW n \in Packets
    PROVE  Append(q, n) # <<>> /\ Last(Append(q, n)) = n
BY DEF Last

LEMMA PushLast ==
    ASSUME NEW q \in Seq(Packets), Len(q) <= MAX_POINTS, NEW n \in Packets
    PROVE  Push(q, n) # <<>> /\ Last(Push(q, n)) = n
<1>1. CASE Len(q) < MAX_POINTS
  BY <1>1, AppendLast DEF Push
<1>2. CASE ~ (Len(q) < MAX_POINTS)
  <2>1. q # <<>>
    BY <1>2, ConsoleAssumption
  <2>2. Tail(q) \in Seq(Packets)
    BY <2>1
  <2> QED BY <1>2, <2>2, AppendLast DEF Push
<1> QED BY <1>1, <1>2

(* Taking the head leaves the last element, or it was the last.              *)
LEMMA TailLast ==
    ASSUME NEW q \in Seq(Packets), q # <<>>
    PROVE  IF Tail(q) = <<>> THEN Head(q) = Last(q) ELSE Last(Tail(q)) = Last(q)
<1>1. /\ Len(q) \in Nat /\ 1 <= Len(q) /\ Len(Tail(q)) = Len(q) - 1
      /\ \A k \in 1 .. Len(q) - 1 : Tail(q)[k] = q[k + 1]
      /\ Head(q) = q[1] /\ Tail(q) \in Seq(Packets)
  OBVIOUS
<1>2. CASE Tail(q) = <<>>
  <2>0. \A s : s = <<>> => Len(s) = 0
    OBVIOUS
  <2>1. Len(Tail(q)) = 0
    BY <1>2, <2>0, Zenon
  <2>2. Len(q) = 1
    <3>1. \A n \in Nat : n - 1 = 0 => n = 1
      OBVIOUS
    <3>2. Len(q) \in Nat /\ Len(q) - 1 = 0
      BY <1>1, <2>1, Zenon
    <3> QED BY <3>1, <3>2, Zenon
  <2> QED BY <1>1, <1>2, <2>2 DEF Last
<1>3. CASE Tail(q) # <<>>
  <2>1. Len(Tail(q)) \in Nat \ {0}
    BY <1>1, <1>3
  <2>2. Len(q) - 1 \in 1 .. Len(q) - 1 /\ Len(q) - 1 + 1 = Len(q)
    BY <1>1, <2>1
  <2>3. Tail(q)[Len(q) - 1] = q[Len(q)]
    BY <1>1, <2>2
  <2> QED BY <1>1, <1>3, <2>3 DEF Last
<1> QED BY <1>2, <1>3

(* Every step keeps the display complete.                                    *)
LEMMA DisplayStep ==
    ConsoleInv /\ DisplayInv /\ [Next]_vars => DisplayInv'
<1> SUFFICES ASSUME ConsoleInv, DisplayInv, [Next]_vars PROVE DisplayInv'
  OBVIOUS
<1>0. /\ thread \in [Threads -> {"none", "test", "recv", "t", "pitch", "roll",
                                  "post", "done"}]
      /\ after_queue \in Seq(Packets)
      /\ t_history \in Seq(Packets) /\ Len(t_history) <= MAX_POINTS
  BY DEF ConsoleInv, ConsoleTypeOK
<1>b. \A i \in Threads : thread[i] \in BusyLabels =>
          packet[i] = _latest /\ _latest \in Packets
  BY DEF ConsoleInv, ReaderInv
<1>1. ASSUME UNCHANGED <<after_queue, live, _latest, t_history>>,
             \A j \in Threads : \/ thread'[j] = thread[j]
                                \/ {thread[j], thread'[j]} \cap BusyLabels = {}
      PROVE  DisplayInv'
  <2>1. \A j \in Threads : /\ thread'[j] \in BusyLabels <=> thread[j] \in BusyLabels
                           /\ thread'[j] = "t" <=> thread[j] = "t"
    BY <1>1 DEF BusyLabels
  <2>2. Busy' = Busy
    BY <2>1 DEF Busy, BusyLabels
  <2> QED BY <1>1, <2>1, <2>2
          DEF DisplayInv, QueueEndsWithLatest, PlotEndsWithLatest
<1>2. ASSUME NEW i \in Threads, LoopTest(i) \/ RecvFails(i) PROVE DisplayInv'
  <2>1. \A j \in Threads : \/ thread'[j] = thread[j]
                           \/ {thread[j], thread'[j]} \cap BusyLabels = {}
    BY <1>0, <1>2 DEF LoopTest, RecvFails, Goto, BusyLabels
  <2> QED BY <1>1, <1>2, <2>1 DEF LoopTest, RecvFails, histVars, uiVars
<1>3. ASSUME NEW i \in Threads, Recv(i) PROVE DisplayInv'
  <2>1. CASE Head(inbox) \in Broken
    <3>1. \A j \in Threads : \/ thread'[j] = thread[j]
                             \/ {thread[j], thread'[j]} \cap BusyLabels = {}
      BY <1>0, <1>3, <2>1 DEF Recv, Goto, AfterDecodeError, BusyLabels
    <3> QED BY <1>1, <1>3, <2>1, <3>1 DEF Recv, histVars, uiVars
  <2>2. CASE Head(inbox) \notin Broken
    <3>1. thread'[i] = "t"
      BY <1>0, <1>3, <2>2 DEF Recv, Goto
    <3>2. Busy' # {}
      BY <3>1 DEF Busy
    <3> QED BY <3>1, <3>2
            DEF DisplayInv, QueueEndsWithLatest, PlotEndsWithLatest
  <2> QED BY <2>1, <2>2
<1>4. ASSUME NEW i \in Threads, AppendTime(i) PROVE DisplayInv'
  <2>1. packet[i] = _latest /\ _latest \in Packets
    BY <1>4, <1>b DEF AppendTime, BusyLabels
  <2>2. t_history' = Push(t_history, _latest) /\ _latest' = _latest
    BY <1>4, <2>1 DEF AppendTime
  <2>3. t_history' # <<>> /\ Last(t_history') = _latest'
    BY <1>0, <2>1, <2>2, PushLast
  <2>4. i \in Busy'
    BY <1>0, <1>4 DEF AppendTime, Goto, Busy
  <2> QED BY <2>3, <2>4 DEF DisplayInv, QueueEndsWithLatest, PlotEndsWithLatest
<1>5. ASSUME NEW i \in Threads, AppendPitch(i) \/ AppendRoll(i) PROVE DisplayInv'
  <2>1. i \in Busy'
    BY <1>0, <1>5 DEF AppendPitch, AppendRoll, Goto, Busy
  <2>2. \A j \in Threads : thread'[j] # "t" => thread[j] # "t"
    BY <1>0, <1>5 DEF AppendPitch, AppendRoll, Goto
  <2>3. UNCHANGED <<_latest, t_history>>
    BY <1>5 DEF AppendPitch, AppendRoll
  <2> QED BY <2>1, <2>2, <2>3
          DEF DisplayInv, QueueEndsWithLatest, PlotEndsWithLatest
<1>6. ASSUME NEW i \in Threads, PostRefresh(i) PROVE DisplayInv'
  <2>1. packet[i] = _latest /\ _latest \in Packets
    BY <1>6, <1>b DEF PostRefresh, BusyLabels
  <2>2. after_queue' # <<>> /\ Last(after_queue') = _latest
    BY <1>0, <1>6, <2>1, AppendLast DEF PostRefresh
  <2>3. \A j \in Threads : thread'[j] # "t" => thread[j] # "t"
    BY <1>0, <1>6 DEF PostRefresh, Goto
  <2>4. UNCHANGED <<_latest, t_history>>
    BY <1>6 DEF PostRefresh, histVars
  <2> QED BY <2>2, <2>3, <2>4
          DEF DisplayInv, QueueEndsWithLatest, PlotEndsWithLatest
<1>7. CASE Connect
  <2>1. starts + 1 \in Threads /\ thread[starts + 1] = "none"
    BY <1>0, <1>7, ConsoleAssumption
       DEF Connect, ConsoleInv, ConsoleTypeOK, ReaderInv, Threads
  <2>2. \A j \in Threads : \/ thread'[j] = thread[j]
                           \/ {thread[j], thread'[j]} \cap BusyLabels = {}
    BY <1>0, <1>7, <2>1 DEF Connect, BusyLabels
  <2> QED BY <1>1, <1>7, <2>2 DEF Connect, histVars
<1>8. CASE RefreshLive
  <2>1. /\ after_queue # <<>> /\ after_queue' = Tail(after_queue)
        /\ live' = Head(after_queue)
        /\ UNCHANGED <<thread, _latest, t_history>>
    BY <1>8 DEF RefreshLive, recvVars, histVars
  <2>2. IF after_queue' = <<>> THEN live' = Last(after_queue)
                               ELSE Last(after_queue') = Last(after_queue)
    BY <1>0, <2>1, TailLast
  <2>3. Busy' = Busy
    BY <2>1 DEF Busy
  <2> QED BY <2>1, <2>2, <2>3
          DEF DisplayInv, QueueEndsWithLatest, PlotEndsWithLatest
<1>9. CASE Arrive \/ Disconnect \/ SendGains \/ OnClose
           \/ (\E g \in GainValues : EditSliders(g)) \/ UNCHANGED vars
  <2>1. UNCHANGED <<thread, after_queue, live, _latest, t_history>>
    BY <1>9 DEF Arrive, Disconnect, SendGains, OnClose, EditSliders, vars,
                recvVars, histVars, uiVars
  <2> QED BY <1>1, <2>1
<1> QED BY <1>2, <1>3, <1>4, <1>5, <1>6, <1>7, <1>8, <1>9
        DEF Next, MainThread, ThreadStep

(* Once nothing is under way the labels and the plot show the last packet    *)
(* that was decoded, for any number of packets, threads and clicks.          *)
THEOREM DisplayIsComplete == Spec => []DisplayCatchesUp
<1>1. Init => DisplayInv
  BY DEF Init, DisplayInv, QueueEndsWithLatest, PlotEndsWithLatest
<1>2. Spec => []ConsoleInv
  BY InvInit, InvStep, PTL DEF Spec
<1>3. DisplayInv => DisplayCatchesUp
  <2> SUFFICES ASSUME DisplayInv, Busy = {}, after_queue = <<>>
               PROVE  /\ live = _latest
                      /\ live # 0 => /\ t_history # <<>>
                                     /\ t_history[Len(t_history)] = live
    BY DEF DisplayCatchesUp
  <2>1. live = _latest
    BY DEF DisplayInv, QueueEndsWithLatest
  <2>2. \A i \in Threads : thread[i] # "t"
    BY DEF Busy
  <2> QED BY <2>1, <2>2 DEF DisplayInv, PlotEndsWithLatest, Last
<1> QED BY <1>1, <1>2, <1>3, DisplayStep, PTL DEF Spec
=============================================================================
