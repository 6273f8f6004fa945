------------------------------ MODULE MCPidLoop ------------------------------
(* A small instance of PidLoop: a tick is 10 ms, the period of the control   *)
(* loop, so the 0.1 s are ten ticks; the clock wraps after 24.               *)
EXTENDS PidLoop

Triple(p, r, y) ==
    [a \in Axes |-> CASE a = "pitch" -> p [] a = "roll" -> r [] a = "yaw" -> y]

(* Pulled one way, hard and less hard, and the other way.                    *)
ThreeErrors == {Triple(2, -2, 0), Triple(1, -1, 0), Triple(-1, 1, 0)}

Gains(kp, ki, kd) ==
    [k \in {"kp", "ki", "kd"} |->
        CASE k = "kp" -> kp [] k = "ki" -> ki [] k = "kd" -> kd]

(* All three terms at work.                                                  *)
OneGains == {[a \in Axes |-> Gains(3, 4, 1)]}
=============================================================================
