---------------------------- MODULE MCFlightCore ----------------------------
(* Small instances of FlightCore.  The PWM scale is compressed: two reports  *)
(* at full stick lead from ESC_PWM_ARM_US past ESC_PWM_SPIN_US and up to the *)
(* ceiling, where the real one takes about 150.                              *)
EXTENDS FlightCore, TLC

Pad(y, ry, rx, x) ==
    [axis_y |-> y, axis_ry |-> ry, axis_rx |-> rx, axis_x |-> x]

(* Full up with the right stick forward, half down with the sticks centred.  *)
TwoReports == {Pad(-512, -512, 0, 100), Pad(300, 0, 0, 0)}

OneReport == {Pad(-512, -512, 0, 100)}

(* The first two, and the sticks released.                                   *)
ThreeReports == TwoReports \cup {Pad(0, 5, 511, 0)}

Att(p, r, y) ==
    [f \in AttFields |->
        CASE f = "pitch" -> p [] f = "roll" -> r [] f = "yaw_rate" -> y]

(* Level; one degree beyond the limit.                                       *)
TwoAttitudes == {Att(3, -2, 1), Att(46, 45, 7)}

NoAttitudes == {}

Out(p, r, y) ==
    [f \in {"pitch", "roll", "yaw"} |->
        CASE f = "pitch" -> p [] f = "roll" -> r [] f = "yaw" -> y]

(* In tenths of a microsecond: none, and corrections with a fraction; all    *)
(* three loops at their limit, pulling two ways.                             *)
OneOutput == {Out(12, -17, 20)}
TwoOutputs == {Out(0, 0, 0), Out(15, -20, 20)}
BigOutputs == {Out(200, -200, 200), Out(-200, -195, 200)}

(* The gamepads differ only in their names.                                  *)
PadSymmetry == Permutations(Devices)
=============================================================================
