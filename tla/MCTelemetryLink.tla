--------------------------- MODULE MCTelemetryLink ---------------------------
(* Small instances of TelemetryLink: two consoles, a handful of datagrams.   *)
EXTENDS TelemetryLink

CONSTANTS c1, c2

TwoConsoles == {c1, c2}

G(kp, ki, kd) ==
    [k \in GainNames |->
        CASE k = "kp" -> kp [] k = "ki" -> ki [] k = "kd" -> kd]

Datagram(c, axis, spaced, g) ==
    [from |-> c, axis |-> axis, spaced |-> spaced, gains |-> g]

(* The defaults of config.h.                                                 *)
ConfigGains ==
    [a \in Axes |-> IF a = "yaw" THEN G(0, 0, 0) ELSE G(200000, 10000, 0)]

Hello(c) == Datagram(c, "", FALSE, G(-1, -1, -1))

(* Updates in the documented format, a greeting, and one without kd.         *)
PlainPackets ==
    {Hello(c1),
     Datagram(c1, "pitch", FALSE, G(150000, 20004, 1)),
     Datagram(c2, "pitch", FALSE, G(80000, 30000, 6)),
     Datagram(c1, "yaw", FALSE, G(50000, 0, -1))}

(* An update of each console, for the same axis, and a malformed one.        *)
MixedPackets ==
    {Datagram(c2, "pitch", FALSE, G(80000, 30000, 6)),
     Datagram(c1, "pitch", FALSE, G(150000, 20004, 1)),
     Datagram(c1, "yaw", FALSE, G(50000, 0, -1))}

(* A greeting and an update as json.dumps writes it.                          *)
SpacedPackets == {Hello(c2), Datagram(c1, "roll", TRUE, G(150000, 20004, 1))}
=============================================================================
