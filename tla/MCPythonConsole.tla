--------------------------- MODULE MCPythonConsole ---------------------------
(* Small instances of PythonConsole: Connect can be clicked three times.     *)
EXTENDS PythonConsole

CONSTANTS g1, g2

(* The drone reports one set of gains throughout.                            *)
SteadyReports == [n \in Packets |-> g1]
=============================================================================
