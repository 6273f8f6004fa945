---------------------------- MODULE MCTauriConsole ----------------------------
(* A small instance of TauriConsole: five commands and three packet events   *)
(* under way at once.                                                        *)
EXTENDS TauriConsole
=============================================================================
