---------------------------- MODULE MCSignalPath -----------------------------
(* SignalPath with a few handler threads and two settings: SET_DTR stores   *)
(* one of them, SET_MODEM_CONTROL both together.                            *)
EXTENDS SignalPath, TLC
CONSTANTS t1, t2, t3
Threads == Permutations(Caller)
Settings == {"DTR", "RTS"}
Calls == {{"DTR"}, {"DTR", "RTS"}}
=============================================================================
