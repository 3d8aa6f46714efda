---------------------------- MODULE MCCommEvents -----------------------------
(* CommEvents with masks that ask for a line's event, for data, for both.   *)
EXTENDS CommEvents
CONSTANTS t1, t2, w1, w2
SomeMasks == {{"CTS"}, {"RXCHAR"}, {"RXCHAR", "CTS"}}
=============================================================================
