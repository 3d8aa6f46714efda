---------------------------- MODULE MCPortHealing ----------------------------
(* PortHealing with a few programs and numbers, one of them foreign.        *)
EXTENDS PortHealing
CONSTANTS p1, p2, p3
=============================================================================
