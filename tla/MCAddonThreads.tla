--------------------------- MODULE MCAddonThreads ----------------------------
(* One port of one program, with a few bytes each way.                     *)
EXTENDS AddonThreads, TLC
=============================================================================
