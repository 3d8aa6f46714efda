---------------------------- MODULE MCRingBuffer -----------------------------
(* RingBuffer on an array of four bytes with three byte values.              *)
EXTENDS RingBuffer
=============================================================================
