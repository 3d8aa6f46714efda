------------------------------- MODULE FifoOps -------------------------------
(***************************************************************************)
(* The two things a ring call does to a byte sequence: take as many bytes  *)
(* from its front as the caller asked for and there are, and leave the     *)
(* rest.  driver/src/ringbuf.h writes both with min(Length, available).    *)
(* And what a cancellation does to a queue of requests.                    *)
(***************************************************************************)
EXTENDS Integers, Sequences

\* The macro min() of the driver's headers, on two counts.
Lesser(a, b) == IF a <= b THEN a ELSE b

\* The first n bytes of s, or all of s when it is shorter.
Take(s, n) == SubSeq(s, 1, Lesser(n, Len(s)))

\* What remains of s after Take(s, n).
Drop(s, n) == SubSeq(s, Lesser(n, Len(s)) + 1, Len(s))

\* s without its i-th element.
RemoveAt(s, i) == SubSeq(s, 1, i - 1) \o SubSeq(s, i + 1, Len(s))

=============================================================================
