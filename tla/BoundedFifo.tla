----------------------------- MODULE BoundedFifo -----------------------------
(***************************************************************************)
(* What a ring buffer promises its callers: a queue of at most Capacity    *)
(* bytes.  A write takes the prefix that fits and says how much that was,  *)
(* a read returns the oldest bytes, a flush discards everything.           *)
(***************************************************************************)
EXTENDS FifoOps

CONSTANTS
  Byte,      (* the bytes that travel                                      *)
  Capacity,  (* bytes the queue can hold                                   *)
  MaxLen     (* longest transfer a caller asks for; bounds the model       *)

VARIABLES
  content,   (* the bytes queued, oldest first                             *)
  moved      (* the bytes the last call accepted or returned               *)

vars == <<content, moved>>

Init == content = <<>> /\ moved = <<>>

Put(data) ==
  LET accepted == Take(data, Capacity - Len(content))
  IN  /\ content' = content \o accepted
      /\ moved' = accepted

Get(n) ==
  /\ content' = Drop(content, n)
  /\ moved' = Take(content, n)

Discard == content' = <<>> /\ moved' = <<>>

Next ==
  \/ \E len \in 1..MaxLen : \E data \in [1..len -> Byte] : Put(data)
  \/ \E n \in 1..MaxLen : Get(n)
  \/ Discard

Spec == Init /\ [][Next]_vars

=============================================================================
