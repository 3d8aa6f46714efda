------------------------------ MODULE BytePipe -------------------------------
(***************************************************************************)
(* What one direction of a virtual port promises the two programs at its   *)
(* ends: the bytes that were accepted come out once each, in the order     *)
(* they were accepted, with a bounded number of them in flight.            *)
(***************************************************************************)
EXTENDS Integers, Sequences

CONSTANT Capacity   (* bytes that can be in flight                         *)

VARIABLES
  sent,      (* the bytes reported to writers as written                   *)
  received   (* the bytes handed to readers                                *)

vars == <<sent, received>>

\* t is s with something appended.
Grows(s, t) ==
  /\ Len(s) < Len(t)
  /\ \A i \in 1..Len(s) : t[i] = s[i]

Init == sent = <<>> /\ received = <<>>

Send ==
  /\ Grows(sent, sent')
  /\ Len(sent') - Len(received) <= Capacity
  /\ UNCHANGED received

Deliver ==
  /\ Grows(received, received')
  /\ Len(received') <= Len(sent)
  /\ \A i \in 1..Len(received') : received'[i] = sent[i]
  /\ UNCHANGED sent

Next == Send \/ Deliver

SafeSpec == Init /\ [][Next]_vars

=============================================================================
