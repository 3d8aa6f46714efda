--------------------------- MODULE FifoOpsProofs ----------------------------
(***************************************************************************)
(* What Take and Drop return, for sequences over any set.                  *)
(***************************************************************************)
EXTENDS FifoOps, SequenceTheorems, TLAPS

\* Take returns a prefix: its type, its length and its elements.
LEMMA TakeProperties ==
  ASSUME NEW S, NEW s \in Seq(S), NEW n \in Nat
  PROVE  /\ Take(s, n) \in Seq(S)
         /\ Len(Take(s, n)) = Lesser(n, Len(s))
         /\ \A i \in 1..Len(Take(s, n)) : Take(s, n)[i] = s[i]
<1> DEFINE m == Lesser(n, Len(s))
<1>1. m \in Nat /\ m <= Len(s)
  BY LenProperties DEF Lesser
<1>2. \A i \in 1..m : s[i] \in S
  BY <1>1, LenProperties, ElementOfSeq
<1>3. /\ SubSeq(s, 1, m) \in Seq(S)
      /\ Len(SubSeq(s, 1, m)) = IF 1 <= m THEN m - 1 + 1 ELSE 0
      /\ \A i \in 1..(m - 1 + 1) : SubSeq(s, 1, m)[i] = s[1 + i - 1]
  BY <1>1, <1>2, SubSeqProperties
<1>4. Len(SubSeq(s, 1, m)) = m
  BY <1>1, <1>3
<1>5. \A i \in 1..m : SubSeq(s, 1, m)[i] = s[i]
  BY <1>1, <1>3
<1> QED  BY <1>3, <1>4, <1>5 DEF Take

\* Drop returns the matching suffix.
LEMMA DropProperties ==
  ASSUME NEW S, NEW s \in Seq(S), NEW n \in Nat
  PROVE  /\ Drop(s, n) \in Seq(S)
         /\ Len(Drop(s, n)) = Len(s) - Lesser(n, Len(s))
         /\ \A i \in 1..Len(Drop(s, n)) : Drop(s, n)[i] = s[Lesser(n, Len(s)) + i]
<1> DEFINE m == Lesser(n, Len(s))
           L == Len(s)
           r == SubSeq(s, m + 1, L)
<1>1. m \in Nat /\ L \in Nat /\ m <= L
  BY LenProperties DEF Lesser
<1>2. \A i \in (m + 1)..L : s[i] \in S
  BY <1>1, ElementOfSeq
<1>3. /\ r \in Seq(S)
      /\ Len(r) = IF m + 1 <= L THEN L - (m + 1) + 1 ELSE 0
      /\ \A i \in 1..(L - (m + 1) + 1) : r[i] = s[(m + 1) + i - 1]
  <2> HIDE DEF m, L
  <2>1. m + 1 \in Int /\ L \in Int
    BY <1>1
  <2> QED  BY <1>2, <2>1, SubSeqProperties DEF r
<1>4. Len(r) = L - m
  BY <1>1, <1>3
<1>5. \A i \in 1..(L - m) : r[i] = s[m + i]
  <2> SUFFICES ASSUME NEW i \in 1..(L - m) PROVE r[i] = s[m + i]
    OBVIOUS
  <2>1. i \in 1..(L - (m + 1) + 1) /\ (m + 1) + i - 1 = m + i
    BY <1>1
  <2> QED  BY <2>1, <1>3
<1> QED  BY <1>3, <1>4, <1>5 DEF Drop

\* Removing one element leaves a sequence over the same set, shorter by one.
LEMMA RemoveProperties ==
  ASSUME NEW S, NEW s \in Seq(S), NEW i \in 1..Len(s)
  PROVE  LET t == SubSeq(s, 1, i - 1) \o SubSeq(s, i + 1, Len(s))
         IN  /\ t \in Seq(S)
             /\ Len(t) = Len(s) - 1
             /\ \A k \in 1..Len(t) : t[k] = IF k < i THEN s[k] ELSE s[k + 1]
<1> DEFINE L == Len(s)
           a == SubSeq(s, 1, i - 1)
           b == SubSeq(s, i + 1, L)
<1>1. L \in Nat
  BY LenProperties
<1>2. /\ a \in Seq(S) /\ Len(a) = i - 1
      /\ \A k \in 1..(i - 1) : a[k] = s[k]
  <2>1. \A k \in 1..(i - 1) : s[k] \in S
    BY <1>1, ElementOfSeq
  <2>2. /\ a \in Seq(S)
        /\ Len(a) = IF 1 <= i - 1 THEN (i - 1) - 1 + 1 ELSE 0
        /\ \A k \in 1..((i - 1) - 1 + 1) : a[k] = s[1 + k - 1]
    BY <1>1, <2>1, SubSeqProperties
  <2> QED  BY <1>1, <2>2
<1>3. /\ b \in Seq(S) /\ Len(b) = L - i
      /\ \A k \in 1..(L - i) : b[k] = s[i + k]
  <2>1. \A k \in (i + 1)..L : s[k] \in S
    BY <1>1, ElementOfSeq
  <2>2. i + 1 \in Int /\ L \in Int
    BY <1>1
  <2> HIDE DEF L
  <2>3. /\ b \in Seq(S)
        /\ Len(b) = IF i + 1 <= L THEN L - (i + 1) + 1 ELSE 0
        /\ \A k \in 1..(L - (i + 1) + 1) : b[k] = s[(i + 1) + k - 1]
    BY <2>1, <2>2, SubSeqProperties DEF b
  <2>4. i \in Int /\ i <= L
    BY <1>1 DEF L
  <2> QED  BY <1>1, <2>3, <2>4
<1> HIDE DEF a, b
<1>4. /\ a \o b \in Seq(S)
      /\ Len(a \o b) = L - 1
      /\ \A k \in 1..(L - 1) : (a \o b)[k] = IF k <= i - 1 THEN a[k] ELSE b[k - (i - 1)]
  <2>1. /\ a \o b \in Seq(S)
        /\ Len(a \o b) = Len(a) + Len(b)
        /\ \A k \in 1..(Len(a) + Len(b)) :
             (a \o b)[k] = IF k <= Len(a) THEN a[k] ELSE b[k - Len(a)]
    BY <1>2, <1>3, ConcatProperties
  <2>2. Len(a) = i - 1 /\ Len(a) + Len(b) = L - 1
    BY <1>1, <1>2, <1>3
  <2> QED  BY <2>1, <2>2
<1>5. \A k \in 1..(L - 1) : (a \o b)[k] = IF k < i THEN s[k] ELSE s[k + 1]
  <2> SUFFICES ASSUME NEW k \in 1..(L - 1)
               PROVE  (a \o b)[k] = IF k < i THEN s[k] ELSE s[k + 1]
    OBVIOUS
  <2>1. CASE k < i
    BY <1>1, <1>2, <1>4, <2>1
  <2>2. CASE ~(k < i)
    <3>1. k - (i - 1) \in 1..(L - i) /\ i + (k - (i - 1)) = k + 1
      BY <1>1, <2>2
    <3> QED  BY <1>1, <1>3, <1>4, <2>2, <3>1
  <2> QED  BY <2>1, <2>2
<1> QED  BY <1>4, <1>5 DEF a, b

\* What is taken and what is left make up the sequence.
LEMMA TakeDrop ==
  ASSUME NEW S, NEW s \in Seq(S), NEW n \in Nat
  PROVE  Take(s, n) \o Drop(s, n) = s
<1> DEFINE m == Lesser(n, Len(s))
<1>1. m \in Nat /\ Len(s) \in Nat /\ m <= Len(s)
  BY LenProperties DEF Lesser
<1>2. SubSeq(s, 1, m) \o SubSeq(s, m + 1, Len(s)) = SubSeq(s, 1, Len(s))
  <2>1. 1 \in 1..(Len(s) + 1) /\ m \in (1 - 1)..Len(s) /\ Len(s) \in m..Len(s)
    BY <1>1
  <2> HIDE DEF m
  <2> QED  BY <2>1, ConcatAdjacentSubSeq
<1>3. SubSeq(s, 1, Len(s)) = s
  <2>1. \A i \in 1..Len(s) : s[i] \in S
    BY ElementOfSeq
  <2>2. /\ SubSeq(s, 1, Len(s)) \in Seq(S)
        /\ Len(SubSeq(s, 1, Len(s))) = IF 1 <= Len(s) THEN Len(s) - 1 + 1 ELSE 0
        /\ \A i \in 1..(Len(s) - 1 + 1) : SubSeq(s, 1, Len(s))[i] = s[1 + i - 1]
    BY <1>1, <2>1, SubSeqProperties
  <2>3. Len(SubSeq(s, 1, Len(s))) = Len(s)
    BY <1>1, <2>2
  <2>4. \A i \in 1..Len(SubSeq(s, 1, Len(s))) : SubSeq(s, 1, Len(s))[i] = s[i]
    BY <1>1, <2>2, <2>3
  <2> HIDE DEF m
  <2> QED  BY <2>2, <2>3, <2>4, SeqEqual
<1> QED  BY <1>2, <1>3 DEF Take, Drop

=============================================================================
