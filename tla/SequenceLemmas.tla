--------------------------- MODULE SequenceLemmas ---------------------------
(***************************************************************************)
(* What the operations on queues and lists that the models use do to the   *)
(* places of the elements: the wire, the requests at the server, the write *)
(* lock and the lists of subscriptions.                                    *)
(***************************************************************************)
EXTENDS Integers, Sequences, SequencesExt, SequenceTheorems, TLAPS

\* A sequence of its own elements has a length and a domain.
LEMMA SeqParts ==
    ASSUME NEW s, s \in Seq(Range(s))
    PROVE  Len(s) \in Nat /\ DOMAIN s = 1..Len(s) /\ Range(s) = {s[i] : i \in DOMAIN s}
  BY LenProperties DEF Range

\* Taking the first element moves the others forward.
LEMMA TailParts ==
    ASSUME NEW s, s \in Seq(Range(s)), s # <<>>
    PROVE  /\ Tail(s) \in Seq(Range(Tail(s)))
           /\ 1 \in DOMAIN s /\ Head(s) = s[1]
           /\ DOMAIN Tail(s) = 1..(Len(s) - 1)
           /\ \A i \in DOMAIN Tail(s) : i + 1 \in DOMAIN s /\ Tail(s)[i] = s[i + 1]
  <1>1. Len(s) \in Nat /\ DOMAIN s = 1..Len(s)
    BY SeqParts
  <1>2. /\ Tail(s) \in Seq(Range(s)) /\ Len(Tail(s)) = Len(s) - 1
        /\ \A i \in 1..Len(Tail(s)) : Tail(s)[i] = s[i + 1]
    BY HeadTailProperties
  <1>3. Len(s) # 0
    BY EmptySeq
  <1>4. Tail(s) \in Seq(Range(Tail(s))) /\ DOMAIN Tail(s) = 1..Len(Tail(s))
    BY <1>2, SeqOfRange, LenProperties
  <1>5. Head(s) = s[1]
    BY DEF Head
  <1> QED
    BY <1>1, <1>2, <1>3, <1>4, <1>5

\* What is put behind a sequence, all at once, leaves it where it was.
LEMMA ConcatParts ==
    ASSUME NEW s, s \in Seq(Range(s)), NEW m \in Nat, NEW t, DOMAIN t = 1..m, t = [i \in 1..m |-> t[i]]
    PROVE  /\ s \o t \in Seq(Range(s \o t))
           /\ DOMAIN (s \o t) = 1..(Len(s) + m)
           /\ \A i \in DOMAIN s : i \in DOMAIN (s \o t) /\ (s \o t)[i] = s[i]
           /\ \A i \in DOMAIN (s \o t) \ DOMAIN s : i - Len(s) \in 1..m /\ (s \o t)[i] = t[i - Len(s)]
  <1> DEFINE S == Range(s) \cup {t[i] : i \in 1..m}
  <1>1. Len(s) \in Nat /\ DOMAIN s = 1..Len(s) /\ s \in Seq(S)
    BY SeqParts, SeqMonotonic
  <1>2. t \in Seq(S) /\ Len(t) = m
    <2>1. t \in [1..m -> S]
      OBVIOUS
    <2>2. t \in Seq(S)
      BY <2>1, SeqDef
    <2> QED
      BY <2>2, LenProperties
  <1>3. /\ s \o t \in Seq(S) /\ Len(s \o t) = Len(s) + m
        /\ \A i \in 1..(Len(s) + m) : (s \o t)[i] = IF i <= Len(s) THEN s[i] ELSE t[i - Len(s)]
    BY <1>1, <1>2, ConcatProperties
  <1>4. s \o t \in Seq(Range(s \o t)) /\ DOMAIN (s \o t) = 1..(Len(s) + m)
    BY <1>3, SeqOfRange, LenProperties
  <1> QED
    BY <1>1, <1>3, <1>4

\* The same for one element.
LEMMA AppendParts ==
    ASSUME NEW s, s \in Seq(Range(s)), NEW e
    PROVE  /\ Append(s, e) \in Seq(Range(Append(s, e)))
           /\ DOMAIN Append(s, e) = 1..(Len(s) + 1)
           /\ \A i \in DOMAIN s : i \in DOMAIN Append(s, e) /\ Append(s, e)[i] = s[i]
           /\ \A i \in DOMAIN Append(s, e) \ DOMAIN s : i = Len(s) + 1 /\ Append(s, e)[i] = e
  <1> DEFINE S == Range(s) \cup {e}
  <1>1. Len(s) \in Nat /\ DOMAIN s = 1..Len(s) /\ s \in Seq(S)
    BY SeqParts, SeqMonotonic
  <1>2. /\ Append(s, e) \in Seq(S) /\ Len(Append(s, e)) = Len(s) + 1
        /\ \A i \in 1..Len(s) : Append(s, e)[i] = s[i]
        /\ Append(s, e)[Len(s) + 1] = e
    BY <1>1, AppendProperties
  <1>3. Append(s, e) \in Seq(Range(Append(s, e))) /\ DOMAIN Append(s, e) = 1..(Len(s) + 1)
    BY <1>2, SeqOfRange, LenProperties
  <1> QED
    BY <1>1, <1>2, <1>3

\* Removing the k-th element moves the later ones forward.
LEMMA RemoveAtProperties ==
    ASSUME NEW S, NEW s \in Seq(S), NEW k \in 1..Len(s)
    PROVE  /\ RemoveAt(s, k) \in Seq(S)
           /\ Len(RemoveAt(s, k)) = Len(s) - 1
           /\ \A i \in 1..(Len(s) - 1) : RemoveAt(s, k)[i] = IF i < k THEN s[i] ELSE s[i + 1]
  <1> DEFINE a == SubSeq(s, 1, k - 1)
             b == SubSeq(s, k + 1, Len(s))
  <1>1. Len(s) \in Nat /\ \A i \in 1..Len(s) : s[i] \in S
    BY LenProperties, ElementOfSeq
  <1>2. /\ a \in Seq(S) /\ Len(a) = k - 1
        /\ \A i \in 1..(k - 1) : a[i] = s[i]
    <2>1. \A i \in 1..(k - 1) : s[i] \in S
      BY <1>1
    <2>2. /\ a \in Seq(S)
          /\ Len(a) = IF 1 <= k - 1 THEN (k - 1) - 1 + 1 ELSE 0
          /\ \A i \in 1..((k - 1) - 1 + 1) : a[i] = s[1 + i - 1]
      BY <1>1, <2>1, SubSeqProperties
    <2> QED
      BY <1>1, <2>2
  <1>3. /\ b \in Seq(S) /\ Len(b) = Len(s) - k
        /\ \A i \in 1..(Len(s) - k) : b[i] = s[k + i]
    <2>1. \A i \in (k + 1)..Len(s) : s[i] \in S
      BY <1>1
    <2>2. /\ b \in Seq(S)
          /\ Len(b) = IF k + 1 <= Len(s) THEN Len(s) - (k + 1) + 1 ELSE 0
          /\ \A i \in 1..(Len(s) - (k + 1) + 1) : b[i] = s[(k + 1) + i - 1]
      BY <1>1, <2>1, SubSeqProperties
    <2> QED
      BY <1>1, <2>2
  <1>4. /\ a \o b \in Seq(S)
        /\ Len(a \o b) = Len(a) + Len(b)
        /\ \A i \in 1..(Len(a) + Len(b)) : (a \o b)[i] = IF i <= Len(a) THEN a[i] ELSE b[i - Len(a)]
    BY <1>2, <1>3, ConcatProperties
  <1>5. RemoveAt(s, k) = a \o b
    BY DEF RemoveAt
  <1> HIDE DEF a, b
  <1>6. Len(a) + Len(b) = Len(s) - 1
    BY <1>1, <1>2, <1>3
  <1>7. ASSUME NEW i \in 1..(Len(s) - 1)
        PROVE  (a \o b)[i] = IF i < k THEN s[i] ELSE s[i + 1]
    <2>1. CASE i < k
      <3>1. i \in 1..(k - 1) /\ i <= Len(a) /\ i \in 1..(Len(a) + Len(b))
        BY <1>1, <1>2, <1>6, <2>1
      <3> QED
        BY <1>2, <1>4, <2>1, <3>1
    <2>2. CASE ~(i < k)
      <3>1. /\ ~(i <= Len(a)) /\ i \in 1..(Len(a) + Len(b))
            /\ i - Len(a) \in 1..(Len(s) - k) /\ k + (i - Len(a)) = i + 1
        BY <1>1, <1>2, <1>6, <2>2
      <3>2. (a \o b)[i] = b[i - Len(a)]
        BY <1>4, <3>1
      <3>3. b[i - Len(a)] = s[k + (i - Len(a))]
        BY <1>3, <3>1
      <3> QED
        BY <2>2, <3>1, <3>2, <3>3
    <2> QED
      BY <2>1, <2>2
  <1> QED
    BY <1>4, <1>5, <1>6, <1>7
=============================================================================
