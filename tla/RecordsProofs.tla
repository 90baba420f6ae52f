---------------------------- MODULE RecordsProofs ----------------------------
(***************************************************************************)
(* Lemmas about the conversions of Records: what is read back, field by    *)
(* field, of what was sent, and what the two functions that recur over a   *)
(* list compute, for a list of any length.                                 *)
(***************************************************************************)
EXTENDS Records, WellFoundedInduction, TLAPS

----------------------------------------------------------------------------
(* Induction, over a set of naturals.                                      *)

Less == {ss \in Nat \X Nat : ss[1] < ss[2]}

\* A set of naturals has a least element.
LEMMA Least ==
    ASSUME NEW T \in SUBSET Nat, T # {}
    PROVE  \E x \in T : \A y \in T : x <= y
  <1>1. IsWellFoundedOn(Less, Nat)
    BY NatLessThanWellFounded DEF OpToRel, Less
  <1>2. PICK x \in T : \A y \in T : ~(<<y, x>> \in Less)
    BY <1>1, WFMin
  <1>3. ASSUME NEW y \in T PROVE x <= y
    <2>1. ~(<<y, x>> \in Less) /\ x \in Nat /\ y \in Nat
      BY <1>2
    <2> QED
      BY <2>1 DEF Less
  <1> QED
    BY <1>3

\* Two functions that agree at zero, and at every number after one where they
\* agree, agree.
AgreeStepwise(f, g, n) == f[0] = g[0] /\ \A i \in 1..n : f[i-1] = g[i-1] => f[i] = g[i]

LEMMA AgreeByInduction ==
    ASSUME NEW n \in Nat, NEW f, NEW g, AgreeStepwise(f, g, n)
    PROVE  \A i \in 0..n : f[i] = g[i]
  <1> DEFINE T == {i \in 0..n : f[i] # g[i]}
  <1> SUFFICES ASSUME T # {} PROVE FALSE
    OBVIOUS
  <1>0. T \in SUBSET Nat
    OBVIOUS
  <1>1. PICK x \in T : \A y \in T : x <= y
    <2> HIDE DEF T
    <2> QED
      BY <1>0, Least
  <1>2. x \in 1..n /\ x - 1 \in 0..n
    BY <1>1 DEF AgreeStepwise
  <1>3. f[x-1] = g[x-1]
    BY <1>1, <1>2
  <1> QED
    BY <1>1, <1>2, <1>3 DEF AgreeStepwise

----------------------------------------------------------------------------
(* Ticks.                                                                  *)

\* The running sums of the differences ws.
Sums(at, ws) ==
    at = [i \in 0..Len(ws) |->
            IF i = 0 THEN [time |-> 0, price |-> 0]
            ELSE [time |-> at[i-1].time + ws[i].time, price |-> at[i-1].price + ws[i].price]]

LEMMA TicksAreSums ==
    ASSUME NEW ws, NEW g, Sums(g, ws)
    PROVE  \E at : Sums(at, ws) /\ TicksFromProto(ws) = [i \in DOMAIN ws |-> at[i]]
  BY DEF Sums, TicksFromProto

\* Whatever has the sums as its elements is what the ticks are read as.
LEMMA TicksRead ==
    ASSUME NEW ws \in Seq([time : Int, price : Int]), NEW g, Sums(g, ws)
    PROVE  TicksFromProto(ws) = [i \in DOMAIN ws |-> g[i]]
  <1>1. PICK at : Sums(at, ws) /\ TicksFromProto(ws) = [i \in DOMAIN ws |-> at[i]]
    BY TicksAreSums
  <1>2. Len(ws) \in Nat /\ DOMAIN ws = 1..Len(ws)
    OBVIOUS
  <1>3. at[0] = g[0]
    BY <1>1, <1>2 DEF Sums
  <1>4. ASSUME NEW i \in 1..Len(ws), at[i-1] = g[i-1] PROVE at[i] = g[i]
    <2>1. i \in 0..Len(ws) /\ i # 0
      BY <1>2
    <2>2. at[i] = [time |-> at[i-1].time + ws[i].time, price |-> at[i-1].price + ws[i].price]
      BY <1>1, <2>1 DEF Sums
    <2>3. g[i] = [time |-> g[i-1].time + ws[i].time, price |-> g[i-1].price + ws[i].price]
      BY <2>1 DEF Sums
    <2> QED
      BY <1>4, <2>2, <2>3
  <1>5. \A i \in 0..Len(ws) : at[i] = g[i]
    <2>1. AgreeStepwise(at, g, Len(ws))
      BY <1>3, <1>4 DEF AgreeStepwise
    <2> QED
      BY <1>2, <2>1, AgreeByInduction
  <1> QED
    BY <1>1, <1>2, <1>5

----------------------------------------------------------------------------
(* Lists that are filtered.                                                *)

\* The parts of s that pending orders are kept of, by length.
Pendings(kept, s) ==
    kept = [i \in 0..Len(s) |-> IF i = 0 THEN <<>>
                                ELSE IF IsPending(s[i]) THEN Append(kept[i-1], s[i]) ELSE kept[i-1]]

LEMMA PendingsExist ==
    ASSUME NEW s, NEW g, Pendings(g, s)
    PROVE  \E kept : Pendings(kept, s) /\ Kept(s, IsPending) = kept[Len(s)]
  BY DEF Pendings, Kept

\* get_pending_orders of no order, and of one that is pending.
LEMMA NonePending == Kept(<<>>, IsPending) = <<>>
  <1> DEFINE g == [i \in 0..0 |-> <<>>]
  <1>1. Pendings(g, <<>>)
    BY DEF Pendings
  <1>2. PICK kept : Pendings(kept, <<>>) /\ Kept(<<>>, IsPending) = kept[0]
    <2> HIDE DEF g
    <2> QED
      BY <1>1, PendingsExist
  <1> QED
    BY <1>2 DEF Pendings

LEMMA OnePending == ASSUME NEW o, IsPending(o) PROVE Kept(<<o>>, IsPending) = <<o>>
  <1> DEFINE g == [i \in 0..1 |-> IF i = 0 THEN <<>> ELSE <<o>>]
  <1>1. Pendings(g, <<o>>)
    <2>1. g[0] = <<>>
      OBVIOUS
    <2> QED
      BY <2>1 DEF Pendings
  <1>2. PICK kept : Pendings(kept, <<o>>) /\ Kept(<<o>>, IsPending) = kept[Len(<<o>>)]
    <2> HIDE DEF g
    <2> QED
      BY <1>1, PendingsExist
  <1>3. kept[0] = <<>> /\ kept[1] = Append(kept[0], o)
    BY <1>2 DEF Pendings
  <1> QED
    BY <1>2, <1>3

\* The parts of s that a search keeps, by length.
Finds(kept, s) ==
    kept = [i \in 0..Len(s) |-> IF i = 0 THEN <<>>
                                ELSE IF s[i].matches THEN Append(kept[i-1], s[i]) ELSE kept[i-1]]

LEMMA FindsExist ==
    ASSUME NEW s, NEW g, Finds(g, s)
    PROVE  \E kept : Finds(kept, s) /\ Search(s) = kept[Len(s)]
  BY DEF Finds, Kept, Search

\* A search of which all but the first symbol match.
LEMMA SearchFinds ==
    ASSUME NEW S, NEW x \in S, NEW t \in Seq(S), ~x.matches, \A i \in DOMAIN t : t[i].matches
    PROVE  Search(<<x>> \o t) = t
  <1> DEFINE s == <<x>> \o t
             n == Len(t)
             g == [i \in 0..(n + 1) |-> IF i = 0 THEN <<>> ELSE [k \in 1..(i-1) |-> t[k]]]
  <1>1. /\ n \in Nat /\ DOMAIN t = 1..n /\ s \in Seq(S) /\ Len(s) = n + 1 /\ s[1] = x
        /\ \A i \in 2..(n+1) : s[i] = t[i-1]
    OBVIOUS
  <1> HIDE DEF s, n
  <1>2. ASSUME NEW i \in 0..(n+1)
        PROVE  g[i] = IF i = 0 THEN <<>> ELSE IF s[i].matches THEN Append(g[i-1], s[i]) ELSE g[i-1]
    <2>1. CASE i = 0
      BY <1>1, <2>1
    <2>2. CASE i = 1
      <3>1. g[1] = [k \in 1..0 |-> t[k]] /\ g[0] = <<>>
        BY <1>1
      <3>2. g[1] = <<>>
        BY <3>1
      <3> QED
        BY <1>1, <2>2, <3>1, <3>2
    <2>3. CASE i \in 2..(n+1)
      <3>0. i \in Int /\ i - 1 \in 1..n /\ i - 1 # 0 /\ i # 0 /\ i - 1 \in 0..(n+1) /\ (i-1)-1 = i - 2 /\ i - 2 \in 0..n
        BY <1>1, <2>3
      <3>1. s[i] = t[i-1] /\ t[i-1].matches /\ t[i-1] \in S
        BY <1>1, <2>3, <3>0
      <3>2. g[i] = [k \in 1..(i-1) |-> t[k]] /\ g[i-1] = [k \in 1..(i-2) |-> t[k]]
        BY <1>1, <2>3, <3>0
      <3> DEFINE u == g[i-1]
                 m == i - 2
      <3>3. m \in 0..n /\ u = [k \in 1..m |-> t[k]] /\ g[i] = [k \in 1..(m+1) |-> t[k]] /\ s[i] = t[m+1]
        BY <3>0, <3>1, <3>2
      <3>4. Append(u, s[i]) = g[i]
        <4> HIDE DEF u, m, g
        <4>1. u \in Seq(S) /\ Len(u) = m
          BY <1>1, <3>3
        <4>2. Append(u, s[i]) = [k \in 1..(m+1) |-> IF k = m + 1 THEN s[i] ELSE u[k]]
          BY <1>1, <3>3, <4>1, <3>1
        <4> QED
          BY <1>1, <3>3, <4>2
      <3> QED
        BY <3>0, <3>1, <3>4
    <2> QED
      BY <1>1, <2>1, <2>2, <2>3
  <1>3. Finds(g, s)
    BY <1>1, <1>2 DEF Finds
  <1>4. PICK kept : Finds(kept, s) /\ Search(s) = kept[Len(s)]
    <2> HIDE DEF g
    <2> QED
      BY <1>3, FindsExist
  <1>5. ASSUME NEW i \in 1..(n+1), kept[i-1] = g[i-1] PROVE kept[i] = g[i]
    <2>1. i \in 0..(n+1) /\ i # 0
      BY <1>1
    <2>2. kept[i] = IF s[i].matches THEN Append(kept[i-1], s[i]) ELSE kept[i-1]
      BY <1>1, <1>4, <2>1 DEF Finds
    <2>3. g[i] = IF s[i].matches THEN Append(g[i-1], s[i]) ELSE g[i-1]
      BY <1>2, <2>1
    <2> QED
      BY <1>5, <2>2, <2>3
  <1>6. kept[0] = g[0] /\ n + 1 \in Nat
    BY <1>1, <1>4 DEF Finds
  <1>7. \A i \in 0..(n+1) : kept[i] = g[i]
    <2>1. PICK m \in Nat : m = n + 1
      BY <1>6
    <2>2. AgreeStepwise(kept, g, m)
      BY <1>5, <1>6, <2>1 DEF AgreeStepwise
    <2>3. \A i \in 0..m : kept[i] = g[i]
      <3> HIDE DEF g
      <3> QED
        BY <2>2, AgreeByInduction
    <2> QED
      BY <2>1, <2>3
  <1>8. Search(s) = [k \in 1..n |-> t[k]]
    BY <1>1, <1>4, <1>7
  <1> QED
    BY <1>1, <1>8 DEF s
=============================================================================
