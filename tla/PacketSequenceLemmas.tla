------------------------- MODULE PacketSequenceLemmas -------------------------
(***************************************************************************)
(* Facts about Range and Increasing under concatenation, the only          *)
(* operation by which the pipelines move packets.                          *)
(***************************************************************************)
EXTENDS PacketSequences, SequenceTheorems, TLAPS

(* What the empty sequence and a sequence of one packet hold.              *)
LEMMA RangeSmall ==
  /\ Range(<<>>) = {}
  /\ Increasing(<<>>)
  /\ \A p \in Nat : Range(<<p>>) = {p} /\ Increasing(<<p>>)
<1>1. Range(<<>>) = {} /\ Increasing(<<>>)
  BY DEF Range, Increasing
<1>2. ASSUME NEW p \in Nat PROVE Range(<<p>>) = {p} /\ Increasing(<<p>>)
  BY DEF Range, Increasing
<1> QED
  BY <1>1, <1>2

(* In an increasing sequence any two places are in order.                  *)
LEMMA IncreasingPairs ==
  ASSUME NEW S \in SUBSET Nat, NEW s \in Seq(S)
  PROVE  Increasing(s) <=> \A i, j \in 1..Len(s) : i < j => s[i] < s[j]
<1>1. DOMAIN s = 1..Len(s) /\ Len(s) \in Nat
  BY LenProperties
<1>2. ASSUME NEW j \in 1..Len(s)
      PROVE  \A i : i \in 1..(j - 1) <=> i \in 1..Len(s) /\ i < j
  BY <1>1
<1> QED
  BY <1>1, <1>2, Zenon DEF Increasing

(* A concatenation is increasing iff its halves are and everything in the  *)
(* first is older than everything in the second.                           *)
LEMMA IncreasingConcat ==
  ASSUME NEW S \in SUBSET Nat, NEW s \in Seq(S), NEW t \in Seq(S)
  PROVE  Increasing(s \o t) <=> /\ Increasing(s)
                                /\ Increasing(t)
                                /\ \A p \in Range(s), q \in Range(t) : p < q
<1> DEFINE st == s \o t
<1>1. /\ Len(s) \in Nat /\ Len(t) \in Nat
      /\ Len(st) = Len(s) + Len(t)
      /\ \A i \in 1..Len(s) : st[i] = s[i]
      /\ \A j \in 1..Len(t) : st[Len(s) + j] = t[j]
  BY ConcatProperties, LenProperties, SMTT(30)
<1>a. /\ Increasing(s) <=> \A i, j \in 1..Len(s) : i < j => s[i] < s[j]
      /\ Increasing(t) <=> \A i, j \in 1..Len(t) : i < j => t[i] < t[j]
      /\ Increasing(st) <=> \A i, j \in 1..Len(st) : i < j => st[i] < st[j]
  BY ConcatProperties, IncreasingPairs, Zenon
<1>b. Range(s) = {s[i] : i \in 1..Len(s)} /\ Range(t) = {t[i] : i \in 1..Len(t)}
  BY RangeEquality
<1>2. ASSUME Increasing(st)
      PROVE  /\ Increasing(s)
             /\ Increasing(t)
             /\ \A p \in Range(s), q \in Range(t) : p < q
  <2> HIDE DEF st
  <2>1. Increasing(s)
    BY <1>1, <1>2, <1>a
  <2>2. ASSUME NEW i \in 1..Len(t), NEW j \in 1..Len(t), i < j
        PROVE  t[i] < t[j]
    <3>1. /\ Len(s) + i \in 1..Len(st) /\ Len(s) + j \in 1..Len(st)
          /\ Len(s) + i < Len(s) + j
      BY <1>1, <2>2
    <3>2. st[Len(s) + i] < st[Len(s) + j]
      BY <1>2, <3>1, <1>a
    <3> QED
      BY <1>1, <3>2
  <2>3. ASSUME NEW i \in 1..Len(s), NEW j \in 1..Len(t)
        PROVE  s[i] < t[j]
    <3>1. /\ i \in 1..Len(st) /\ Len(s) + j \in 1..Len(st)
          /\ i < Len(s) + j
      BY <1>1
    <3>2. st[i] < st[Len(s) + j]
      BY <1>2, <3>1, <1>a
    <3> QED
      BY <1>1, <3>2
  <2> QED
    BY <2>1, <2>2, <2>3, <1>a, <1>b
<1>3. ASSUME Increasing(s), Increasing(t),
             \A p \in Range(s), q \in Range(t) : p < q
      PROVE  Increasing(st)
  <2> HIDE DEF st
  <2> SUFFICES ASSUME NEW i \in 1..Len(st), NEW j \in 1..Len(st), i < j
               PROVE  st[i] < st[j]
    BY <1>a
  <2>1. CASE j <= Len(s)
    <3>1. i \in 1..Len(s) /\ j \in 1..Len(s)
      BY <1>1, <2>1
    <3>2. s[i] < s[j]
      BY <1>3, <3>1, <1>a
    <3> QED
      BY <1>1, <3>1, <3>2
  <2>2. CASE i > Len(s)
    <3> DEFINE k == i - Len(s)
               l == j - Len(s)
    <3>1. k \in 1..Len(t) /\ l \in 1..Len(t) /\ k < l
      BY <1>1, <2>2
    <3>2. st[i] = t[k] /\ st[j] = t[l]
      <4>1. i = Len(s) + k /\ j = Len(s) + l
        BY <1>1
      <4> QED
        BY <1>1, <3>1, <4>1
    <3> QED
      BY <1>3, <3>1, <3>2, <1>a
  <2>3. CASE i <= Len(s) /\ j > Len(s)
    <3> DEFINE l == j - Len(s)
    <3>1. i \in 1..Len(s) /\ l \in 1..Len(t) /\ j = Len(s) + l
      BY <1>1, <2>3
    <3>2. st[i] = s[i] /\ st[j] = t[l]
      BY <1>1, <3>1
    <3> QED
      BY <1>3, <3>1, <3>2, <1>b
  <2> QED
    BY <1>1, <2>1, <2>2, <2>3
<1> QED
  BY <1>2, <1>3

(* Cutting a segment out of an increasing sequence leaves one.             *)
LEMMA CutSegment ==
  ASSUME NEW S \in SUBSET Nat, NEW a \in Seq(S), NEW m \in Seq(S), NEW b \in Seq(S),
         Increasing((a \o m) \o b)
  PROVE  /\ Increasing(a \o b)
         /\ Range(a \o b) \subseteq Range((a \o m) \o b)
<1>1. a \o m \in Seq(S)
  BY ConcatProperties
<1>2. /\ Range(a \o m) = Range(a) \cup Range(m)
      /\ Range((a \o m) \o b) = Range(a \o m) \cup Range(b)
      /\ Range(a \o b) = Range(a) \cup Range(b)
  BY <1>1, RangeConcatenation
<1>3. /\ Increasing(a \o m) /\ Increasing(b)
      /\ \A p \in Range(a \o m), q \in Range(b) : p < q
  BY <1>1, IncreasingConcat
<1>4. Increasing(a)
  BY <1>3, IncreasingConcat
<1> QED
  BY <1>2, <1>3, <1>4, IncreasingConcat

(* A nonempty channel is its head followed by its tail.                    *)
LEMMA HeadThenTail ==
  ASSUME NEW S \in SUBSET Nat, NEW s \in Seq(S), s # <<>>
  PROVE  /\ Head(s) \in S
         /\ Tail(s) \in Seq(S)
         /\ Len(Tail(s)) = Len(s) - 1
         /\ <<Head(s)>> \in Seq(S)
         /\ s = <<Head(s)>> \o Tail(s)
<1>1. /\ Head(s) \in S /\ Tail(s) \in Seq(S)
      /\ Len(Tail(s)) = Len(s) - 1
      /\ \A i \in 1..Len(Tail(s)) : Tail(s)[i] = s[i + 1]
  BY HeadTailProperties
<1>2. <<Head(s)>> \in Seq(S)
  BY <1>1
<1> DEFINE u == <<Head(s)>> \o Tail(s)
<1>3. /\ u \in Seq(S)
      /\ Len(u) = 1 + Len(Tail(s))
      /\ \A i \in 1..(1 + Len(Tail(s))) :
           u[i] = IF i <= 1 THEN <<Head(s)>>[i] ELSE Tail(s)[i - 1]
  <2>1. Len(<<Head(s)>>) = 1
    OBVIOUS
  <2> QED
    BY <1>1, <1>2, <2>1, ConcatProperties
<1>4. Len(s) \in Nat /\ Len(s) # 0
  BY EmptySeq
<1>5. ASSUME NEW i \in 1..Len(s)
      PROVE  s[i] = u[i]
  <2>1. CASE i = 1
    <3>1. Head(s) = s[1]
      OBVIOUS
    <3> QED
      BY <1>1, <1>3, <1>4, <2>1, <3>1
  <2>2. CASE i # 1
    <3>1. i - 1 \in 1..Len(Tail(s))
      BY <1>1, <1>4, <2>2
    <3>2. Tail(s)[i - 1] = s[i]
      BY <1>1, <3>1
    <3> HIDE DEF u
    <3> QED
      BY <1>1, <1>3, <1>4, <2>2, <3>1, <3>2
  <2> QED
    BY <2>1, <2>2
<1>6. s = u
  <2>1. Len(s) = Len(u)
    BY <1>1, <1>3, <1>4
  <2> HIDE DEF u
  <2> QED
    BY <1>3, <1>5, <2>1, SeqEqual
<1> QED
  BY <1>1, <1>2, <1>6

(* A packet that is appended comes after all the others.                   *)
LEMMA AppendPacket ==
  ASSUME NEW S \in SUBSET Nat, NEW s \in Seq(S), NEW p \in S
  PROVE  /\ Append(s, p) \in Seq(S)
         /\ Range(Append(s, p)) = Range(s) \cup {p}
         /\ Increasing(Append(s, p)) <=> Increasing(s) /\ \A q \in Range(s) : q < p
<1> DEFINE one == <<p>>
<1>1. Append(s, p) = s \o one
  BY AppendIsConcat
<1>2. one \in Seq(S) /\ Range(one) = {p} /\ Increasing(one)
  <2>1. p \in Nat
    OBVIOUS
  <2>2. <<p>> \in Seq(S)
    OBVIOUS
  <2> QED
    BY <2>1, <2>2, RangeSmall, Zenon
<1> HIDE DEF one
<1>3. s \o one \in Seq(S)
  BY <1>2, ConcatProperties
<1>4. Range(s \o one) = Range(s) \cup Range(one)
  BY <1>2, RangeConcatenation
<1>5. Increasing(s \o one) <=> /\ Increasing(s) /\ Increasing(one)
                               /\ \A r \in Range(s), q \in Range(one) : r < q
  BY <1>2, IncreasingConcat
<1> QED
  BY <1>1, <1>2, <1>3, <1>4, <1>5
===============================================================================
