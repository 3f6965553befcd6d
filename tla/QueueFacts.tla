------------------------------ MODULE QueueFacts ------------------------------
(***************************************************************************)
(* Facts about queues, which are sequences without repetitions, that the   *)
(* proofs of this project use: what joins, leaves or is put back in one.   *)
(***************************************************************************)
EXTENDS SequencesExt, SequenceTheorems, TLAPS

\* The elements of a sequence are in the set it ranges over.
LEMMA ToSetInSet ==
  ASSUME NEW S, NEW s \in Seq(S)
  PROVE  /\ ToSet(s) \subseteq S
         /\ \A i \in DOMAIN s : s[i] \in ToSet(s)
         /\ \A i \in 1 .. Len(s) : s[i] \in ToSet(s)
         /\ \A e \in ToSet(s) : \E i \in 1 .. Len(s) : s[i] = e
  BY DEF ToSet

\* Injectivity, read on positions.
LEMMA InjectiveOnPositions ==
  ASSUME NEW S, NEW s \in Seq(S)
  PROVE  IsInjective(s) <=> \A i, j \in 1 .. Len(s) : s[i] = s[j] => i = j
  BY DEF IsInjective

\* The empty sequence.
LEMMA EmptyQueue == ToSet(<<>>) = {} /\ IsInjective(<<>>)
  BY DEF ToSet, IsInjective

\* Only the empty sequence has no element.
LEMMA NonEmptyQueue ==
  ASSUME NEW S, NEW s \in Seq(S)
  PROVE  s = <<>> <=> ToSet(s) = {}
  BY DEF ToSet

\* A sequence of one element.
LEMMA SingleQueue ==
  ASSUME NEW S, NEW e \in S
  PROVE  <<e>> \in Seq(S) /\ ToSet(<<e>>) = {e} /\ IsInjective(<<e>>) /\ <<e>> # <<>>
  BY DEF ToSet, IsInjective

\* Appending an element.
LEMMA AppendQueue ==
  ASSUME NEW S, NEW s \in Seq(S), NEW e \in S
  PROVE  /\ Append(s, e) \in Seq(S)
         /\ ToSet(Append(s, e)) = ToSet(s) \cup {e}
         /\ IsInjective(s) /\ e \notin ToSet(s) => IsInjective(Append(s, e))
<1> DEFINE q == Append(s, e)
<1>1. /\ q \in Seq(S) /\ Len(q) = Len(s) + 1 /\ Len(s) \in Nat
      /\ \A i \in 1 .. Len(s) : q[i] = s[i]
      /\ q[Len(s) + 1] = e
  BY AppendProperties
<1>2. DOMAIN q = 1 .. Len(s) + 1 /\ DOMAIN s = 1 .. Len(s)
  BY <1>1
<1> HIDE DEF q
<1>3. ToSet(q) = ToSet(s) \cup {e}
  <2>1. ASSUME NEW x \in ToSet(q) PROVE x \in ToSet(s) \cup {e}
    <3>1. PICK i \in 1 .. Len(s) + 1 : q[i] = x
      BY <2>1, <1>2 DEF ToSet
    <3>2. CASE i \in 1 .. Len(s)
      BY <3>1, <3>2, <1>1, <1>2 DEF ToSet
    <3>3. CASE i = Len(s) + 1
      BY <3>1, <3>3, <1>1
    <3> QED BY <3>1, <3>2, <3>3, <1>1
  <2>2. ASSUME NEW x \in ToSet(s) PROVE x \in ToSet(q)
    <3>1. PICK i \in 1 .. Len(s) : s[i] = x
      BY <2>2, <1>2 DEF ToSet
    <3> QED BY <3>1, <1>1, <1>2 DEF ToSet
  <2>3. e \in ToSet(q)
    BY <1>1, <1>2 DEF ToSet
  <2> QED BY <2>1, <2>2, <2>3
<1>4. ASSUME IsInjective(s), e \notin ToSet(s) PROVE IsInjective(q)
  <2> SUFFICES ASSUME NEW i \in 1 .. Len(s) + 1, NEW j \in 1 .. Len(s) + 1, q[i] = q[j]
               PROVE  i = j
    BY <1>2 DEF IsInjective
  <2>1. \A k \in 1 .. Len(s) : q[k] = s[k] /\ s[k] # e
    BY <1>1, <1>2, <1>4 DEF ToSet
  <2>2. \A k, l \in 1 .. Len(s) : s[k] = s[l] => k = l
    BY <1>2, <1>4 DEF IsInjective
  <2> QED BY <1>1, <2>1, <2>2
<1> QED BY <1>1, <1>3, <1>4 DEF q

\* Concatenation.
LEMMA ConcatQueue ==
  ASSUME NEW S, NEW s \in Seq(S), NEW r \in Seq(S)
  PROVE  /\ s \o r \in Seq(S)
         /\ ToSet(s \o r) = ToSet(s) \cup ToSet(r)
         /\ IsInjective(s) /\ IsInjective(r) /\ ToSet(s) \cap ToSet(r) = {}
              => IsInjective(s \o r)
<1> DEFINE q == s \o r
<1>1. /\ q \in Seq(S) /\ Len(q) = Len(s) + Len(r)
      /\ Len(s) \in Nat /\ Len(r) \in Nat
      /\ \A i \in 1 .. Len(s) : q[i] = s[i]
      /\ \A i \in 1 .. Len(r) : q[Len(s) + i] = r[i]
  BY ConcatProperties
<1>2. DOMAIN q = 1 .. Len(s) + Len(r) /\ DOMAIN s = 1 .. Len(s) /\ DOMAIN r = 1 .. Len(r)
  BY <1>1
<1> HIDE DEF q
<1>3. ASSUME NEW i \in 1 .. Len(s) + Len(r)
      PROVE  \/ i \in 1 .. Len(s) /\ q[i] = s[i]
             \/ \E k \in 1 .. Len(r) : i = Len(s) + k /\ q[i] = r[k]
  <2>1. CASE i \in 1 .. Len(s)
    BY <2>1, <1>1
  <2>2. CASE i \notin 1 .. Len(s)
    <3>1. i - Len(s) \in 1 .. Len(r) /\ i = Len(s) + (i - Len(s))
      BY <2>2, <1>1
    <3> QED BY <3>1, <1>1
  <2> QED BY <2>1, <2>2
<1>4. ToSet(q) = ToSet(s) \cup ToSet(r)
  <2>1. ASSUME NEW x \in ToSet(q) PROVE x \in ToSet(s) \cup ToSet(r)
    <3>1. PICK i \in 1 .. Len(s) + Len(r) : q[i] = x
      BY <2>1, <1>2 DEF ToSet
    <3> QED BY <3>1, <1>3, <1>2 DEF ToSet
  <2>2. ASSUME NEW x \in ToSet(s) PROVE x \in ToSet(q)
    <3>1. PICK i \in 1 .. Len(s) : s[i] = x
      BY <2>2, <1>2 DEF ToSet
    <3>2. i \in DOMAIN q /\ q[i] = x
      BY <3>1, <1>1, <1>2
    <3> QED BY <3>2 DEF ToSet
  <2>3. ASSUME NEW x \in ToSet(r) PROVE x \in ToSet(q)
    <3>1. PICK i \in 1 .. Len(r) : r[i] = x
      BY <2>3, <1>2 DEF ToSet
    <3>2. Len(s) + i \in DOMAIN q /\ q[Len(s) + i] = x
      BY <3>1, <1>1, <1>2
    <3> QED BY <3>2 DEF ToSet
  <2> QED BY <2>1, <2>2, <2>3
<1>5. ASSUME IsInjective(s), IsInjective(r), ToSet(s) \cap ToSet(r) = {}
      PROVE  IsInjective(q)
  <2> SUFFICES ASSUME NEW i \in 1 .. Len(s) + Len(r), NEW j \in 1 .. Len(s) + Len(r),
                      q[i] = q[j]
               PROVE  i = j
    BY <1>2 DEF IsInjective
  <2>1. \A k \in 1 .. Len(s), l \in 1 .. Len(r) : s[k] # r[l]
    BY <1>2, <1>5 DEF ToSet
  <2>2. \A k, l \in 1 .. Len(s) : s[k] = s[l] => k = l
    BY <1>2, <1>5 DEF IsInjective
  <2>3. \A k, l \in 1 .. Len(r) : r[k] = r[l] => k = l
    BY <1>2, <1>5 DEF IsInjective
  <2>4. CASE i \in 1 .. Len(s) /\ q[i] = s[i]
    <3>1. CASE j \in 1 .. Len(s) /\ q[j] = s[j]
      BY <2>2, <2>4, <3>1
    <3>2. CASE \E k \in 1 .. Len(r) : j = Len(s) + k /\ q[j] = r[k]
      BY <2>1, <2>4, <3>2
    <3> QED BY <1>3, <3>1, <3>2
  <2>5. CASE \E k \in 1 .. Len(r) : i = Len(s) + k /\ q[i] = r[k]
    <3>1. CASE j \in 1 .. Len(s) /\ q[j] = s[j]
      BY <2>1, <2>5, <3>1
    <3>2. CASE \E k \in 1 .. Len(r) : j = Len(s) + k /\ q[j] = r[k]
      BY <2>3, <2>5, <3>2
    <3> QED BY <1>3, <3>1, <3>2
  <2> QED BY <1>3, <2>4, <2>5
<1> QED BY <1>1, <1>4, <1>5 DEF q

\* The tail of a queue loses its head.
LEMMA TailQueue ==
  ASSUME NEW S, NEW s \in Seq(S), s # <<>>
  PROVE  /\ Head(s) \in S /\ Head(s) \in ToSet(s) /\ Tail(s) \in Seq(S)
         /\ ToSet(s) = {Head(s)} \cup ToSet(Tail(s))
         /\ IsInjective(s) => IsInjective(Tail(s)) /\ Head(s) \notin ToSet(Tail(s))
<1> DEFINE q == Tail(s)
<1>1. /\ q \in Seq(S) /\ Len(s) \in Nat \ {0} /\ Len(q) = Len(s) - 1
      /\ \A i \in 1 .. Len(q) : q[i] = s[i + 1]
      /\ Head(s) \in S /\ Head(s) = s[1]
  BY HeadTailProperties, EmptySeq
<1>2. DOMAIN q = 1 .. Len(s) - 1 /\ DOMAIN s = 1 .. Len(s)
  BY <1>1
<1> HIDE DEF q
<1>3. Head(s) \in ToSet(s)
  BY <1>1, <1>2 DEF ToSet
<1>4. ASSUME NEW x \in ToSet(q) PROVE x \in ToSet(s)
  <2>1. PICK i \in 1 .. Len(s) - 1 : q[i] = x
    BY <1>4, <1>2 DEF ToSet
  <2>2. i + 1 \in DOMAIN s /\ s[i + 1] = x
    BY <2>1, <1>1, <1>2
  <2> QED BY <2>2 DEF ToSet
<1>5. ASSUME NEW x \in ToSet(s), x # Head(s) PROVE x \in ToSet(q)
  <2>1. PICK i \in 1 .. Len(s) : s[i] = x
    BY <1>5, <1>2 DEF ToSet
  <2>2. i # 1
    BY <2>1, <1>5, <1>1
  <2>3. i - 1 \in DOMAIN q /\ q[i - 1] = x
    BY <2>1, <2>2, <1>1, <1>2
  <2> QED BY <2>3 DEF ToSet
<1>6. ASSUME IsInjective(s) PROVE IsInjective(q) /\ Head(s) \notin ToSet(q)
  <2>1. \A k, l \in 1 .. Len(s) : s[k] = s[l] => k = l
    BY <1>2, <1>6 DEF IsInjective
  <2>2. \A k \in 1 .. Len(s) - 1 : q[k] = s[k + 1] /\ s[k + 1] # s[1]
    BY <1>1, <2>1
  <2>3. \A k, l \in 1 .. Len(s) - 1 : q[k] = q[l] => k = l
    BY <1>1, <2>1
  <2>4. IsInjective(q)
    BY <2>3, <1>2 DEF IsInjective
  <2>5. Head(s) \notin ToSet(q)
    BY <2>2, <1>1, <1>2 DEF ToSet
  <2> QED BY <2>4, <2>5
<1> QED BY <1>1, <1>3, <1>4, <1>5, <1>6 DEF q

\* The positions of a sequence without its i-th element.
LEMMA RemoveAtPositions ==
  ASSUME NEW S, NEW s \in Seq(S), NEW i \in 1 .. Len(s)
  PROVE  /\ RemoveAt(s, i) \in Seq(S) /\ Len(RemoveAt(s, i)) = Len(s) - 1
         /\ \A k \in 1 .. Len(s) - 1 :
              RemoveAt(s, i)[k] = IF k < i THEN s[k] ELSE s[k + 1]
<1> DEFINE q == RemoveAt(s, i)
           a == SubSeq(s, 1, i - 1)
           b == SubSeq(s, i + 1, Len(s))
<1>1. Len(s) \in Nat /\ DOMAIN s = 1 .. Len(s) /\ \A k \in 1 .. Len(s) : s[k] \in S
  BY LenProperties, ElementOfSeq
<1>2. /\ a \in Seq(S) /\ Len(a) = i - 1
      /\ \A k \in 1 .. i - 1 : a[k] = s[k]
  <2>1. 1 \in Int /\ i - 1 \in Int /\ \A k \in 1 .. i - 1 : s[k] \in S
    BY <1>1
  <2> QED BY <2>1, SubSeqProperties, <1>1
<1>3. /\ b \in Seq(S) /\ Len(b) = Len(s) - i
      /\ \A k \in 1 .. Len(s) - i : b[k] = s[k + i]
  <2>1. i + 1 \in Int /\ Len(s) \in Int /\ \A k \in i + 1 .. Len(s) : s[k] \in S
    BY <1>1
  <2> HIDE DEF b
  <2>2. /\ b \in Seq(S) /\ Len(b) = (IF i + 1 <= Len(s) THEN Len(s) - (i + 1) + 1 ELSE 0)
        /\ \A k \in 1 .. Len(s) - (i + 1) + 1 : b[k] = s[i + 1 + k - 1]
    BY <2>1, SubSeqProperties DEF b
  <2>3. Len(b) = Len(s) - i /\ Len(s) - (i + 1) + 1 = Len(s) - i
    <3>1. i \in Nat /\ i <= Len(s) /\ Len(s) \in Nat
      BY <1>1
    <3>2. Len(s) - (i + 1) + 1 = Len(s) - i
      BY <3>1
    <3>3. Len(b) = (IF i + 1 <= Len(s) THEN Len(s) - i ELSE 0)
      BY <2>2, <3>2
    <3>4. ~(i + 1 <= Len(s)) => Len(s) - i = 0
      BY <3>1
    <3> QED BY <3>2, <3>3, <3>4
  <2>4. ASSUME NEW k \in 1 .. Len(s) - i PROVE b[k] = s[k + i]
    <3>1. i + 1 + k - 1 = k + i
      BY <1>1
    <3> QED BY <2>2, <2>3, <3>1
  <2> QED BY <2>2, <2>3, <2>4
<1> HIDE DEF a, b
<1>4. q = a \o b
  BY DEF q, RemoveAt, a, b
<1> HIDE DEF q
<1>5. /\ q \in Seq(S) /\ Len(q) = Len(s) - 1
      /\ \A k \in 1 .. Len(s) - 1 : q[k] = IF k < i THEN s[k] ELSE s[k + 1]
  <2>0. /\ q \in Seq(S) /\ Len(q) = Len(a) + Len(b)
        /\ \A k \in 1 .. Len(a) + Len(b) : q[k] = IF k <= Len(a) THEN a[k] ELSE b[k - Len(a)]
    BY <1>2, <1>3, <1>4, ConcatProperties
  <2>1. /\ q \in Seq(S) /\ Len(q) = Len(s) - 1
        /\ \A k \in 1 .. Len(s) - 1 : q[k] = IF k <= i - 1 THEN a[k] ELSE b[k - (i - 1)]
    <3>1. Len(a) + Len(b) = Len(s) - 1
      BY <1>1, <1>2, <1>3
    <3> QED BY <2>0, <3>1, <1>2
  <2>2. ASSUME NEW k \in 1 .. Len(s) - 1
        PROVE  q[k] = IF k < i THEN s[k] ELSE s[k + 1]
    <3>1. CASE k < i
      BY <3>1, <2>1, <1>1, <1>2
    <3>2. CASE ~ k < i
      <4>1. k - (i - 1) \in 1 .. Len(s) - i /\ k - (i - 1) + i = k + 1
        BY <3>2, <1>1
      <4>2. b[k - (i - 1)] = s[k + 1]
        BY <4>1, <1>3
      <4> QED BY <3>2, <4>2, <2>1, <1>1
    <3> QED BY <3>1, <3>2
  <2> QED BY <2>1, <2>2, <1>1
<1> QED BY <1>5 DEF q

\* A queue without its i-th element has all the others.
LEMMA RemoveAtQueue ==
  ASSUME NEW S, NEW s \in Seq(S), NEW i \in 1 .. Len(s)
  PROVE  /\ RemoveAt(s, i) \in Seq(S)
         /\ ToSet(RemoveAt(s, i)) \subseteq ToSet(s)
         /\ IsInjective(s) => /\ IsInjective(RemoveAt(s, i))
                              /\ ToSet(RemoveAt(s, i)) = ToSet(s) \ {s[i]}
<1> DEFINE q == RemoveAt(s, i)
<1>1. Len(s) \in Nat /\ DOMAIN s = 1 .. Len(s)
  BY LenProperties
<1>2. /\ q \in Seq(S) /\ Len(q) = Len(s) - 1
      /\ \A k \in 1 .. Len(s) - 1 : q[k] = IF k < i THEN s[k] ELSE s[k + 1]
  BY RemoveAtPositions
<1> HIDE DEF q
<1>3. DOMAIN q = 1 .. Len(s) - 1
  BY <1>2, <1>1
<1>4. ASSUME NEW x \in ToSet(q) PROVE \E k \in 1 .. Len(s) : k # i /\ s[k] = x
  <2>1. PICK k \in 1 .. Len(s) - 1 : q[k] = x
    BY <1>4, <1>3 DEF ToSet
  <2>2. CASE k < i
    BY <2>1, <2>2, <1>2, <1>1
  <2>3. CASE ~ k < i
    <3>1. k + 1 \in 1 .. Len(s) /\ k + 1 # i /\ s[k + 1] = x
      BY <2>1, <2>3, <1>2, <1>1
    <3> QED BY <3>1
  <2> QED BY <2>2, <2>3
<1>5. ASSUME NEW x \in ToSet(s), x # s[i] PROVE x \in ToSet(q)
  <2>1. PICK k \in 1 .. Len(s) : s[k] = x
    BY <1>5, <1>1 DEF ToSet
  <2>2. CASE k < i
    <3>1. k \in DOMAIN q /\ q[k] = x
      BY <2>1, <2>2, <1>2, <1>3, <1>1
    <3> QED BY <3>1 DEF ToSet
  <2>3. CASE k > i
    <3>1. k - 1 \in DOMAIN q /\ q[k - 1] = x
      BY <2>1, <2>3, <1>2, <1>3, <1>1
    <3> QED BY <3>1 DEF ToSet
  <2> QED BY <2>1, <2>2, <2>3, <1>5, <1>1
<1>6. ASSUME IsInjective(s) PROVE IsInjective(q) /\ s[i] \notin ToSet(q)
  <2>1. \A k, l \in 1 .. Len(s) : s[k] = s[l] => k = l
    BY <1>1, <1>6 DEF IsInjective
  <2>2. ASSUME NEW k \in 1 .. Len(s) - 1, NEW l \in 1 .. Len(s) - 1, q[k] = q[l]
        PROVE  k = l
    BY <2>1, <2>2, <1>2, <1>1
  <2>3. IsInjective(q)
    BY <2>2, <1>3 DEF IsInjective
  <2>4. s[i] \notin ToSet(q)
    BY <1>4, <2>1
  <2> QED BY <2>3, <2>4
<1>7. ToSet(q) \subseteq ToSet(s)
  BY <1>4, <1>1 DEF ToSet
<1> QED BY <1>2, <1>5, <1>6, <1>7 DEF q

-----------------------------------------------------------------------------
(* Queues in an order, which is a set R of pairs *)

OrderedBy(s, R) == \A i, j \in 1 .. Len(s) : i < j => <<s[i], s[j]>> \in R

\* A queue of one element, or of none, is in any order.
LEMMA ShortIsOrdered ==
  ASSUME NEW R, NEW e
  PROVE  OrderedBy(<<>>, R) /\ OrderedBy(<<e>>, R)
  BY DEF OrderedBy

\* A queue in an order is in any wider one.
LEMMA WiderOrder ==
  ASSUME NEW S, NEW s \in Seq(S), NEW R, NEW Q, OrderedBy(s, R),
         \A x, y \in ToSet(s) : <<x, y>> \in R => <<x, y>> \in Q
  PROVE  OrderedBy(s, Q)
  BY ToSetInSet DEF OrderedBy

\* Appending an element that comes after all the others.
LEMMA AppendOrdered ==
  ASSUME NEW S, NEW s \in Seq(S), NEW e \in S, NEW R, OrderedBy(s, R),
         \A x \in ToSet(s) : <<x, e>> \in R
  PROVE  OrderedBy(Append(s, e), R)
<1>1. /\ Len(Append(s, e)) = Len(s) + 1 /\ Len(s) \in Nat
      /\ \A i \in 1 .. Len(s) : Append(s, e)[i] = s[i]
      /\ Append(s, e)[Len(s) + 1] = e
  BY AppendProperties
<1>2. \A i \in 1 .. Len(s) : <<s[i], e>> \in R
  BY ToSetInSet
<1> QED BY <1>1, <1>2 DEF OrderedBy

\* Two queues in the order, the first all before the second.
LEMMA ConcatOrdered ==
  ASSUME NEW S, NEW s \in Seq(S), NEW r \in Seq(S), NEW R,
         OrderedBy(s, R), OrderedBy(r, R),
         \A x \in ToSet(s), y \in ToSet(r) : <<x, y>> \in R
  PROVE  OrderedBy(s \o r, R)
<1> DEFINE q == s \o r
<1>1. /\ Len(q) = Len(s) + Len(r) /\ Len(s) \in Nat /\ Len(r) \in Nat
      /\ \A i \in 1 .. Len(s) : q[i] = s[i]
      /\ \A i \in 1 .. Len(r) : q[Len(s) + i] = r[i]
  BY ConcatProperties
<1> HIDE DEF q
<1>2. \A i \in 1 .. Len(s), j \in 1 .. Len(r) : <<s[i], r[j]>> \in R
  BY ToSetInSet
<1>3. \A i \in 1 .. Len(q) : i \notin 1 .. Len(s) =>
        i - Len(s) \in 1 .. Len(r) /\ q[i] = r[i - Len(s)]
  <2> SUFFICES ASSUME NEW i \in 1 .. Len(q), i \notin 1 .. Len(s)
               PROVE  i - Len(s) \in 1 .. Len(r) /\ q[i] = r[i - Len(s)]
    OBVIOUS
  <2>1. i - Len(s) \in 1 .. Len(r) /\ Len(s) + (i - Len(s)) = i
    BY <1>1
  <2> QED BY <1>1, <2>1
<1>4. ASSUME NEW i \in 1 .. Len(q), NEW j \in 1 .. Len(q), i < j
      PROVE  <<q[i], q[j]>> \in R
  <2>1. CASE i \in 1 .. Len(s) /\ j \in 1 .. Len(s)
    BY <1>1, <1>4, <2>1 DEF OrderedBy
  <2>2. CASE i \in 1 .. Len(s) /\ j \notin 1 .. Len(s)
    BY <1>1, <1>2, <1>3, <2>2
  <2>3. CASE i \notin 1 .. Len(s)
    <3>1. j \notin 1 .. Len(s) /\ i - Len(s) < j - Len(s)
      BY <1>1, <1>4, <2>3
    <3> QED BY <1>3, <2>3, <3>1 DEF OrderedBy
  <2> QED BY <2>1, <2>2, <2>3
<1> QED BY <1>4 DEF OrderedBy, q

\* The head of a queue in the order comes before the rest, which is in the order.
LEMMA TailOrdered ==
  ASSUME NEW S, NEW s \in Seq(S), s # <<>>, NEW R, OrderedBy(s, R)
  PROVE  /\ OrderedBy(Tail(s), R)
         /\ \A x \in ToSet(s) : x = Head(s) \/ <<Head(s), x>> \in R
<1>1. /\ Tail(s) \in Seq(S) /\ Len(s) \in Nat \ {0} /\ Len(Tail(s)) = Len(s) - 1
      /\ \A i \in 1 .. Len(Tail(s)) : Tail(s)[i] = s[i + 1]
      /\ Head(s) = s[1]
  BY HeadTailProperties, EmptySeq
<1>2. OrderedBy(Tail(s), R)
  BY <1>1 DEF OrderedBy
<1>3. ASSUME NEW x \in ToSet(s), x # Head(s) PROVE <<Head(s), x>> \in R
  <2>1. PICK i \in 1 .. Len(s) : s[i] = x
    BY ToSetInSet
  <2> QED BY <1>1, <1>3, <2>1 DEF OrderedBy
<1> QED BY <1>2, <1>3

\* Taking an element out leaves the others in the order.
LEMMA RemoveAtOrdered ==
  ASSUME NEW S, NEW s \in Seq(S), NEW i \in 1 .. Len(s), NEW R, OrderedBy(s, R)
  PROVE  OrderedBy(RemoveAt(s, i), R)
<1> DEFINE q == RemoveAt(s, i)
<1>1. /\ Len(q) = Len(s) - 1 /\ Len(s) \in Nat
      /\ \A k \in 1 .. Len(s) - 1 : q[k] = IF k < i THEN s[k] ELSE s[k + 1]
  BY RemoveAtPositions, LenProperties
<1> HIDE DEF q
<1>2. ASSUME NEW k \in 1 .. Len(s) - 1, NEW l \in 1 .. Len(s) - 1, k < l
      PROVE  <<q[k], q[l]>> \in R
  <2>1. PICK m \in 1 .. Len(s), n \in 1 .. Len(s) : m < n /\ q[k] = s[m] /\ q[l] = s[n]
    <3>1. CASE k < i /\ l < i
      BY <1>1, <1>2, <3>1
    <3>2. CASE k < i /\ ~(l < i)
      <4>1. k \in 1 .. Len(s) /\ l + 1 \in 1 .. Len(s) /\ k < l + 1
        BY <1>1, <1>2
      <4> QED BY <1>1, <3>2, <4>1
    <3>3. CASE ~(k < i)
      <4>1. k + 1 \in 1 .. Len(s) /\ l + 1 \in 1 .. Len(s) /\ k + 1 < l + 1 /\ ~(l < i)
        BY <1>1, <1>2, <3>3
      <4> QED BY <1>1, <3>3, <4>1
    <3> QED BY <3>1, <3>2, <3>3
  <2> QED BY <2>1 DEF OrderedBy
<1> QED BY <1>1, <1>2 DEF OrderedBy, q
=============================================================================
