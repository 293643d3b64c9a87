---------------------------- MODULE SequenceFacts ----------------------------
(***************************************************************************)
(* What the waiting lists of the models rest on: a list is a sequence that *)
(* names nobody twice, in which callers queue at the end, are taken from   *)
(* the front, and are taken out of the middle when they give up.           *)
(***************************************************************************)
EXTENDS SequencesExt, SequenceTheorems, FiniteSetTheorems, WellFoundedInduction, TLAPS

(* s names nobody twice.                                                   *)
Once(s) == \A i, j \in 1 .. Len(s) : s[i] = s[j] => i = j

(* Nobody is in the empty list.                                            *)
LEMMA EmptyFacts == Once(<<>>) /\ \A x : ~Contains(<<>>, x)
  BY DEF Once, Contains

(* A set of positions has a first one.                                     *)
LEMMA FirstPosition ==
    ASSUME NEW I \in SUBSET Nat, I # {}
    PROVE  Min(I) \in I /\ \A j \in I : Min(I) <= j
<1>. DEFINE less == {ss \in Nat \X Nat : ss[1] < ss[2]}
<1>1. IsWellFoundedOn(less, Nat)
  BY NatLessThanWellFounded DEF OpToRel
<1>. HIDE DEF less
<1>2. PICK m \in I : \A j \in I : ~(<<j, m>> \in less)
  BY <1>1, WFMin
<1>. USE DEF less
<1>3. ASSUME NEW j \in I, ~(m <= j)
       PROVE  FALSE
  <2>1. j \in Nat /\ m \in Nat /\ j < m
    BY <1>3
  <2>. DEFINE pair == <<j, m>>
  <2>2. pair \in Nat \X Nat /\ pair[1] = j /\ pair[2] = m
    BY <2>1
  <2>3. pair \in less
    BY <2>1, <2>2
  <2>. QED
    BY <1>2, <2>3
<1>. QED
  BY <1>3 DEF Min

(* Who is at the end of a list, and who else is in it                      *)
LEMMA AppendFacts ==
    ASSUME NEW S, NEW s \in Seq(S), NEW e \in S
    PROVE  /\ Append(s, e) \in Seq(S)
           /\ Len(Append(s, e)) = Len(s) + 1
           /\ \A x : Contains(Append(s, e), x) <=> Contains(s, x) \/ x = e
           /\ Once(s) /\ ~Contains(s, e) => Once(Append(s, e))
<1>1. /\ Append(s, e) \in Seq(S)
      /\ Len(Append(s, e)) = Len(s) + 1
      /\ \A i \in 1 .. Len(s) : Append(s, e)[i] = s[i]
      /\ Append(s, e)[Len(s) + 1] = e
  BY AppendProperties
<1>2. ASSUME NEW x
       PROVE  Contains(Append(s, e), x) <=> Contains(s, x) \/ x = e
  BY <1>1 DEF Contains
<1>3. Once(s) /\ ~Contains(s, e) => Once(Append(s, e))
  BY <1>1 DEF Once, Contains
<1>. QED
  BY <1>1, <1>2, <1>3

(* Who is first in a list, and who stays when it is taken out              *)
LEMMA TailFacts ==
    ASSUME NEW S, NEW s \in Seq(S), s # <<>>
    PROVE  /\ Head(s) \in S /\ Head(s) = s[1]
           /\ Tail(s) \in Seq(S)
           /\ Len(Tail(s)) = Len(s) - 1 /\ Len(s) > 0
           /\ \A x : Contains(s, x) <=> Contains(Tail(s), x) \/ x = Head(s)
           /\ Once(s) => Once(Tail(s)) /\ ~Contains(Tail(s), Head(s))
<1>1. /\ Head(s) \in S /\ Head(s) = s[1]
      /\ Tail(s) \in Seq(S)
      /\ Len(s) \in Nat \ {0}
      /\ Len(Tail(s)) = Len(s) - 1
      /\ \A i \in 1 .. Len(Tail(s)) : Tail(s)[i] = s[i + 1]
  BY HeadTailProperties, EmptySeq
<1>2. ASSUME NEW x
       PROVE  Contains(s, x) <=> Contains(Tail(s), x) \/ x = Head(s)
  <2>1. ASSUME NEW i \in 1 .. Len(s), s[i] = x
         PROVE  Contains(Tail(s), x) \/ x = Head(s)
    <3>1. CASE i = 1
      BY <1>1, <2>1, <3>1
    <3>2. CASE i # 1
      <4>1. i - 1 \in 1 .. Len(Tail(s)) /\ (i - 1) + 1 = i
        BY <1>1, <3>2
      <4>. QED
        BY <1>1, <2>1, <4>1 DEF Contains
    <3>. QED
      BY <3>1, <3>2
  <2>2. Contains(Tail(s), x) \/ x = Head(s) => Contains(s, x)
    BY <1>1 DEF Contains
  <2>. QED
    BY <2>1, <2>2 DEF Contains
<1>3. Once(s) => Once(Tail(s)) /\ ~Contains(Tail(s), Head(s))
  BY <1>1 DEF Once, Contains
<1>. QED
  BY <1>1, <1>2, <1>3

(* A list without what stands at one place                                 *)
LEMMA RemovedAt ==
    ASSUME NEW S, NEW s \in Seq(S), NEW m \in 1 .. Len(s)
    PROVE  /\ RemoveAt(s, m) \in Seq(S) /\ Len(RemoveAt(s, m)) = Len(s) - 1
           /\ \A i \in 1 .. Len(s) - 1 : RemoveAt(s, m)[i] = IF i <= m - 1 THEN s[i] ELSE s[i + 1]
<1>. DEFINE a == SubSeq(s, 1, m - 1)
            b == SubSeq(s, m + 1, Len(s))
<1>1. Len(s) \in Nat /\ \A i \in 1 .. Len(s) : s[i] \in S
  BY LenProperties
<1>2. a \in Seq(S) /\ Len(a) = m - 1 /\ \A i \in 1 .. m - 1 : a[i] = s[i]
  BY <1>1, SubSeqProperties
<1>3. b \in Seq(S) /\ Len(b) = Len(s) - m /\ \A i \in 1 .. Len(s) - m : b[i] = s[i + m]
  BY <1>1, SubSeqProperties
<1>4. RemoveAt(s, m) = a \o b
  BY DEF RemoveAt
<1>5. /\ a \o b \in Seq(S) /\ Len(a \o b) = Len(a) + Len(b)
      /\ \A i \in 1 .. Len(a) + Len(b) : (a \o b)[i] = IF i <= Len(a) THEN a[i] ELSE b[i - Len(a)]
  BY <1>2, <1>3, ConcatProperties
<1>. HIDE DEF a, b
<1>6. Len(a) + Len(b) = Len(s) - 1
  BY <1>1, <1>2, <1>3
<1>7. ASSUME NEW i \in 1 .. Len(s) - 1
       PROVE  (a \o b)[i] = IF i <= m - 1 THEN s[i] ELSE s[i + 1]
  <2>1. CASE i <= m - 1
    BY <1>1, <1>2, <1>5, <1>6, <2>1
  <2>2. CASE ~(i <= m - 1)
    <3>1. PICK k \in 1 .. Len(s) - m : k = i - (m - 1) /\ k + m = i + 1
      BY <1>1, <2>2
    <3>2. b[k] = s[i + 1]
      BY <1>3, <3>1
    <3>3. (a \o b)[i] = b[k]
      BY <1>1, <1>2, <1>5, <1>6, <2>2, <3>1
    <3>. QED
      BY <2>2, <3>2, <3>3
  <2>. QED
    BY <2>1, <2>2
<1>. QED
  BY <1>4, <1>5, <1>6, <1>7

(* The first place where somebody stands                                   *)
LEMMA FirstPlace ==
    ASSUME NEW s, Len(s) \in Nat, NEW e, Contains(s, e)
    PROVE  /\ {i \in 1 .. Len(s) : s[i] = e} # {}
           /\ Min({i \in 1 .. Len(s) : s[i] = e}) \in {i \in 1 .. Len(s) : s[i] = e}
           /\ RemoveFirst(s, e) = RemoveAt(s, Min({i \in 1 .. Len(s) : s[i] = e}))
<1>. DEFINE I == {i \in 1 .. Len(s) : s[i] = e}
<1>1. I \in SUBSET Nat /\ I # {}
  BY DEF Contains
<1>2. Min(I) \in I
  BY <1>1, FirstPosition
<1>3. RemoveFirst(s, e) = RemoveAt(s, Min(I))
  BY <1>1 DEF RemoveFirst, SelectInSeq
<1>. QED
  BY <1>1, <1>2, <1>3

(* What stands at one place only is first there.                           *)
LEMMA OnlyPlace ==
    ASSUME NEW S, NEW s \in Seq(S), NEW m \in 1 .. Len(s),
           \A i \in 1 .. Len(s) : s[i] = s[m] => i = m
    PROVE  RemoveAt(s, m) = RemoveFirst(s, s[m])
<1>1. Len(s) \in Nat /\ Contains(s, s[m])
  BY LenProperties DEF Contains
<1>. DEFINE k == Min({i \in 1 .. Len(s) : s[i] = s[m]})
<1>. HIDE DEF k
<1>2. k \in {i \in 1 .. Len(s) : s[i] = s[m]} /\ RemoveFirst(s, s[m]) = RemoveAt(s, k)
  BY <1>1, FirstPlace DEF k
<1>3. k = m
  BY <1>2
<1>. QED
  BY <1>2, <1>3

(* Who gives up is out of the list, the others stay where they are.        *)
LEMMA RemoveFacts ==
    ASSUME NEW S, NEW s \in Seq(S), NEW e
    PROVE  /\ RemoveFirst(s, e) \in Seq(S)
           /\ ~Contains(s, e) => RemoveFirst(s, e) = s
           /\ Contains(s, e) => Len(RemoveFirst(s, e)) = Len(s) - 1
           /\ \A x : x # e => (Contains(RemoveFirst(s, e), x) <=> Contains(s, x))
           /\ Once(s) => Once(RemoveFirst(s, e)) /\ ~Contains(RemoveFirst(s, e), e)
<1>1. CASE ~Contains(s, e)
  BY <1>1 DEF RemoveFirst, Contains
<1>2. CASE Contains(s, e)
  <2>. DEFINE m == Min({i \in 1 .. Len(s) : s[i] = e})
              r == RemoveFirst(s, e)
  <2>3. m \in 1 .. Len(s) /\ s[m] = e /\ r = RemoveAt(s, m)
    BY <1>2, FirstPlace, LenProperties
  <2>. HIDE DEF r, m
  <2>4. m \in 1 .. Len(s) /\ s[m] = e /\ Len(s) \in Nat
    BY <2>3
  <2>8. /\ r \in Seq(S) /\ Len(r) = Len(s) - 1
        /\ \A i \in 1 .. Len(s) - 1 : r[i] = IF i <= m - 1 THEN s[i] ELSE s[i + 1]
    BY <2>3, RemovedAt
  <2>9. ASSUME NEW x, x # e
         PROVE  Contains(r, x) <=> Contains(s, x)
    <3>1. ASSUME NEW i \in 1 .. Len(s), s[i] = x
           PROVE  Contains(r, x)
      <4>1. i # m
        BY <2>4, <2>9, <3>1
      <4>2. CASE i < m
        <5>1. i \in 1 .. Len(s) - 1 /\ i <= m - 1
          BY <2>4, <4>2
        <5>. QED
          BY <2>8, <3>1, <5>1 DEF Contains
      <4>3. CASE i > m
        <5>1. i - 1 \in 1 .. Len(s) - 1 /\ ~(i - 1 <= m - 1) /\ (i - 1) + 1 = i
          BY <2>4, <4>3
        <5>. QED
          BY <2>8, <3>1, <5>1 DEF Contains
      <4>. QED
        BY <2>4, <4>1, <4>2, <4>3
    <3>2. ASSUME NEW i \in 1 .. Len(r), r[i] = x
           PROVE  Contains(s, x)
      BY <2>4, <2>8, <3>2 DEF Contains
    <3>. QED
      BY <3>1, <3>2 DEF Contains
  <2>10. ASSUME Once(s)
         PROVE  Once(r) /\ ~Contains(r, e)
    <3>1. Once(r)
      BY <2>4, <2>8, <2>10 DEF Once
    <3>2. ~Contains(r, e)
      BY <2>4, <2>8, <2>10 DEF Once, Contains
    <3>. QED
      BY <3>1, <3>2
  <2>. QED
    BY <1>2, <2>8, <2>9, <2>10 DEF r
<1>. QED
  BY <1>1, <1>2

(* One list after another                                                  *)
LEMMA ConcatFacts ==
    ASSUME NEW S, NEW s \in Seq(S), NEW t \in Seq(S)
    PROVE  /\ s \o t \in Seq(S)
           /\ \A x : Contains(s \o t, x) <=> Contains(s, x) \/ Contains(t, x)
<1>1. /\ s \o t \in Seq(S) /\ Len(s \o t) = Len(s) + Len(t)
      /\ \A i \in 1 .. Len(s) + Len(t) : (s \o t)[i] = IF i <= Len(s) THEN s[i] ELSE t[i - Len(s)]
  BY ConcatProperties
<1>2. Len(s) \in Nat /\ Len(t) \in Nat
  BY LenProperties
<1>3. ASSUME NEW x, Contains(s, x)
       PROVE  Contains(s \o t, x)
  <2>1. PICK i \in 1 .. Len(s) : s[i] = x
    BY <1>3 DEF Contains
  <2>2. i \in 1 .. Len(s) + Len(t) /\ (s \o t)[i] = x
    BY <1>1, <1>2, <2>1
  <2>. QED
    BY <1>1, <2>2 DEF Contains
<1>4. ASSUME NEW x, Contains(t, x)
       PROVE  Contains(s \o t, x)
  <2>1. PICK i \in 1 .. Len(t) : t[i] = x
    BY <1>4 DEF Contains
  <2>2. /\ i + Len(s) \in 1 .. Len(s) + Len(t) /\ ~(i + Len(s) <= Len(s))
        /\ (i + Len(s)) - Len(s) = i
    BY <1>2
  <2>3. (s \o t)[i + Len(s)] = x
    BY <1>1, <2>1, <2>2
  <2>. QED
    BY <1>1, <2>2, <2>3 DEF Contains
<1>5. ASSUME NEW x, Contains(s \o t, x)
       PROVE  Contains(s, x) \/ Contains(t, x)
  <2>1. PICK i \in 1 .. Len(s) + Len(t) : (s \o t)[i] = x
    BY <1>1, <1>5 DEF Contains
  <2>2. CASE i <= Len(s)
    BY <1>1, <1>2, <2>1, <2>2 DEF Contains
  <2>3. CASE ~(i <= Len(s))
    <3>1. i - Len(s) \in 1 .. Len(t) /\ t[i - Len(s)] = x
      BY <1>1, <1>2, <2>1, <2>3
    <3>. QED
      BY <3>1 DEF Contains
  <2>. QED
    BY <2>2, <2>3
<1>. QED
  BY <1>1, <1>3, <1>4, <1>5

(* A list of some is a list of more.                                       *)
LEMMA Widened ==
    ASSUME NEW S, NEW T, S \subseteq T, NEW s \in Seq(S)
    PROVE  s \in Seq(T)
<1>1. s \in [1 .. Len(s) -> S] /\ Len(s) \in Nat
  BY LenProperties
<1>2. s \in [1 .. Len(s) -> T]
  BY <1>1
<1>. QED
  BY <1>1, <1>2, SeqDef

(* Two lists behind each other name nobody twice if they share nobody.     *)
LEMMA ConcatOnce ==
    ASSUME NEW S, NEW s \in Seq(S), NEW t \in Seq(S), Once(s), Once(t),
           \A x : ~(Contains(s, x) /\ Contains(t, x))
    PROVE  Once(s \o t)
<1>1. /\ Len(s \o t) = Len(s) + Len(t)
      /\ \A i \in 1 .. Len(s) + Len(t) : (s \o t)[i] = IF i <= Len(s) THEN s[i] ELSE t[i - Len(s)]
  BY ConcatProperties
<1>2. Len(s) \in Nat /\ Len(t) \in Nat
  BY LenProperties
<1>3. \A i \in 1 .. Len(s) + Len(t) : ~(i <= Len(s)) => i - Len(s) \in 1 .. Len(t)
  BY <1>2
<1>4. \A i \in 1 .. Len(s) + Len(t) : i <= Len(s) => i \in 1 .. Len(s)
  BY <1>2
<1>5. ASSUME NEW i \in 1 .. Len(s) + Len(t), NEW j \in 1 .. Len(s) + Len(t),
             (s \o t)[i] = (s \o t)[j]
      PROVE  i = j
  <2>1. CASE i <= Len(s) /\ j <= Len(s)
    BY <1>1, <1>4, <1>5, <2>1 DEF Once
  <2>2. CASE ~(i <= Len(s)) /\ ~(j <= Len(s))
    <3>1. i - Len(s) = j - Len(s)
      BY <1>1, <1>3, <1>5, <2>2 DEF Once
    <3>. QED
      BY <1>2, <3>1
  <2>3. CASE i <= Len(s) /\ ~(j <= Len(s))
    <3>1. Contains(s, s[i]) /\ Contains(t, s[i])
      BY <1>1, <1>3, <1>4, <1>5, <2>3 DEF Contains
    <3>. QED
      BY <3>1
  <2>4. CASE ~(i <= Len(s)) /\ j <= Len(s)
    <3>1. Contains(s, s[j]) /\ Contains(t, s[j])
      BY <1>1, <1>3, <1>4, <1>5, <2>4 DEF Contains
    <3>. QED
      BY <3>1
  <2>. QED
    BY <2>1, <2>2, <2>3, <2>4
<1>. QED
  BY <1>1, <1>5 DEF Once

(* Who is in a list, said with its range                                   *)
LEMMA RangeMembers ==
    ASSUME NEW S, NEW s \in Seq(S)
    PROVE  \A x : x \in Range(s) <=> Contains(s, x)
<1>1. DOMAIN s = 1 .. Len(s)
  BY LenProperties
<1>. QED
  BY <1>1 DEF Range, Contains

(* A list of a set names each of its members, once.                        *)
LEMMA Enumerates ==
    ASSUME NEW S, IsFiniteSet(S), NEW s \in SetToSeqs(S)
    PROVE  /\ s \in Seq(S) /\ Once(s)
           /\ \A x : Contains(s, x) <=> x \in S
<1>. DEFINE n == Cardinality(S)
<1>1. n \in Nat
  BY FS_CardinalityType
<1>2. s \in [1 .. n -> S] /\ \A i, j \in 1 .. n : i # j => s[i] # s[j]
  BY DEF SetToSeqs
<1>3. s \in Seq(S) /\ Len(s) = n
  BY <1>1, <1>2, SeqDef, LenProperties
<1>4. Once(s)
  BY <1>2, <1>3 DEF Once
<1>5. s \in Surjection(1 .. n, S)
  <2>1. s \in Injection(1 .. n, S)
    BY <1>2 DEF Injection, IsInjective
  <2>2. Cardinality(1 .. n) = n
    BY <1>1, FS_Interval
  <2>. QED
    BY <2>1, <2>2, FS_Injection
<1>6. \A x : Contains(s, x) <=> x \in S
  BY <1>2, <1>3, <1>5 DEF Surjection, Contains
<1>. QED
  BY <1>3, <1>4, <1>6

(* A finite set has such a list, and SetToSeq is one.                      *)
LEMMA SomeEnumeration ==
    ASSUME NEW S, IsFiniteSet(S)
    PROVE  SetToSeq(S) \in SetToSeqs(S)
<1>. DEFINE n == Cardinality(S)
<1>1. PICK f \in [1 .. n -> S] : IsInjective(f)
  BY FS_CardinalityType DEF ExistsBijection, Bijection, Injection
<1>2. SetToSeq(S) \in [1 .. n -> S] /\ IsInjective(SetToSeq(S))
  BY <1>1 DEF SetToSeq
<1>. QED
  BY <1>2 DEF SetToSeqs, IsInjective

=============================================================================
