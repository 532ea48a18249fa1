---------------------------- MODULE SequenceCounts -----------------------------
(***************************************************************************)
(* How often a sequence has elements of a set, and what the operations on  *)
(* sequences do to that number.  Reference counts and "is in one place"    *)
(* are statements about it.                                                *)
(***************************************************************************)
EXTENDS Integers, Sequences, FiniteSets, SequenceTheorems, FiniteSetTheorems, FunctionTheorems, Sublists,
        WellFoundedInduction, TLAPS

\* What CHOOSE of a first or least one relies on.
LEMMA FirstExists ==
    ASSUME NEW A, A \subseteq Nat, A # {}
    PROVE  \E i \in A : \A j \in A : i <= j
<1>1. PICK i \in A : \A j \in A : <<j, i>> \notin OpToRel(<, Nat)
  BY NatLessThanWellFounded, WFMin
<1>2. \A j \in A : ~(j < i)
  BY <1>1 DEF OpToRel
<1>3. \A j \in A : i <= j
  BY <1>2
<1> QED
  BY <1>3

LEMMA DisjointUnion ==
    ASSUME NEW A, NEW B, IsFiniteSet(A), IsFiniteSet(B), A \cap B = {}
    PROVE  /\ IsFiniteSet(A \cup B) /\ Cardinality(A \cup B) = Cardinality(A) + Cardinality(B)
           /\ Cardinality(A) \in Nat /\ Cardinality(B) \in Nat
<1>1. IsFiniteSet(A \cup B) /\ Cardinality(A \cup B) = Cardinality(A) + Cardinality(B) - Cardinality(A \cap B)
  BY FS_Union
<1>2. Cardinality(A \cap B) = 0
  BY FS_EmptySet
<1>3. Cardinality(A) \in Nat /\ Cardinality(B) \in Nat
  BY FS_CardinalityType
<1> QED
  BY <1>1, <1>2, <1>3

At(s, W) == {i \in 1..Len(s) : s[i] \in W}
Count(s, W) == Cardinality(At(s, W))

LEMMA CountType ==
    ASSUME NEW S, NEW s \in Seq(S), NEW W
    PROVE  IsFiniteSet(At(s, W)) /\ Count(s, W) \in Nat
<1>1. Len(s) \in Nat /\ IsFiniteSet(1..Len(s))
  BY LenProperties, FS_Interval
<1>2. At(s, W) \subseteq 1..Len(s)
  BY DEF At
<1> QED
  BY <1>1, <1>2, FS_Subset, FS_CardinalityType DEF Count

\* A sequence has one of W exactly if the number is not 0.
LEMMA CountPositive ==
    ASSUME NEW S, NEW s \in Seq(S), NEW W
    PROVE  Count(s, W) > 0 <=> \E i \in 1..Len(s) : s[i] \in W
<1>1. IsFiniteSet(At(s, W)) /\ Count(s, W) \in Nat
  BY CountType
<1>2. Count(s, W) = 0 <=> At(s, W) = {}
  BY <1>1, FS_EmptySet DEF Count
<1> QED
  BY <1>1, <1>2 DEF At

LEMMA CountEmpty == \A W : Count(<<>>, W) = 0
<1> SUFFICES ASSUME NEW W PROVE Count(<<>>, W) = 0
  OBVIOUS
<1>1. At(<<>>, W) = {}
  BY DEF At
<1> QED
  BY <1>1, FS_EmptySet DEF Count

LEMMA CountSingle == \A x, W : Count(<<x>>, W) = IF x \in W THEN 1 ELSE 0
<1> SUFFICES ASSUME NEW x, NEW W PROVE Count(<<x>>, W) = IF x \in W THEN 1 ELSE 0
  OBVIOUS
<1>1. Len(<<x>>) = 1 /\ <<x>>[1] = x
  OBVIOUS
<1>2. CASE x \in W
  <2>1. At(<<x>>, W) = {1}
    BY <1>1, <1>2 DEF At
  <2> QED
    BY <1>2, <2>1, FS_Singleton DEF Count
<1>3. CASE x \notin W
  <2>1. At(<<x>>, W) = {}
    BY <1>1, <1>3 DEF At
  <2> QED
    BY <1>3, <2>1, FS_EmptySet DEF Count
<1> QED
  BY <1>2, <1>3

LEMMA CountConcat ==
    ASSUME NEW S, NEW s \in Seq(S), NEW u \in Seq(S), NEW W
    PROVE  Count(s \o u, W) = Count(s, W) + Count(u, W)
<1> DEFINE A == At(s, W)
           B == At(u, W)
           shift == [i \in B |-> i + Len(s)]
           C == {i \in Len(s) + 1 .. Len(s) + Len(u) : i - Len(s) \in B}
<1>1. /\ Len(s) \in Nat /\ Len(u) \in Nat /\ Len(s \o u) = Len(s) + Len(u)
      /\ \A i \in 1..Len(s) + Len(u) :
             (s \o u)[i] = IF i <= Len(s) THEN s[i] ELSE u[i - Len(s)]
  BY LenProperties, ConcatProperties
<1>2. IsFiniteSet(A) /\ IsFiniteSet(B)
  BY CountType
<1>3. At(s \o u, W) = A \cup C
  <2>1. ASSUME NEW i \in At(s \o u, W) PROVE i \in A \cup C
    BY <1>1, <2>1 DEF At
  <2>2. ASSUME NEW i \in A PROVE i \in At(s \o u, W)
    BY <1>1, <2>2 DEF At
  <2>3. ASSUME NEW i \in C PROVE i \in At(s \o u, W)
    BY <1>1, <2>3 DEF At
  <2> QED
    BY <2>1, <2>2, <2>3
<1>4. A \cap C = {}
  BY <1>1 DEF At
<1>5. shift \in Bijection(B, C)
  <2>1. \A i \in B : i \in 1..Len(u)
    BY DEF At
  <2>2. shift \in [B -> C]
    BY <1>1, <2>1
  <2>3. \A i, j \in B : shift[i] = shift[j] => i = j
    BY <1>1, <2>1
  <2>4. \A k \in C : k - Len(s) \in B /\ shift[k - Len(s)] = k
    BY <1>1
  <2> QED
    BY <2>2, <2>3, <2>4 DEF Bijection, Injection, Surjection, IsInjective
<1>6. IsFiniteSet(C) /\ Cardinality(C) = Cardinality(B)
  BY <1>2, <1>5, FS_Bijection DEF ExistsBijection
<1>7. Cardinality(A \cup C) = Cardinality(A) + Cardinality(C) - Cardinality({})
  <2> HIDE DEF A, C
  <2> QED
    BY <1>2, <1>4, <1>6, FS_Union
<1> QED
  BY <1>2, <1>3, <1>6, <1>7, FS_EmptySet, FS_CardinalityType DEF Count

LEMMA CountAppend ==
    ASSUME NEW S, NEW s \in Seq(S), NEW x \in S, NEW W
    PROVE  Count(Append(s, x), W) = Count(s, W) + (IF x \in W THEN 1 ELSE 0)
<1>1. <<x>> \in Seq(S)
  OBVIOUS
<1>2. Append(s, x) = s \o <<x>>
  BY AppendIsConcat
<1>3. Count(s \o <<x>>, W) = Count(s, W) + Count(<<x>>, W)
  BY <1>1, CountConcat
<1>4. Count(<<x>>, W) = IF x \in W THEN 1 ELSE 0
  BY CountSingle
<1> QED
  BY <1>2, <1>3, <1>4

\* A sequence without its element at i, and its parts.
Removed(s, i) == SubSeq(s, 1, i - 1) \o SubSeq(s, i + 1, Len(s))

LEMMA CountRemoved ==
    ASSUME NEW S, NEW s \in Seq(S), NEW i \in 1..Len(s), NEW W
    PROVE  /\ Removed(s, i) \in Seq(S) /\ Len(Removed(s, i)) = Len(s) - 1
           /\ Count(Removed(s, i), W) = Count(s, W) - (IF s[i] \in W THEN 1 ELSE 0)
<1> DEFINE a == SubSeq(s, 1, i - 1)
           b == SubSeq(s, i + 1, Len(s))
<1>1. Len(s) \in Nat /\ \A j \in 1..Len(s) : s[j] \in S
  BY LenProperties
<1>2. /\ a \in Seq(S) /\ Len(a) = i - 1 /\ \A j \in 1..i - 1 : a[j] = s[j]
  BY <1>1, SubSeqProperties
<1>3. /\ b \in Seq(S) /\ Len(b) = Len(s) - i /\ \A j \in 1..Len(s) - i : b[j] = s[i + j]
  BY <1>1, SubSeqProperties
<1> HIDE DEF a, b
<1>4. s[i] \in S /\ <<s[i]>> \in Seq(S) /\ Len(<<s[i]>>) = 1 /\ <<s[i]>>[1] = s[i]
  BY <1>1
<1> DEFINE c == a \o <<s[i]>>
<1>5. /\ c \in Seq(S) /\ Len(c) = i
      /\ \A j \in 1..i : c[j] = s[j]
  BY <1>1, <1>2, <1>4, ConcatProperties
<1> HIDE DEF c
<1>6. /\ c \o b \in Seq(S) /\ Len(c \o b) = Len(s)
      /\ \A j \in 1..Len(s) : (c \o b)[j] = s[j]
  <2>1. /\ c \o b \in Seq(S) /\ Len(c \o b) = Len(c) + Len(b)
        /\ \A j \in 1..Len(c) + Len(b) : (c \o b)[j] = IF j <= Len(c) THEN c[j] ELSE b[j - Len(c)]
    BY <1>3, <1>5, ConcatProperties
  <2>2. Len(c) + Len(b) = Len(s)
    BY <1>1, <1>3, <1>5
  <2>3. ASSUME NEW j \in 1..Len(s) PROVE (c \o b)[j] = s[j]
    <3>1. CASE j <= i
      BY <1>1, <1>5, <2>1, <2>2, <3>1
    <3>2. CASE ~(j <= i)
      <4>1. j - i \in 1..Len(s) - i /\ i + (j - i) = j
        BY <1>1, <3>2
      <4>2. (c \o b)[j] = b[j - i]
        BY <1>1, <1>5, <2>1, <2>2, <3>2
      <4> QED
        BY <1>3, <4>1, <4>2
    <3> QED
      BY <3>1, <3>2, Zenon
  <2> QED
    BY <2>1, <2>2, <2>3
<1>7. c \o b = s
  BY <1>6, SeqEqual
<1>8. Count(s, W) = Count(c, W) + Count(b, W)
  BY <1>3, <1>5, <1>7, CountConcat
<1>9. Count(c, W) = Count(a, W) + (IF s[i] \in W THEN 1 ELSE 0)
  <2>1. Count(c, W) = Count(a, W) + Count(<<s[i]>>, W)
    BY <1>2, <1>4, CountConcat DEF c
  <2>2. Count(<<s[i]>>, W) = IF s[i] \in W THEN 1 ELSE 0
    BY CountSingle
  <2> QED
    BY <2>1, <2>2
<1>10. Count(a \o b, W) = Count(a, W) + Count(b, W)
  BY <1>2, <1>3, CountConcat
<1>11. a \o b \in Seq(S) /\ Len(a \o b) = Len(s) - 1
  <2>1. a \o b \in Seq(S) /\ Len(a \o b) = Len(a) + Len(b)
    BY <1>2, <1>3, ConcatProperties
  <2> QED
    BY <1>1, <1>2, <1>3, <2>1
<1>12. Count(a, W) \in Nat /\ Count(b, W) \in Nat
  BY <1>2, <1>3, CountType
<1> QED
  <2>1. Removed(s, i) = a \o b
    BY DEF Removed, a, b
  <2>2. Count(s, W) = Count(a, W) + (IF s[i] \in W THEN 1 ELSE 0) + Count(b, W)
    BY <1>8, <1>9
  <2>3. Count(a \o b, W) = Count(s, W) - (IF s[i] \in W THEN 1 ELSE 0)
    BY <1>10, <1>12, <2>2
  <2> QED
    BY <1>11, <2>1, <2>3

LEMMA CountTail ==
    ASSUME NEW S, NEW s \in Seq(S), s # <<>>, NEW W
    PROVE  /\ Head(s) = s[1] /\ Head(s) \in S /\ Tail(s) \in Seq(S) /\ Len(Tail(s)) = Len(s) - 1
           /\ Count(Tail(s), W) = Count(s, W) - (IF Head(s) \in W THEN 1 ELSE 0)
<1>1. Head(s) = s[1] /\ Head(s) \in S /\ Tail(s) \in Seq(S) /\ Len(Tail(s)) = Len(s) - 1
  BY HeadTailProperties
<1>2. 1 \in 1..Len(s) /\ Len(s) \in Nat
  BY LenProperties, EmptySeq
<1>3. Count(Removed(s, 1), W) = Count(s, W) - (IF s[1] \in W THEN 1 ELSE 0)
  BY <1>2, CountRemoved
<1>4. Removed(s, 1) = Tail(s)
  <2>1. SubSeq(s, 1, 0) = <<>>
    BY SubSeqEmpty
  <2>2. SubSeq(s, 2, Len(s)) = Tail(s)
    BY TailIsSubSeq
  <2>3. <<>> \o Tail(s) = Tail(s)
    BY <1>1, ConcatEmptySeq
  <2>4. Removed(s, 1) = SubSeq(s, 1, 1 - 1) \o SubSeq(s, 1 + 1, Len(s))
    BY DEF Removed
  <2> QED
    BY <2>1, <2>2, <2>3, <2>4
<1> QED
  BY <1>1, <1>3, <1>4

\* A sequence with x put in at i.
Inserted(s, i, x) == SubSeq(s, 1, i - 1) \o <<x>> \o SubSeq(s, i, Len(s))

LEMMA CountInserted ==
    ASSUME NEW S, NEW s \in Seq(S), NEW i \in 1..Len(s) + 1, NEW x \in S, NEW W
    PROVE  /\ Inserted(s, i, x) \in Seq(S) /\ Len(Inserted(s, i, x)) = Len(s) + 1
           /\ Inserted(s, i, x)[i] = x
           /\ \A j \in 1..i - 1 : Inserted(s, i, x)[j] = s[j]
           /\ \A j \in i + 1..Len(s) + 1 : Inserted(s, i, x)[j] = s[j - 1]
           /\ Count(Inserted(s, i, x), W) = Count(s, W) + (IF x \in W THEN 1 ELSE 0)
<1> DEFINE t == Inserted(s, i, x)
           a == SubSeq(s, 1, i - 1)
           b == SubSeq(s, i, Len(s))
           c == a \o <<x>>
<1>1. Len(s) \in Nat /\ \A j \in 1..Len(s) : s[j] \in S
  BY LenProperties
<1>2. /\ a \in Seq(S) /\ Len(a) = i - 1 /\ \A j \in 1..i - 1 : a[j] = s[j]
  BY <1>1, SubSeqProperties
<1>3. /\ b \in Seq(S) /\ Len(b) = Len(s) - i + 1 /\ \A j \in 1..Len(s) - i + 1 : b[j] = s[i + j - 1]
  BY <1>1, SubSeqProperties
<1>4. t = c \o b
  BY DEF Inserted
<1> HIDE DEF a, b, t
<1>5. <<x>> \in Seq(S) /\ Len(<<x>>) = 1 /\ <<x>>[1] = x
  OBVIOUS
<1>6. /\ c \in Seq(S) /\ Len(c) = i /\ c[i] = x /\ \A j \in 1..i - 1 : c[j] = s[j]
  BY <1>1, <1>2, <1>5, ConcatProperties
<1> HIDE DEF c
<1>7. /\ t \in Seq(S) /\ Len(t) = Len(c) + Len(b)
      /\ \A j \in 1..Len(c) + Len(b) : t[j] = IF j <= Len(c) THEN c[j] ELSE b[j - Len(c)]
  BY <1>3, <1>4, <1>6, ConcatProperties
<1>8. Len(t) = Len(s) + 1 /\ t[i] = x /\ \A j \in 1..i - 1 : t[j] = s[j]
  BY <1>1, <1>3, <1>6, <1>7
<1>9. ASSUME NEW j \in i + 1..Len(s) + 1 PROVE t[j] = s[j - 1]
  <2>1. j - i \in 1..Len(s) - i + 1 /\ i + (j - i) - 1 = j - 1 /\ ~(j <= i) /\ j \in 1..Len(s) + 1
    BY <1>1
  <2>2. t[j] = b[j - i]
    BY <1>1, <1>3, <1>6, <1>7, <2>1
  <2> QED
    BY <1>3, <2>1, <2>2
<1>10. Count(c, W) = Count(a, W) + (IF x \in W THEN 1 ELSE 0)
  <2>1. Count(c, W) = Count(a, W) + Count(<<x>>, W)
    BY <1>2, <1>5, CountConcat DEF c
  <2>2. Count(<<x>>, W) = IF x \in W THEN 1 ELSE 0
    BY CountSingle
  <2> QED
    BY <2>1, <2>2
<1>11. Count(t, W) = Count(c, W) + Count(b, W)
  BY <1>3, <1>4, <1>6, CountConcat
<1>12. a \o b = s
  <2>1. /\ a \o b \in Seq(S) /\ Len(a \o b) = Len(a) + Len(b)
        /\ \A j \in 1..Len(a) + Len(b) : (a \o b)[j] = IF j <= Len(a) THEN a[j] ELSE b[j - Len(a)]
    BY <1>2, <1>3, ConcatProperties
  <2>2. ASSUME NEW j \in 1..Len(s) PROVE (a \o b)[j] = s[j]
    <3>0. i \in Int /\ j \in 1..Len(a) + Len(b)
      BY <1>1, <1>2, <1>3
    <3>1. CASE j < i
      <4>1. j <= Len(a) /\ j \in 1..i - 1
        BY <1>2, <3>0, <3>1
      <4>2. (a \o b)[j] = a[j]
        BY <2>1, <3>0, <4>1
      <4> QED
        BY <1>2, <4>1, <4>2
    <3>2. CASE ~(j < i)
      <4>1. j - (i - 1) \in 1..Len(s) - i + 1 /\ i + (j - (i - 1)) - 1 = j
        BY <1>1, <3>2
      <4>2. Len(a) = i - 1 /\ ~(j <= Len(a))
        BY <1>2, <3>0, <3>2
      <4>3. (a \o b)[j] = b[j - Len(a)]
        BY <2>1, <3>0, <4>2
      <4> QED
        BY <1>3, <4>1, <4>2, <4>3
    <3> QED
      BY <3>1, <3>2, Zenon
  <2>3. Len(a \o b) = Len(s)
    BY <1>1, <1>2, <1>3, <2>1
  <2> QED
    BY <2>1, <2>2, <2>3, SeqEqual
<1>13. Count(s, W) = Count(a, W) + Count(b, W)
  <2>1. a \in Seq(S) /\ b \in Seq(S)
    BY <1>2, <1>3
  <2>2. Count(a \o b, W) = Count(a, W) + Count(b, W)
    BY ONLY <2>1, CountConcat, Zenon
  <2> QED
    BY ONLY <1>12, <2>2, Zenon
<1>14. Count(a, W) \in Nat /\ Count(b, W) \in Nat
  BY <1>2, <1>3, CountType
<1>15. Count(t, W) = Count(s, W) + (IF x \in W THEN 1 ELSE 0)
  BY <1>10, <1>11, <1>13, <1>14
<1> QED
  BY <1>7, <1>8, <1>9, <1>15 DEF t

------------------------------------------------------------------------------
(* Some of a sequence's elements.                                            *)

\* A sublist has the elements that were to be kept and no others, and does not repeat one more often.
LEMMA SublistFacts ==
    ASSUME NEW S, NEW s \in Seq(S), NEW W
    PROVE  /\ Sublist(s, W) \in Seq(S)
           /\ {Sublist(s, W)[j] : j \in 1..Len(Sublist(s, W))} = {s[i] : i \in 1..Len(s)} \cap W
           /\ (\A i, j \in 1..Len(s) : s[i] = s[j] => i = j) =>
                  \A i, j \in 1..Len(Sublist(s, W)) : Sublist(s, W)[i] = Sublist(s, W)[j] => i = j
<1> DEFINE kept == {i \in DOMAIN s : s[i] \in W}
           N == Cardinality(kept)
           below(i) == {k \in kept : k < i}
           rank == [i \in kept |-> Cardinality(below(i))]
           g == [j \in 1..N |-> CHOOSE i \in kept : Cardinality(below(i)) = j - 1]
           r == [j \in 1..N |-> s[g[j]]]
<1>1. Len(s) \in Nat /\ DOMAIN s = 1..Len(s) /\ \A i \in 1..Len(s) : s[i] \in S
  BY LenProperties
<1>2. kept \subseteq 1..Len(s) /\ IsFiniteSet(kept) /\ N \in Nat
  <2>1. kept \subseteq 1..Len(s) /\ IsFiniteSet(1..Len(s))
    BY <1>1, FS_Interval
  <2> QED
    BY <2>1, FS_Subset, FS_CardinalityType
<1>3. \A i \in kept : i \in kept <=> i \in 1..Len(s) /\ s[i] \in W
  BY <1>1
<1>4. Sublist(s, W) = r
  BY DEF Sublist
<1>5. kept = {i \in 1..Len(s) : s[i] \in W}
  BY <1>1
<1> HIDE DEF kept
<1>6. ASSUME NEW i \in kept
      PROVE  /\ IsFiniteSet(below(i)) /\ below(i) \subseteq kept
             /\ Cardinality(below(i)) \in 0..N - 1
  <2>1. below(i) \in SUBSET kept /\ i \notin below(i)
    BY <1>2
  <2> HIDE DEF below
  <2>2. /\ IsFiniteSet(below(i)) /\ Cardinality(below(i)) <= N
        /\ N = Cardinality(below(i)) => kept = below(i)
    BY <1>2, <2>1, FS_Subset
  <2>3. Cardinality(below(i)) \in Nat /\ Cardinality(below(i)) # N
    BY <2>1, <2>2, FS_CardinalityType
  <2> QED
    BY <1>2, <2>1, <2>2, <2>3
<1>7. ASSUME NEW i \in kept, NEW j \in kept, i < j
      PROVE  Cardinality(below(i)) < Cardinality(below(j))
  <2>1. below(i) \in SUBSET below(j) /\ i \in below(j) /\ i \notin below(i)
    <3>1. i \in Int /\ j \in Int /\ \A k \in kept : k \in Int
      BY <1>2
    <3>2. \A k \in kept : k < i => k < j
      BY <1>7, <3>1
    <3>3. i < j /\ ~(i < i)
      BY <1>7, <3>1
    <3> QED
      BY <3>2, <3>3
  <2> HIDE DEF below
  <2>2. /\ Cardinality(below(i)) <= Cardinality(below(j))
        /\ Cardinality(below(j)) = Cardinality(below(i)) => below(j) = below(i)
    BY <1>6, <2>1, FS_Subset
  <2>3. Cardinality(below(i)) \in Nat /\ Cardinality(below(j)) \in Nat
    BY <1>6, FS_CardinalityType
  <2> QED
    BY <2>1, <2>2, <2>3
<1>8. rank \in [kept -> 0..N - 1]
  <2> HIDE DEF below
  <2> QED
    BY <1>6
<1>9. \A i, j \in kept : rank[i] = rank[j] => i = j
  <2> SUFFICES ASSUME NEW i \in kept, NEW j \in kept, rank[i] = rank[j], i # j PROVE FALSE
    OBVIOUS
  <2>1. rank[i] = Cardinality(below(i)) /\ rank[j] = Cardinality(below(j))
    OBVIOUS
  <2>2. i < j \/ j < i
    BY <1>2
  <2>3. rank[i] \in Int /\ rank[j] \in Int
    BY <1>8
  <2> HIDE DEF below, rank
  <2>4. CASE i < j
    <3>1. Cardinality(below(i)) < Cardinality(below(j))
      BY <1>7, <2>4
    <3>2. rank[i] < rank[j]
      BY <2>1, <3>1
    <3> QED
      BY <2>3, <3>2
  <2>5. CASE j < i
    <3>1. Cardinality(below(j)) < Cardinality(below(i))
      BY <1>7, <2>5
    <3>2. rank[j] < rank[i]
      BY <2>1, <3>1
    <3> QED
      BY <2>3, <3>2
  <2> QED
    BY <2>2, <2>4, <2>5
<1>10. \A k \in 0..N - 1 : \E i \in kept : rank[i] = k
  <2>1. IsFiniteSet(0..N - 1) /\ Cardinality(0..N - 1) = N
    <3>1. 0 \in Int /\ N - 1 \in Int
      BY <1>2
    <3>2. /\ IsFiniteSet(0..N - 1)
          /\ Cardinality(0..N - 1) = IF 0 > N - 1 THEN 0 ELSE (N - 1) - 0 + 1
      BY <3>1, FS_Interval
    <3> HIDE DEF N
    <3> QED
      BY <1>2, <3>2
  <2>2. rank \in Injection(kept, 0..N - 1)
    <3> HIDE DEF rank
    <3> QED
      BY <1>8, <1>9 DEF Injection, IsInjective
  <2> HIDE DEF rank
  <2>3. rank \in Surjection(kept, 0..N - 1)
    BY <2>1, <2>2, FS_Injection
  <2> QED
    BY <2>3 DEF Surjection
<1>11. ASSUME NEW j \in 1..N PROVE g[j] \in kept /\ rank[g[j]] = j - 1
  <2>1. j - 1 \in 0..N - 1
    BY <1>2
  <2>2. \E i \in kept : rank[i] = j - 1
    BY <1>10, <2>1
  <2>3. \E i \in kept : Cardinality(below(i)) = j - 1
    <3> HIDE DEF below
    <3> QED
      BY <2>2
  <2>4. g[j] = CHOOSE i \in kept : Cardinality(below(i)) = j - 1
    OBVIOUS
  <2> HIDE DEF below, g
  <2>5. g[j] \in kept /\ Cardinality(below(g[j])) = j - 1
    BY <2>3, <2>4
  <2> QED
    BY <2>5
<1> HIDE DEF below, rank, g
<1>12. \A j \in 1..N : r[j] = s[g[j]] /\ g[j] \in 1..Len(s)
  BY <1>2, <1>11
<1>13. r \in Seq(S) /\ Len(r) = N
  <2>1. r \in [1..N -> S]
    BY <1>1, <1>12
  <2> HIDE DEF r
  <2> QED
    BY <1>2, <2>1
<1> HIDE DEF r
<1>14. ASSUME \A i, j \in 1..Len(s) : s[i] = s[j] => i = j,
              NEW i \in 1..N, NEW j \in 1..N, r[i] = r[j]
       PROVE  i = j
  <2>1. g[i] = g[j]
    BY <1>12, <1>14
  <2>2. i - 1 = j - 1
    BY <1>11, <2>1
  <2> QED
    BY <2>2
<1> DEFINE new == {r[j] : j \in 1..N}
           old == {s[i] : i \in 1..Len(s)}
<1>15. new = old \cap W
  <2>2. ASSUME NEW x \in new PROVE x \in old \cap W
    <3>1. PICK j \in 1..N : x = r[j]
      OBVIOUS
    <3>2. x = s[g[j]] /\ g[j] \in 1..Len(s) /\ g[j] \in kept
      BY <1>11, <1>12, <3>1
    <3> QED
      BY <1>5, <3>2
  <2>3. ASSUME NEW x \in old \cap W PROVE x \in new
    <3>1. PICK i \in 1..Len(s) : x = s[i]
      OBVIOUS
    <3>2. i \in kept
      BY <1>5, <3>1
    <3>3. rank[i] \in 0..N - 1
      BY <1>8, <3>2
    <3>4. rank[i] + 1 \in 1..N /\ (rank[i] + 1) - 1 = rank[i]
      BY <1>2, <3>3
    <3>5. g[rank[i] + 1] = i
      BY <1>9, <1>11, <3>2, <3>4
    <3>6. r[rank[i] + 1] = s[i]
      BY <1>12, <3>4, <3>5
    <3> QED
      BY <3>1, <3>4, <3>6
  <2> QED
    BY <2>2, <2>3
<1> QED
  BY <1>4, <1>13, <1>14, <1>15

\* What is before i stays in place, and what is behind it moves up.
LEMMA RemovedElements ==
    ASSUME NEW S, NEW s \in Seq(S), NEW i \in 1..Len(s)
    PROVE  /\ \A j \in 1..i - 1 : Removed(s, i)[j] = s[j]
           /\ \A j \in i..Len(s) - 1 : Removed(s, i)[j] = s[j + 1]
<1> DEFINE a == SubSeq(s, 1, i - 1)
           b == SubSeq(s, i + 1, Len(s))
           t == Removed(s, i)
<1>1. Len(s) \in Nat /\ \A j \in 1..Len(s) : s[j] \in S
  BY LenProperties
<1>2. a \in Seq(S) /\ Len(a) = i - 1 /\ \A j \in 1..i - 1 : a[j] = s[j]
  BY <1>1, SubSeqProperties
<1>3. b \in Seq(S) /\ Len(b) = Len(s) - i /\ \A j \in 1..Len(s) - i : b[j] = s[i + j]
  BY <1>1, SubSeqProperties
<1>4. t = a \o b
  BY DEF Removed
<1> HIDE DEF a, b, t
<1>5. \A j \in 1..Len(a) + Len(b) : t[j] = IF j <= Len(a) THEN a[j] ELSE b[j - Len(a)]
  BY <1>2, <1>3, <1>4, ConcatProperties
<1>6. ASSUME NEW j \in 1..i - 1 PROVE t[j] = s[j]
  <2>1. j \in 1..Len(a) + Len(b) /\ j <= Len(a)
    BY <1>1, <1>2, <1>3
  <2> QED
    BY <1>2, <1>5, <2>1
<1>7. ASSUME NEW j \in i..Len(s) - 1 PROVE t[j] = s[j + 1]
  <2>1. /\ j \in 1..Len(a) + Len(b) /\ ~(j <= Len(a)) /\ Len(a) = i - 1
        /\ j - (i - 1) \in 1..Len(s) - i /\ i + (j - (i - 1)) = j + 1
    BY <1>1, <1>2, <1>3
  <2>2. t[j] = b[j - Len(a)]
    BY <1>5, <2>1
  <2> QED
    BY <1>3, <2>1, <2>2
<1> QED
  BY <1>6, <1>7 DEF t

\* Two equal elements make a count of two.
LEMMA CountTwice ==
    ASSUME NEW S, NEW s \in Seq(S), NEW W, NEW i \in 1..Len(s), NEW j \in 1..Len(s),
           s[i] \in W, s[j] \in W, i # j
    PROVE  Count(s, W) > 1
<1> DEFINE r == Removed(s, i)
<1>1. r \in Seq(S) /\ Len(r) = Len(s) - 1 /\ Count(r, W) = Count(s, W) - 1 /\ Len(s) \in Nat
  BY CountRemoved, LenProperties
<1>2. \E k \in 1..Len(r) : r[k] \in W
  <2>1. CASE j < i
    <3>1. j \in 1..i - 1 /\ j \in 1..Len(r)
      BY <1>1, <2>1
    <3>2. r[j] = s[j]
      BY <3>1, RemovedElements
    <3> QED
      BY <3>1, <3>2
  <2>2. CASE j > i
    <3>1. j - 1 \in i..Len(s) - 1 /\ j - 1 \in 1..Len(r) /\ (j - 1) + 1 = j
      BY <1>1, <2>2
    <3>2. r[j - 1] = s[(j - 1) + 1]
      BY <3>1, RemovedElements
    <3> QED
      BY <3>1, <3>2
  <2> QED
    BY <2>1, <2>2
<1> HIDE DEF r
<1>3. Count(r, W) > 0
  BY <1>1, <1>2, CountPositive
<1>4. Count(s, W) \in Nat
  BY CountType
<1> QED
  BY <1>1, <1>3, <1>4
==============================================================================
