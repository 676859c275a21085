---------------------------- MODULE SortingProofs ----------------------------
(***************************************************************************)
(* What sorted() returns, and facts about lists: the lemmas the invariance *)
(* proofs of the pipeline and of the index on disk rest on.                *)
(***************************************************************************)
EXTENDS Sorting, FiniteSetTheorems, SequenceTheorems, TLAPS

-----------------------------------------------------------------------------
(* Sorting: what sorted() returns when its order is strict and total.      *)

StrictOrder(S, before) ==
  /\ \A c \in S : <<c, c>> \notin before
  /\ \A c, d \in S : c # d => <<c, d>> \in before \/ <<d, c>> \in before
  /\ \A c, d, e \in S : <<c, d>> \in before /\ <<d, e>> \in before => <<c, e>> \in before

\* Whoever comes later has the larger place: all that precede the one precede the
\* other, and the one itself does too.
LEMMA PlaceIsMonotonic ==
  ASSUME NEW S, IsFiniteSet(S), NEW before, StrictOrder(S, before),
         NEW c \in S, NEW d \in S, <<c, d>> \in before
  PROVE  Place(S, before)[c] < Place(S, before)[d]
<1> DEFINE Ahead(x) == {e \in S : <<e, x>> \in before}
<1>1. IsFiniteSet(Ahead(c)) /\ IsFiniteSet(Ahead(d))
  BY FS_Subset
<1>2. Ahead(c) \cup {c} \subseteq Ahead(d)
  BY DEF StrictOrder
<1>3. c \notin Ahead(c)
  BY DEF StrictOrder
<1>4. /\ IsFiniteSet(Ahead(c) \cup {c})
      /\ Cardinality(Ahead(c) \cup {c}) = Cardinality(Ahead(c)) + 1
  BY <1>1, <1>3, FS_AddElement
<1>5. Cardinality(Ahead(c)) + 1 <= Cardinality(Ahead(d))
  <2> HIDE DEF Ahead
  <2>1. Cardinality(Ahead(c) \cup {c}) <= Cardinality(Ahead(d))
    BY <1>1, <1>2, FS_Subset
  <2> QED BY <1>4, <2>1
<1>6. Cardinality(Ahead(c)) \in Nat /\ Cardinality(Ahead(d)) \in Nat
  BY <1>1, FS_CardinalityType
<1>7. /\ Place(S, before)[c] = Cardinality(Ahead(c)) + 1
      /\ Place(S, before)[d] = Cardinality(Ahead(d)) + 1
  BY DEF Place
<1> QED BY <1>5, <1>6, <1>7

\* Places are numbered from 1 to the size of the set, without gaps.
LEMMA PlaceIsBijective ==
  ASSUME NEW S, IsFiniteSet(S), NEW before, StrictOrder(S, before)
  PROVE  /\ Cardinality(S) \in Nat
         /\ Place(S, before) \in [S -> 1 .. Cardinality(S)]
         /\ \A c, d \in S : Place(S, before)[c] = Place(S, before)[d] => c = d
         /\ \A i \in 1 .. Cardinality(S) : \E c \in S : Place(S, before)[c] = i
<1> DEFINE Ahead(x) == {e \in S : <<e, x>> \in before}
           N == Cardinality(S)
           place == Place(S, before)
<1>1. N \in Nat
  BY FS_CardinalityType
<1>2. ASSUME NEW c \in S
      PROVE  Cardinality(Ahead(c)) + 1 \in 1 .. N
  <2>1. Ahead(c) \subseteq S \ {c}
    BY DEF StrictOrder
  <2>2. IsFiniteSet(S \ {c}) /\ Cardinality(S \ {c}) = N - 1
    BY FS_RemoveElement
  <2>3. IsFiniteSet(Ahead(c)) /\ Cardinality(Ahead(c)) <= N - 1
    BY <2>1, <2>2, FS_Subset
  <2> QED BY <1>1, <2>3, FS_CardinalityType
<1>3. place \in [S -> 1 .. N]
  BY <1>2 DEF Place
<1>4. ASSUME NEW c \in S, NEW d \in S, place[c] = place[d]
      PROVE  c = d
  <2>1. place[c] \in Int /\ place[d] \in Int
    BY <1>1, <1>3
  <2>2. <<c, d>> \notin before /\ <<d, c>> \notin before
    BY <1>4, <2>1, PlaceIsMonotonic
  <2> QED BY <2>2 DEF StrictOrder
<1>5. place \in Injection(S, 1 .. N)
  BY <1>3, <1>4 DEF Injection, IsInjective
<1>6. IsFiniteSet(1 .. N) /\ Cardinality(1 .. N) = N
  BY <1>1, FS_Interval
<1>7. place \in Surjection(S, 1 .. N)
  BY <1>5, <1>6, FS_Injection
<1> QED BY <1>1, <1>3, <1>4, <1>7 DEF Surjection

\* sorted() returns every element once, in an order that respects `before'.
THEOREM SortedIsPermutation ==
  ASSUME NEW S, IsFiniteSet(S), NEW before, StrictOrder(S, before)
  PROVE  /\ Sorted(S, before) \in Seq(S)
         /\ Len(Sorted(S, before)) = Cardinality(S)
         /\ Elems(Sorted(S, before)) = S
         /\ \A i, j \in DOMAIN Sorted(S, before) :
              i < j => <<Sorted(S, before)[i], Sorted(S, before)[j]>> \in before
<1> DEFINE N == Cardinality(S)
           place == Place(S, before)
           sorted == Sorted(S, before)
<1>1. /\ N \in Nat
      /\ place \in [S -> 1 .. N]
      /\ \A c, d \in S : place[c] = place[d] => c = d
      /\ \A i \in 1 .. N : \E c \in S : place[c] = i
  BY PlaceIsBijective
<1>2. DOMAIN sorted = 1 .. N
  BY DEF Sorted
<1>3. \A i \in 1 .. N : sorted[i] \in S /\ place[sorted[i]] = i
  BY <1>1 DEF Sorted
<1>4. sorted \in [1 .. N -> S]
  BY <1>2, <1>3 DEF Sorted
<1>5. sorted \in Seq(S) /\ Len(sorted) = N
  BY <1>1, <1>4
<1>6. ASSUME NEW c \in S PROVE c \in Elems(sorted)
  <2>1. place[c] \in 1 .. N
    BY <1>1
  <2>2. sorted[place[c]] = c
    BY <1>1, <1>3, <2>1
  <2> QED BY <1>2, <2>1, <2>2 DEF Elems
<1>7. Elems(sorted) = S
  BY <1>2, <1>3, <1>6 DEF Elems
<1>8. ASSUME NEW i \in DOMAIN sorted, NEW j \in DOMAIN sorted, i < j
      PROVE  <<sorted[i], sorted[j]>> \in before
  <2>1. /\ sorted[i] \in S /\ place[sorted[i]] = i
        /\ sorted[j] \in S /\ place[sorted[j]] = j
    BY <1>2, <1>3
  <2>2. sorted[i] # sorted[j]
    BY <1>1, <1>2, <1>8, <2>1
  <2>3. <<sorted[j], sorted[i]>> \notin before
    <3>1. SUFFICES ASSUME <<sorted[j], sorted[i]>> \in before PROVE FALSE
      OBVIOUS
    <3>2. place[sorted[j]] < place[sorted[i]]
      BY <2>1, <3>1, PlaceIsMonotonic
    <3> QED BY <1>1, <1>2, <1>8, <2>1, <3>2
  <2> QED BY <2>1, <2>2, <2>3 DEF StrictOrder
<1> QED BY <1>5, <1>7, <1>8

\* The last of a sorted set of numbers is its maximum.
LEMMA FiniteSetHasMaximum ==
  ASSUME NEW S \in SUBSET Int, IsFiniteSet(S), S # {}
  PROVE  \E m \in S : \A x \in S : x <= m
<1> DEFINE before == {p \in S \X S : p[1] < p[2]}
<1>1. \A c, d \in S : <<c, d>> \in before <=> c < d
  OBVIOUS
<1>2. StrictOrder(S, before)
  BY <1>1 DEF StrictOrder
<1> HIDE DEF before
<1>3. PICK sorted : /\ sorted \in Seq(S)
                    /\ Len(sorted) = Cardinality(S)
                    /\ Elems(sorted) = S
                    /\ \A i, j \in DOMAIN sorted :
                         i < j => <<sorted[i], sorted[j]>> \in before
  BY <1>2, SortedIsPermutation
<1>4. DOMAIN sorted = 1 .. Len(sorted) /\ Len(sorted) \in Nat /\ Len(sorted) # 0
  BY <1>3, FS_EmptySet, FS_CardinalityType, LenProperties
<1>5. Len(sorted) \in DOMAIN sorted
  BY <1>4
<1>6. sorted[Len(sorted)] \in S
  BY <1>3, <1>5 DEF Elems
<1>7. ASSUME NEW x \in S PROVE x <= sorted[Len(sorted)]
  <2>1. PICK j \in DOMAIN sorted : sorted[j] = x
    BY <1>3 DEF Elems
  <2>2. CASE j = Len(sorted)
    <3>1. sorted[Len(sorted)] = x /\ x \in Int
      BY <2>1, <2>2
    <3> QED BY <3>1
  <2>3. CASE j < Len(sorted)
    <3>1. <<x, sorted[Len(sorted)]>> \in before
      BY <1>3, <1>5, <2>1, <2>3
    <3>2. x < sorted[Len(sorted)]
      BY <1>1, <1>6, <3>1
    <3>3. x \in Int /\ sorted[Len(sorted)] \in Int
      BY <1>6
    <3> QED BY <3>2, <3>3
  <2> QED BY <1>4, <2>1, <2>2, <2>3
<1> QED BY <1>6, <1>7

-----------------------------------------------------------------------------
(* Lists.                                                                  *)

LEMMA ElemsOfSeq ==
  ASSUME NEW S, NEW s \in Seq(S)
  PROVE  /\ Elems(s) \subseteq S
         /\ s \in Seq(Elems(s))
         /\ \A T : Elems(s) \subseteq T => s \in Seq(T)
BY DEF Elems

LEMMA ElemsOfAppend ==
  ASSUME NEW S, NEW s \in Seq(S), NEW e \in S
  PROVE  Elems(Append(s, e)) = Elems(s) \cup {e}
<1>1. /\ Append(s, e) \in Seq(S)
      /\ Len(Append(s, e)) = Len(s) + 1
      /\ \A i \in 1 .. Len(s) : Append(s, e)[i] = s[i]
      /\ Append(s, e)[Len(s) + 1] = e
  BY AppendProperties
<1>2. DOMAIN Append(s, e) = 1 .. (Len(s) + 1) /\ DOMAIN s = 1 .. Len(s) /\ Len(s) \in Nat
  BY <1>1, LenProperties
<1>3. Elems(s) \cup {e} \subseteq Elems(Append(s, e))
  BY <1>1, <1>2 DEF Elems
<1>4. \A i \in 1 .. (Len(s) + 1) : i \in 1 .. Len(s) \/ i = Len(s) + 1
  BY <1>2
<1>5. Elems(Append(s, e)) \subseteq Elems(s) \cup {e}
  BY <1>1, <1>2, <1>4 DEF Elems
<1> QED BY <1>3, <1>5

\* s[:n] is a list of the same things, no longer than n.
LEMMA PrefixOfSeq ==
  ASSUME NEW S, NEW s \in Seq(S), NEW n \in Nat
  PROVE  /\ Prefix(s, n) \in Seq(S)
         /\ Len(Prefix(s, n)) = IF n < Len(s) THEN n ELSE Len(s)
         /\ \A i \in DOMAIN Prefix(s, n) : i \in DOMAIN s /\ Prefix(s, n)[i] = s[i]
         /\ Elems(Prefix(s, n)) \subseteq Elems(s)
<1> DEFINE m == IF n < Len(s) THEN n ELSE Len(s)
<1>1. Len(s) \in Nat /\ m \in 0 .. Len(s) /\ DOMAIN s = 1 .. Len(s)
  BY LenProperties
<1>2. \A i \in 1 .. m : s[i] \in S
  BY <1>1, ElementOfSeq
<1>3. /\ SubSeq(s, 1, m) \in Seq(S)
      /\ Len(SubSeq(s, 1, m)) = m
      /\ \A i \in 1 .. m : SubSeq(s, 1, m)[i] = s[i]
  <2>1. /\ SubSeq(s, 1, m) \in Seq(S)
        /\ Len(SubSeq(s, 1, m)) = IF 1 <= m THEN m - 1 + 1 ELSE 0
        /\ \A i \in 1 .. m - 1 + 1 : SubSeq(s, 1, m)[i] = s[1 + i - 1]
    BY <1>1, <1>2, SubSeqProperties
  <2> QED BY <1>1, <2>1
<1>4. DOMAIN SubSeq(s, 1, m) = 1 .. m
  BY <1>3, LenProperties
<1>5. Prefix(s, n) = SubSeq(s, 1, m)
  BY DEF Prefix
<1> QED BY <1>1, <1>3, <1>4, <1>5 DEF Elems
=============================================================================
