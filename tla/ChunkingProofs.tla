--------------------------- MODULE ChunkingProofs ---------------------------
(***************************************************************************)
(* Proofs about the chunker, for every document, every kind of lines and   *)
(* every target and minimum.                                               *)
(*                                                                         *)
(* A document goes through lists of texts: sections, merged sections,      *)
(* blocks, chunks.  Each text is an Excerpt, which keeps the fences of the *)
(* document, and each list is in its order; so a block stays whole, and    *)
(* the text of a chunk, read again, has the blocks it was made of.  Each   *)
(* loop has an invariant that its next round keeps.                        *)
(***************************************************************************)
EXTENDS Chunking, SortingProofs

-----------------------------------------------------------------------------
(* Induction, over the elements of a set of numbers, and the values that a *)
(* loop goes through.                                                      *)

\* Induction over the numbers in a set; the library's takes an operator.
LEMMA SetInduction ==
  ASSUME NEW S, 0 \in S, \A n \in Nat : n \in S => n + 1 \in S
  PROVE  \A n \in Nat : n \in S
<1>1. SUFFICES ASSUME NEW m \in Nat, m \notin S PROVE FALSE
  OBVIOUS
<1> DEFINE T == {k \in 0 .. m : \A j \in 0 .. k : j \in S}
<1>2. 0 \in T /\ T \in SUBSET Int /\ T \subseteq 0 .. m
  OBVIOUS
<1>3. IsFiniteSet(T)
  <2>1. IsFiniteSet(0 .. m)
    BY FS_Interval
  <2> QED BY <1>2, <2>1, FS_Subset
<1>4. \A k \in T : k # m => k + 1 \in T
  OBVIOUS
<1>5. m \notin T
  BY <1>1
<1> HIDE DEF T
<1>6. PICK k \in T : \A x \in T : x <= k
  BY <1>2, <1>3, FiniteSetHasMaximum
<1>7. k + 1 \in T /\ k \in Int
  BY <1>2, <1>4, <1>5, <1>6
<1> QED BY <1>6, <1>7

\* The same up to a bound.
LEMMA RangeInduction ==
  ASSUME NEW n \in Nat, NEW S, 0 \in S, \A k \in 0 .. n - 1 : k \in S => k + 1 \in S
  PROVE  \A k \in 0 .. n : k \in S
<1> DEFINE T == {k \in Nat : k <= n => k \in S}
<1>1. 0 \in T
  OBVIOUS
<1>2. \A k \in Nat : k \in T => k + 1 \in T
  <2>1. ASSUME NEW k \in Nat, k \in T PROVE k + 1 \in T
    <3>1. CASE k + 1 <= n
      <4>1. k \in 0 .. n - 1 /\ k \in S
        BY <2>1, <3>1
      <4> QED BY <4>1
    <3> QED BY <3>1
  <2> QED BY <2>1
<1> HIDE DEF T
<1>3. \A k \in Nat : k \in T
  BY <1>1, <1>2, SetInduction
<1> QED BY <1>3 DEF T

\* A loop of n rounds over the values of A, and the values it goes through.
Loop(n, A, base, step) == n \in Nat /\ base \in A /\ step \in [1 .. n -> [A -> A]]

Rounds(n, A, base, step, g) ==
  /\ g \in [0 .. n -> A]
  /\ g[0] = base /\ \A i \in 1 .. n : g[i] = step[i][g[i - 1]]

\* Every loop goes through some values: what a definition by recursion denotes.
LEMMA Recursion ==
  ASSUME NEW n, NEW A, NEW base, NEW step, Loop(n, A, base, step)
  PROVE  \E g : Rounds(n, A, base, step, g)
<1>0. n \in Nat /\ base \in A /\ step \in [1 .. n -> [A -> A]]
  BY DEF Loop
<1> DEFINE Computed(k) == \E g \in [0 .. k -> A] :
                            g[0] = base /\ \A i \in 1 .. k : g[i] = step[i][g[i - 1]]
           S == {k \in 0 .. n : Computed(k)}
<1>1. 0 \in S
  <2>1. PICK g : g = [i \in 0 .. 0 |-> base]
    OBVIOUS
  <2>2. g \in [0 .. 0 -> A] /\ g[0] = base /\ 1 .. 0 = {}
    BY <1>0, <2>1
  <2>3. Computed(0)
    BY <2>2
  <2> QED BY <1>0, <2>3
<1>2. ASSUME NEW k \in 0 .. n - 1, k \in S PROVE Computed(k + 1)
  <2>1. PICK g \in [0 .. k -> A] :
          g[0] = base /\ \A i \in 1 .. k : g[i] = step[i][g[i - 1]]
    BY <1>2
  <2>2. PICK x \in A : x = step[k + 1][g[k]]
    <3>1. k + 1 \in 1 .. n /\ g[k] \in A
      BY <1>0, <1>2
    <3> QED BY <1>0, <3>1
  <2>3. PICK h : h = [i \in 0 .. k + 1 |-> IF i = k + 1 THEN x ELSE g[i]]
    OBVIOUS
  <2>4. h \in [0 .. k + 1 -> A]
    BY <1>0, <2>2, <2>3
  <2>5. h[0] = g[0] /\ h[k + 1] = x /\ \A i \in 0 .. k : h[i] = g[i]
    BY <1>0, <2>3
  <2>6. ASSUME NEW i \in 1 .. k + 1 PROVE h[i] = step[i][h[i - 1]]
    <3>1. i - 1 \in 0 .. k /\ h[i - 1] = g[i - 1]
      BY <1>0, <2>5
    <3>2. CASE i = k + 1
      BY <1>0, <2>2, <2>5, <3>1, <3>2
    <3>3. CASE i \in 1 .. k
      BY <1>0, <2>1, <2>5, <3>1, <3>3
    <3> QED BY <1>0, <3>2, <3>3
  <2> QED BY <2>1, <2>4, <2>5, <2>6
<1>3. \A k \in 0 .. n - 1 : k \in S => k + 1 \in S
  <2> HIDE DEF Computed
  <2> QED BY <1>0, <1>2
<1> HIDE DEF S
<1>4. \A k \in 0 .. n : k \in S
  BY <1>0, <1>1, <1>3, RangeInduction
<1>5. n \in S
  BY <1>0, <1>4
<1> QED BY <1>0, <1>5 DEF S, Rounds

\* A function that starts in A and whose rounds stay in A is one to A.
LEMMA RoundsTyped ==
  ASSUME NEW n \in Nat, NEW A, NEW f, DOMAIN f = 0 .. n, f = [i \in DOMAIN f |-> f[i]],
         f[0] \in A, \A k \in 1 .. n : f[k - 1] \in A => f[k] \in A
  PROVE  f \in [0 .. n -> A]
<1> DEFINE S == {i \in 0 .. n : f[i] \in A}
<1>1. 0 \in S
  OBVIOUS
<1>2. ASSUME NEW k \in 0 .. n - 1, k \in S PROVE k + 1 \in S
  <2>1. k + 1 \in 1 .. n /\ (k + 1) - 1 = k /\ f[k] \in A
    BY <1>2
  <2>2. f[k + 1] \in A
    BY <2>1
  <2> QED BY <2>1, <2>2
<1> HIDE DEF S
<1>3. \A k \in 0 .. n : k \in S
  BY <1>1, <1>2, RangeInduction
<1> QED BY <1>3 DEF S

\* A set of numbers below a bound has a largest and a smallest one.
LEMMA Extremes ==
  ASSUME NEW n \in Nat, NEW S \in SUBSET (0 .. n), S # {}
  PROVE  /\ Max(S) \in S /\ \A x \in S : x <= Max(S)
         /\ Min(S) \in S /\ \A x \in S : Min(S) <= x
<1>0. IsFiniteSet(0 .. n) /\ 0 .. n \in SUBSET Int
  BY FS_Interval
<1>1. IsFiniteSet(S) /\ S \in SUBSET Int
  BY <1>0, FS_Subset
<1>2. PICK m \in S : \A x \in S : x <= m
  BY <1>1, FiniteSetHasMaximum
<1>3. PICK T : T = {y \in 0 .. n : n - y \in S}
  OBVIOUS
<1>4. IsFiniteSet(T) /\ T \in SUBSET Int /\ T # {}
  <2>1. T \subseteq 0 .. n
    BY <1>3
  <2>2. n - m \in 0 .. n /\ n - (n - m) = m
    BY <1>2
  <2> QED BY <1>0, <1>2, <1>3, <2>1, <2>2, FS_Subset
<1>5. PICK k \in T : \A x \in T : x <= k
  BY <1>4, FiniteSetHasMaximum
<1>6. PICK l \in S : k = n - l
  <2>1. n - k \in S /\ k = n - (n - k)
    BY <1>3, <1>5
  <2> QED BY <2>1
<1>7. \A x \in S : l <= x
  <2>1. ASSUME NEW x \in S PROVE l <= x
    <3>1. n - x \in T
      <4>1. n - x \in 0 .. n /\ n - (n - x) = x
        OBVIOUS
      <4> QED BY <1>3, <4>1
    <3>2. n - x <= k
      BY <1>5, <3>1
    <3> QED BY <1>1, <1>6, <3>2
  <2> QED BY <2>1
<1>8. Max(S) \in S /\ \A x \in S : x <= Max(S)
  <2>1. \E y \in S : \A x \in S : y >= x
    BY <1>1, <1>2
  <2>2. Max(S) \in S /\ \A x \in S : Max(S) >= x
    BY <2>1 DEF Max
  <2> QED BY <1>1, <2>2
<1>9. Min(S) \in S /\ \A x \in S : Min(S) <= x
  BY <1>7 DEF Min
<1> QED BY <1>8, <1>9

\* A stretch of a list.
LEMMA Stretch ==
  ASSUME NEW S, NEW s \in Seq(S), NEW a \in 1 .. Len(s) + 1, NEW b \in 0 .. Len(s),
         a <= b + 1
  PROVE  /\ SubSeq(s, a, b) \in Seq(S)
         /\ Len(SubSeq(s, a, b)) = b - a + 1
         /\ \A i \in 1 .. b - a + 1 : SubSeq(s, a, b)[i] = s[a + i - 1]
<1>1. Len(s) \in Nat
  BY LenProperties
<1>2. \A i \in a .. b : s[i] \in S
  BY <1>1, ElementOfSeq
<1>3. a \in Int /\ b \in Int
  BY <1>1
<1>4. /\ SubSeq(s, a, b) \in Seq(S)
      /\ Len(SubSeq(s, a, b)) = IF a <= b THEN b - a + 1 ELSE 0
      /\ \A i \in 1 .. b - a + 1 : SubSeq(s, a, b)[i] = s[a + i - 1]
  BY <1>2, <1>3, SubSeqProperties
<1> QED BY <1>3, <1>4

\* The elements after one place, up to another.
LEMMA StretchAfter ==
  ASSUME NEW S, NEW s \in Seq(S), NEW lo \in 0 .. Len(s), NEW hi \in lo .. Len(s)
  PROVE  /\ SubSeq(s, lo + 1, hi) \in Seq(S)
         /\ Len(SubSeq(s, lo + 1, hi)) = hi - lo
         /\ \A i \in 1 .. hi - lo : SubSeq(s, lo + 1, hi)[i] = s[lo + i]
<1>1. Len(s) \in Nat
  BY LenProperties
<1>2. PICK a \in 1 .. Len(s) + 1 : a = lo + 1 /\ hi \in 0 .. Len(s) /\ a <= hi + 1
  BY <1>1
<1>3. /\ SubSeq(s, a, hi) \in Seq(S)
      /\ Len(SubSeq(s, a, hi)) = hi - a + 1
      /\ \A i \in 1 .. hi - a + 1 : SubSeq(s, a, hi)[i] = s[a + i - 1]
  BY <1>2, Stretch
<1>4. hi - a + 1 = hi - lo /\ \A i \in 1 .. hi - lo : a + i - 1 = lo + i
  BY <1>1, <1>2
<1> QED BY <1>2, <1>3, <1>4

\* A stretch grows by the next element.
LEMMA StretchGrows ==
  ASSUME NEW S, NEW s \in Seq(S), NEW lo \in 0 .. Len(s), NEW hi \in lo .. Len(s) - 1
  PROVE  Append(SubSeq(s, lo + 1, hi), s[hi + 1]) = SubSeq(s, lo + 1, hi + 1)
<1>1. Len(s) \in Nat /\ lo \in Nat /\ hi \in Nat
  BY LenProperties
<1>2. PICK t \in Seq(S) : /\ t = SubSeq(s, lo + 1, hi) /\ Len(t) = hi - lo
                         /\ \A i \in 1 .. hi - lo : t[i] = s[lo + i]
  <2>1. hi \in lo .. Len(s)
    BY <1>1
  <2>2. /\ SubSeq(s, lo + 1, hi) \in Seq(S)
        /\ Len(SubSeq(s, lo + 1, hi)) = hi - lo
        /\ \A i \in 1 .. hi - lo : SubSeq(s, lo + 1, hi)[i] = s[lo + i]
    BY <2>1, StretchAfter
  <2> QED BY <2>2
<1>3. PICK n \in Nat : n = hi - lo
  BY <1>1
<1>4. PICK e \in lo .. Len(s) : e = hi + 1 /\ e - lo = n + 1
  BY <1>1, <1>3
<1>5. PICK u \in Seq(S) : /\ u = SubSeq(s, lo + 1, e) /\ Len(u) = e - lo
                         /\ \A i \in 1 .. e - lo : u[i] = s[lo + i]
  <2>1. /\ SubSeq(s, lo + 1, e) \in Seq(S)
        /\ Len(SubSeq(s, lo + 1, e)) = e - lo
        /\ \A i \in 1 .. e - lo : SubSeq(s, lo + 1, e)[i] = s[lo + i]
    BY StretchAfter
  <2> QED BY <2>1
<1>6. s[e] \in S
  <2>1. e \in 1 .. Len(s)
    BY <1>1, <1>4
  <2> QED BY <2>1, ElementOfSeq
<1>7. PICK v \in Seq(S) : v = Append(t, s[e])
  BY <1>6, AppendProperties
<1>8. Len(v) = n + 1 /\ v[n + 1] = s[e] /\ \A i \in 1 .. n : v[i] = t[i]
  BY <1>2, <1>3, <1>6, <1>7, AppendProperties
<1>9. \A i \in 1 .. n + 1 : v[i] = u[i]
  <2>1. u[n + 1] = s[lo + (n + 1)] /\ lo + (n + 1) = e
    BY <1>1, <1>3, <1>4, <1>5
  <2>2. \A i \in 1 .. n : v[i] = u[i]
    BY <1>2, <1>3, <1>4, <1>5, <1>8
  <2> QED BY <1>8, <2>1, <2>2
<1>10. v = u
  BY <1>4, <1>5, <1>8, <1>9, SeqEqual
<1> QED BY <1>2, <1>4, <1>5, <1>7, <1>10

-----------------------------------------------------------------------------
(* Lists of numbers, and the size of a text.                               *)

\* The sums that Total goes through.
LEMMA TotalIsIterated ==
  ASSUME NEW s \in Seq(Nat)
  PROVE  \E g \in [0 .. Len(s) -> Nat] :
           /\ g[0] = 0 /\ \A i \in 1 .. Len(s) : g[i] = g[i - 1] + s[i]
           /\ Total(s) = g[Len(s)]
<1>0. PICK n \in Nat : n = Len(s)
  BY LenProperties
<1>1. \A i \in 1 .. n, a \in Nat : a + s[i] \in Nat
  BY <1>0, ElementOfSeq
<1>2. PICK step : step = [i \in 1 .. n |-> [a \in Nat |-> a + s[i]]]
  OBVIOUS
<1>3. Loop(n, Nat, 0, step)
  BY <1>1, <1>2 DEF Loop
<1>4. PICK g : Rounds(n, Nat, 0, step, g)
  BY <1>3, Recursion
<1>5. g = [i \in 0 .. n |-> IF i = 0 THEN 0 ELSE g[i - 1] + s[i]]
  <2>1. \A i \in 1 .. n : i \in 0 .. n /\ i - 1 \in 0 .. n
    OBVIOUS
  <2>2. \A i \in 1 .. n : g[i] = g[i - 1] + s[i]
    BY <1>2, <1>4, <2>1 DEF Rounds
  <2> QED BY <1>4, <2>2 DEF Rounds
<1>6. PICK f : /\ f = [i \in 0 .. n |-> IF i = 0 THEN 0 ELSE f[i - 1] + s[i]]
               /\ Total(s) = f[n]
  BY <1>0, <1>5 DEF Total
<1>7. f[0] = 0 /\ \A i \in 1 .. n : f[i] = f[i - 1] + s[i]
  BY <1>6
<1>8. f \in [0 .. n -> Nat]
  <2>1. \A k \in 1 .. n : f[k - 1] \in Nat => f[k] \in Nat
    BY <1>1, <1>7
  <2>2. DOMAIN f = 0 .. n /\ f = [i \in DOMAIN f |-> f[i]]
    BY <1>6
  <2>3. f[0] \in Nat
    BY <1>7
  <2> QED BY <2>1, <2>2, <2>3, RoundsTyped
<1> QED BY <1>0, <1>6, <1>7, <1>8

\* The total of a list, and of one with a number more.
LEMMA TotalOfAppend ==
  ASSUME NEW s \in Seq(Nat), NEW x \in Nat
  PROVE  /\ Total(s) \in Nat
         /\ Total(<<>>) = 0
         /\ Total(Append(s, x)) = Total(s) + x
<1>0. PICK n \in Nat : n = Len(s)
  BY LenProperties
<1>1. PICK g \in [0 .. n -> Nat] :
        g[0] = 0 /\ (\A i \in 1 .. n : g[i] = g[i - 1] + s[i]) /\ Total(s) = g[n]
  BY <1>0, TotalIsIterated
<1>2. Total(<<>>) = 0
  <2>1. <<>> \in Seq(Nat) /\ Len(<<>>) = 0
    BY EmptySeq
  <2> QED BY <2>1, TotalIsIterated
<1>3. PICK t \in Seq(Nat) : t = Append(s, x)
  BY AppendProperties
<1>4. Len(t) = n + 1 /\ t[n + 1] = x /\ \A i \in 1 .. n : t[i] = s[i]
  BY <1>0, <1>3, AppendProperties
<1>5. PICK h \in [0 .. n + 1 -> Nat] :
        /\ h[0] = 0 /\ \A i \in 1 .. n + 1 : h[i] = h[i - 1] + t[i]
        /\ Total(t) = h[n + 1]
  BY <1>4, TotalIsIterated
<1> DEFINE S == {k \in 0 .. n : h[k] = g[k]}
<1>6. 0 \in S
  BY <1>1, <1>5
<1>7. ASSUME NEW k \in 0 .. n - 1, k \in S PROVE k + 1 \in S
  <2>1. k + 1 \in 1 .. n /\ k + 1 \in 1 .. n + 1 /\ (k + 1) - 1 = k
    BY <1>0
  <2>2. h[k + 1] = g[k + 1]
    BY <1>1, <1>4, <1>5, <1>7, <2>1
  <2> QED BY <2>1, <2>2
<1> HIDE DEF S
<1>8. \A k \in 0 .. n : k \in S
  BY <1>6, <1>7, RangeInduction
<1>9. h[n] = g[n]
  BY <1>8 DEF S
<1>10. h[n + 1] = h[n] + x
  <2>1. n + 1 \in 1 .. n + 1 /\ (n + 1) - 1 = n
    OBVIOUS
  <2> QED BY <1>4, <1>5, <2>1
<1> QED BY <1>1, <1>2, <1>3, <1>5, <1>9, <1>10

-----------------------------------------------------------------------------
(* The types of the chunker's values.                                      *)

Line == [at : Nat, kind : {"text", "blank", "heading", "fence"}, mark : Nat, chars : Nat]
Text == Seq(Line)
Section == [path : Text, body : Text]
Reading == [sections : Seq(Section), buf : Text, path : Text]
Gathering == [blocks : Seq(Text), current : Text]
Packing == [out : Seq(Seq(Text)), buf : Seq(Text)]
Merging == [merged : Seq(Section), carry : Text, path : Text]
Piece == [path : Text, text : Text]

LEMMA BlankType == Blank \in Line
  BY DEF Blank, Line

LEMMA FenceAfterType ==
  ASSUME NEW fence \in Nat, NEW line \in Line
  PROVE  FenceAfter(fence, line) \in Nat
  BY DEF FenceAfter, Line

\* Stripping takes the blank lines at both ends, and only those.
LEMMA StrippedIs ==
  ASSUME NEW text \in Text
  PROVE  \/ /\ Stripped(text) = <<>>
            /\ \A i \in 1 .. Len(text) : text[i].kind = "blank"
         \/ \E a, b \in 1 .. Len(text) :
              /\ a <= b /\ Stripped(text) = SubSeq(text, a, b)
              /\ text[a].kind # "blank" /\ text[b].kind # "blank"
              /\ \A i \in 1 .. Len(text) : text[i].kind # "blank" => a <= i /\ i <= b
<1>1. Len(text) \in Nat /\ DOMAIN text = 1 .. Len(text)
  BY LenProperties DEF Text
<1>2. PICK full : full = {i \in DOMAIN text : text[i].kind # "blank"}
  OBVIOUS
<1>3. Stripped(text) = IF full = {} THEN <<>> ELSE SubSeq(text, Min(full), Max(full))
  BY <1>2 DEF Stripped
<1>4. CASE full = {}
  BY <1>1, <1>2, <1>3, <1>4
<1>5. CASE full # {}
  <2>1. full \in SUBSET (0 .. Len(text))
    BY <1>1, <1>2
  <2>2. /\ Max(full) \in full /\ \A x \in full : x <= Max(full)
        /\ Min(full) \in full /\ \A x \in full : Min(full) <= x
    BY <1>1, <1>5, <2>1, Extremes
  <2> QED BY <1>1, <1>2, <1>3, <1>5, <2>2
<1> QED BY <1>4, <1>5

LEMMA StrippedType ==
  ASSUME NEW text \in Text
  PROVE  Stripped(text) \in Text
<1>1. CASE Stripped(text) = <<>>
  BY <1>1, EmptySeq DEF Text
<1>2. ASSUME NEW a \in 1 .. Len(text), NEW b \in 1 .. Len(text), a <= b,
             Stripped(text) = SubSeq(text, a, b)
      PROVE  Stripped(text) \in Text
  <2>1. Len(text) \in Nat
    BY LenProperties DEF Text
  <2>2. a \in 1 .. Len(text) + 1 /\ b \in 0 .. Len(text) /\ a <= b + 1
    BY <1>2, <2>1
  <2> QED BY <1>2, <2>2, Stretch DEF Text
<1> QED BY <1>1, <1>2, StrippedIs

\* The lines of two texts that are joined.
LEMMA JoinedIs ==
  ASSUME NEW text \in Text, NEW more \in Text
  PROVE  /\ Joined(text, more) \in Text
         /\ Joined(<<>>, more) = more
         /\ text # <<>> =>
              /\ Len(Joined(text, more)) = Len(text) + 1 + Len(more)
              /\ \A i \in 1 .. Len(text) : Joined(text, more)[i] = text[i]
              /\ Joined(text, more)[Len(text) + 1] = Blank
              /\ \A i \in 1 .. Len(more) :
                   Joined(text, more)[Len(text) + 1 + i] = more[i]
<1>1. PICK m \in Nat, n \in Nat : m = Len(text) /\ n = Len(more)
  BY LenProperties DEF Text
<1>2. <<Blank>> \in Seq(Line) /\ Len(<<Blank>>) = 1 /\ <<Blank>>[1] = Blank
  BY BlankType
<1>3. PICK u \in Seq(Line) : u = text \o <<Blank>>
  BY <1>2, ConcatProperties DEF Text
<1>4. /\ Len(u) = m + 1
      /\ \A i \in 1 .. m : u[i] = text[i]
      /\ u[m + 1] = Blank
  <2>1. /\ Len(u) = Len(text) + 1
        /\ \A i \in 1 .. Len(text) + Len(<<Blank>>) :
             u[i] = IF i <= Len(text) THEN text[i] ELSE <<Blank>>[i - Len(text)]
    BY <1>2, <1>3, ConcatProperties DEF Text
  <2>2. \A i \in 1 .. m + 1 : u[i] = IF i <= m THEN text[i] ELSE <<Blank>>[i - m]
    BY <1>1, <1>2, <2>1
  <2> QED BY <1>1, <1>2, <2>1, <2>2
<1>5. PICK v \in Seq(Line) : v = u \o more
  BY <1>3, ConcatProperties DEF Text
<1>6. /\ Len(v) = m + 1 + n
      /\ \A i \in 1 .. m + 1 : v[i] = u[i]
      /\ \A i \in 1 .. n : v[m + 1 + i] = more[i]
  <2>1. /\ Len(v) = Len(u) + Len(more)
        /\ \A i \in 1 .. Len(u) + Len(more) :
             v[i] = IF i <= Len(u) THEN u[i] ELSE more[i - Len(u)]
    BY <1>3, <1>5, ConcatProperties DEF Text
  <2>2. \A i \in 1 .. m + 1 + n : v[i] = IF i <= m + 1 THEN u[i] ELSE more[i - (m + 1)]
    BY <1>1, <1>4, <2>1
  <2>3. \A i \in 1 .. n : m + 1 + i \in 1 .. m + 1 + n /\ ~(m + 1 + i <= m + 1)
                         /\ (m + 1 + i) - (m + 1) = i
    BY <1>1
  <2> QED BY <1>1, <1>4, <2>1, <2>2, <2>3
<1>7. text # <<>> => Joined(text, more) = v
  BY <1>3, <1>5 DEF Joined
<1>8. Joined(<<>>, more) = more
  BY DEF Joined
<1>9. CASE text = <<>>
  BY <1>8, <1>9
<1>10. CASE text # <<>>
  <2>1. Joined(text, more) = v
    BY <1>7, <1>10
  <2>2. \A i \in 1 .. m : v[i] = text[i]
    BY <1>1, <1>4, <1>6
  <2>3. v[m + 1] = Blank
    BY <1>1, <1>4, <1>6
  <2> QED BY <1>1, <1>5, <1>6, <1>8, <2>1, <2>2, <2>3 DEF Text
<1> QED BY <1>9, <1>10

-----------------------------------------------------------------------------
(* The size of blocks.                                                     *)

LEMMA TokensType ==
  ASSUME NEW text \in Text
  PROVE  Tokens(text) \in Nat
<1>1. PICK s : s = [i \in DOMAIN text |-> text[i].chars]
  OBVIOUS
<1>2. s \in Seq(Nat)
  <2>1. PICK n \in Nat : n = Len(text) /\ DOMAIN text = 1 .. n
    BY LenProperties DEF Text
  <2>2. \A i \in 1 .. n : text[i].chars \in Nat
    <3>1. \A i \in 1 .. n : text[i] \in Line
      BY <2>1, ElementOfSeq DEF Text
    <3> QED BY <3>1 DEF Line
  <2>3. s \in [1 .. n -> Nat]
    BY <1>1, <2>1, <2>2
  <2> QED BY <2>3, SeqDef
<1>3. Total(s) \in Nat /\ Len(text) \in Nat
  BY <1>2, TotalOfAppend, LenProperties DEF Text
<1>4. PICK x \in Int : x = (Total(s) + Len(text) - 1) \div 4
  BY <1>3
<1>5. Tokens(text) = Max({1, x})
  BY <1>1, <1>4 DEF Tokens
<1>6. \E m \in {1, x} : \A y \in {1, x} : m >= y
  BY <1>4
<1>7. Max({1, x}) \in {1, x} /\ Max({1, x}) >= 1
  BY <1>4, <1>6 DEF Max
<1> QED BY <1>4, <1>5, <1>7

LEMMA SizesType ==
  ASSUME NEW blocks \in Seq(Text)
  PROVE  /\ [i \in DOMAIN blocks |-> Tokens(blocks[i])] \in Seq(Nat)
         /\ Len([i \in DOMAIN blocks |-> Tokens(blocks[i])]) = Len(blocks)
<1>1. PICK n \in Nat : n = Len(blocks) /\ DOMAIN blocks = 1 .. n
  BY LenProperties
<1>2. PICK s : s = [i \in 1 .. n |-> Tokens(blocks[i])]
  OBVIOUS
<1>3. s \in [1 .. n -> Nat]
  BY <1>1, <1>2, ElementOfSeq, TokensType
<1>4. s \in Seq(Nat)
  BY <1>3, SeqDef
<1>5. Len(s) = n
  BY <1>3, <1>4, LenProperties
<1> QED BY <1>1, <1>2, <1>4, <1>5

\* A list of blocks grows by the size of the next one.
LEMMA SizeOfAppend ==
  ASSUME NEW blocks \in Seq(Text), NEW block \in Text
  PROVE  /\ SizeOf(blocks) \in Nat
         /\ SizeOf(<<>>) = 0
         /\ SizeOf(Append(blocks, block)) = SizeOf(blocks) + Tokens(block)
<1>1. PICK n \in Nat : n = Len(blocks) /\ DOMAIN blocks = 1 .. n
  BY LenProperties
<1>2. PICK s \in Seq(Nat) : s = [i \in DOMAIN blocks |-> Tokens(blocks[i])] /\ Len(s) = n
  BY <1>1, SizesType
<1>3. PICK more \in Seq(Text) : more = Append(blocks, block)
  BY AppendProperties
<1>4. /\ DOMAIN more = 1 .. n + 1
      /\ more[n + 1] = block /\ \A i \in 1 .. n : more[i] = blocks[i]
  BY <1>1, <1>3, AppendProperties, LenProperties
<1>5. PICK t \in Seq(Nat) : t = [i \in DOMAIN more |-> Tokens(more[i])] /\ Len(t) = n + 1
  <2>1. Len(more) = n + 1
    BY <1>1, <1>3, AppendProperties
  <2> QED BY <2>1, SizesType
<1>6. t = Append(s, Tokens(block))
  <2>1. PICK u \in Seq(Nat) : u = Append(s, Tokens(block))
    BY TokensType, AppendProperties
  <2>2. Len(u) = n + 1 /\ u[n + 1] = Tokens(block) /\ \A i \in 1 .. n : u[i] = s[i]
    BY <1>2, <2>1, TokensType, AppendProperties
  <2>3. \A i \in 1 .. n : s[i] = Tokens(blocks[i])
    BY <1>1, <1>2
  <2>4. \A i \in 1 .. n + 1 : t[i] = Tokens(more[i])
    BY <1>4, <1>5
  <2>5. \A i \in 1 .. n + 1 : t[i] = u[i]
    BY <1>4, <2>2, <2>3, <2>4
  <2>6. t = u
    BY <1>5, <2>2, <2>5, SeqEqual
  <2> QED BY <2>1, <2>6
<1>7. SizeOf(blocks) = Total(s) /\ SizeOf(more) = Total(t)
  BY <1>2, <1>5 DEF SizeOf
<1>8. Total(s) \in Nat /\ Total(<<>>) = 0 /\ Total(t) = Total(s) + Tokens(block)
  BY <1>6, TokensType, TotalOfAppend
<1>9. SizeOf(<<>>) = Total(<<>>)
  <2>1. DOMAIN <<>> = {}
    OBVIOUS
  <2>2. [i \in DOMAIN <<>> |-> Tokens(<<>>[i])] = <<>>
    BY <2>1
  <2> QED BY <2>2 DEF SizeOf
<1> QED BY <1>3, <1>7, <1>8, <1>9

\* The repeated blocks are the last ones, and they fit.
LEMMA OverlappingIs ==
  ASSUME NEW blocks \in Seq(Text), NEW overlap \in Nat
  PROVE  \E a \in 1 .. Len(blocks) + 1 :
           /\ Overlapping(blocks, overlap) = SubSeq(blocks, a, Len(blocks))
           /\ SizeOf(Overlapping(blocks, overlap)) <= overlap
<1>1. PICK n \in Nat : n = Len(blocks)
  BY LenProperties
<1>2. PICK fits : fits = {i \in 1 .. n + 1 : SizeOf(SubSeq(blocks, i, n)) <= overlap}
  OBVIOUS
<1>3. n + 1 \in fits
  <2>1. PICK none : none = SubSeq(blocks, n + 1, n)
    OBVIOUS
  <2>2. none = <<>>
    BY <2>1, SubSeqEmpty
  <2>3. SizeOf(<<>>) = 0
    BY EmptySeq, SizeOfAppend DEF Text
  <2>4. SizeOf(none) <= overlap
    BY <2>2, <2>3
  <2> QED BY <1>2, <2>1, <2>4
<1>4. Min(fits) \in fits
  <2>1. fits \in SUBSET (0 .. n + 1) /\ fits # {} /\ n + 1 \in Nat
    BY <1>2, <1>3
  <2> QED BY <2>1, Extremes
<1>5. Overlapping(blocks, overlap) = SubSeq(blocks, Min(fits), n)
  BY <1>1, <1>2 DEF Overlapping
<1> QED BY <1>1, <1>2, <1>4, <1>5

-----------------------------------------------------------------------------
(* The rounds of the loops.                                                *)

LEMMA FlushType ==
  ASSUME NEW acc \in Reading
  PROVE  Flush(acc) \in Seq(Section)
<1>1. acc.sections \in Seq(Section) /\ acc.buf \in Text /\ acc.path \in Text
  BY DEF Reading
<1>2. [path |-> acc.path, body |-> Stripped(acc.buf)] \in Section
  BY <1>1, StrippedType DEF Section
<1> QED BY <1>1, <1>2, AppendProperties DEF Flush

LEMMA AboveType ==
  ASSUME NEW path \in Text, NEW heading \in Line
  PROVE  Above(path, heading) \in Text
<1>1. PICK n \in Nat : n = Len(path) /\ DOMAIN path = 1 .. n
  BY LenProperties DEF Text
<1>2. PICK S : S = {0} \cup {i \in DOMAIN path : path[i].mark < heading.mark}
  OBVIOUS
<1>3. S \in SUBSET (0 .. n) /\ S # {}
  BY <1>1, <1>2
<1>4. Max(S) \in 0 .. n
  BY <1>3, Extremes
<1>5. 1 \in 1 .. n + 1 /\ 1 <= Max(S) + 1
  BY <1>4
<1>6. SubSeq(path, 1, Max(S)) \in Seq(Line)
  BY <1>1, <1>4, <1>5, Stretch DEF Text
<1> QED BY <1>2, <1>6 DEF Above, Text

LEMMA ReadLineType ==
  ASSUME NEW acc \in Reading, NEW line \in Line, NEW outside
  PROVE  ReadLine(acc, line, outside) \in Reading
<1>1. acc.sections \in Seq(Section) /\ acc.buf \in Text /\ acc.path \in Text
  BY DEF Reading
<1>2. /\ Flush(acc) \in Seq(Section)
      /\ Append(Above(acc.path, line), line) \in Text
      /\ Append(acc.buf, line) \in Text /\ <<>> \in Text
  BY <1>1, FlushType, AboveType, AppendProperties, EmptySeq DEF Text
<1> QED BY <1>1, <1>2 DEF ReadLine, Reading

LEMMA BlockLineType ==
  ASSUME NEW acc \in Gathering, NEW line \in Line, NEW outside
  PROVE  BlockLine(acc, line, outside) \in Gathering
<1>1. acc.blocks \in Seq(Text) /\ acc.current \in Text
  BY DEF Gathering
<1>2. /\ Append(acc.blocks, acc.current) \in Seq(Text)
      /\ Append(acc.current, line) \in Text /\ <<>> \in Text
  BY <1>1, AppendProperties, EmptySeq DEF Text
<1> QED BY <1>1, <1>2 DEF BlockLine, Gathering

LEMMA OverlappingType ==
  ASSUME NEW blocks \in Seq(Text), NEW overlap \in Nat
  PROVE  Overlapping(blocks, overlap) \in Seq(Text)
<1>1. PICK a \in 1 .. Len(blocks) + 1 :
        Overlapping(blocks, overlap) = SubSeq(blocks, a, Len(blocks))
  BY OverlappingIs
<1>2. Len(blocks) \in Nat
  BY LenProperties
<1>3. Len(blocks) \in 0 .. Len(blocks) /\ a <= Len(blocks) + 1
  BY <1>2
<1> QED BY <1>1, <1>3, Stretch

LEMMA PackBlockType ==
  ASSUME NEW acc \in Packing, NEW block \in Text, NEW target \in Nat, NEW overlap \in Nat
  PROVE  PackBlock(acc, block, target, overlap) \in Packing
<1>1. acc.out \in Seq(Seq(Text)) /\ acc.buf \in Seq(Text)
  BY DEF Packing
<1>2. /\ Append(acc.out, acc.buf) \in Seq(Seq(Text))
      /\ Append(Overlapping(acc.buf, overlap), block) \in Seq(Text)
      /\ Append(acc.buf, block) \in Seq(Text)
  BY <1>1, OverlappingType, AppendProperties
<1> QED BY <1>1, <1>2 DEF PackBlock, Packing

LEMMA MergeSectionType ==
  ASSUME NEW acc \in Merging, NEW sec \in Section
  PROVE  MergeSection(acc, sec) \in Merging
<1>1. /\ acc.merged \in Seq(Section) /\ acc.carry \in Text /\ acc.path \in Text
      /\ sec.path \in Text /\ sec.body \in Text
  BY DEF Merging, Section
<1>2. PICK body \in Text : body = Joined(acc.carry, sec.body)
  BY <1>1, JoinedIs
<1>3. [path |-> sec.path, body |-> body] \in Section /\ <<>> \in Text
  BY <1>1, <1>2, EmptySeq DEF Section, Text
<1>4. Append(acc.merged, [path |-> sec.path, body |-> body]) \in Seq(Section)
  BY <1>1, <1>3, AppendProperties
<1> QED BY <1>1, <1>2, <1>3, <1>4 DEF MergeSection, Merging

-----------------------------------------------------------------------------
(* What each loop goes through.                                            *)

\* The fence that is open after each line.
LEMMA FenceSteps ==
  ASSUME NEW text \in Text
  PROVE  /\ Fences(text) \in [0 .. Len(text) -> Nat]
         /\ Fences(text)[0] = 0
         /\ \A i \in 1 .. Len(text) :
              Fences(text)[i] = FenceAfter(Fences(text)[i - 1], text[i])
<1>0. PICK n \in Nat : n = Len(text)
  BY LenProperties DEF Text
<1>1. \A i \in 1 .. n, a \in Nat : FenceAfter(a, text[i]) \in Nat
  <2>1. \A i \in 1 .. n : text[i] \in Line
    BY <1>0, ElementOfSeq DEF Text
  <2> QED BY <2>1, FenceAfterType
<1>2. PICK step : step = [i \in 1 .. n |-> [a \in Nat |-> FenceAfter(a, text[i])]]
  OBVIOUS
<1>3. Loop(n, Nat, 0, step)
  <2>1. 0 \in Nat
    OBVIOUS
  <2> QED BY <1>1, <1>2, <2>1 DEF Loop
<1>4. PICK g : Rounds(n, Nat, 0, step, g)
  BY <1>3, Recursion
<1>5. g = [i \in 0 .. n |-> IF i = 0 THEN 0 ELSE FenceAfter(g[i - 1], text[i])]
  <2>1. \A i \in 1 .. n : i \in 0 .. n /\ i - 1 \in 0 .. n
    OBVIOUS
  <2>2. \A i \in 1 .. n : g[i] = FenceAfter(g[i - 1], text[i])
    BY <1>2, <1>4, <2>1 DEF Rounds
  <2> QED BY <1>4, <2>2 DEF Rounds
<1>6. PICK f : /\ f = [i \in 0 .. n |-> IF i = 0 THEN 0 ELSE FenceAfter(f[i - 1], text[i])]
               /\ Fences(text) = f
  BY <1>0, <1>5 DEF Fences
<1>7. f[0] = 0 /\ \A i \in 1 .. n : f[i] = FenceAfter(f[i - 1], text[i])
  BY <1>6
<1>8. f \in [0 .. n -> Nat]
  <2>1. \A k \in 1 .. n : f[k - 1] \in Nat => f[k] \in Nat
    BY <1>1, <1>7
  <2>2. f[0] \in Nat
    BY <1>3, <1>7 DEF Loop
  <2>3. DOMAIN f = 0 .. n /\ f = [i \in DOMAIN f |-> f[i]]
    BY <1>6
  <2> QED BY <2>1, <2>2, <2>3, RoundsTyped
<1> QED BY <1>0, <1>6, <1>7, <1>8

\* split_sections goes through the lines of a document.
LEMMA ReadSteps ==
  ASSUME NEW doc \in Text
  PROVE  /\ Read(doc) \in [0 .. Len(doc) -> Reading]
         /\ Read(doc)[0] = [sections |-> <<>>, buf |-> <<>>, path |-> <<>>]
         /\ \A i \in 1 .. Len(doc) :
              Read(doc)[i] = ReadLine(Read(doc)[i - 1], doc[i], Outside(doc, i))
<1>0. PICK n \in Nat : n = Len(doc)
  BY LenProperties DEF Text
<1>1. \A i \in 1 .. n, a \in Reading : ReadLine(a, doc[i], Outside(doc, i)) \in Reading
  <2>1. \A i \in 1 .. n : doc[i] \in Line
    BY <1>0, ElementOfSeq DEF Text
  <2> QED BY <2>1, ReadLineType
<1>2. PICK step :
        step = [i \in 1 .. n |-> [a \in Reading |-> ReadLine(a, doc[i], Outside(doc, i))]]
  OBVIOUS
<1>3. Loop(n, Reading, [sections |-> <<>>, buf |-> <<>>, path |-> <<>>], step)
  <2>1. [sections |-> <<>>, buf |-> <<>>, path |-> <<>>] \in Reading
    BY EmptySeq DEF Reading, Text
  <2> QED BY <1>1, <1>2, <2>1 DEF Loop
<1>4. PICK g : Rounds(n, Reading, [sections |-> <<>>, buf |-> <<>>, path |-> <<>>], step, g)
  BY <1>3, Recursion
<1>5. g = [i \in 0 .. n |->
             IF i = 0 THEN [sections |-> <<>>, buf |-> <<>>, path |-> <<>>]
             ELSE ReadLine(g[i - 1], doc[i], Outside(doc, i))]
  <2>1. \A i \in 1 .. n : i \in 0 .. n /\ i - 1 \in 0 .. n
    OBVIOUS
  <2>2. \A i \in 1 .. n : g[i] = ReadLine(g[i - 1], doc[i], Outside(doc, i))
    BY <1>2, <1>4, <2>1 DEF Rounds
  <2> QED BY <1>4, <2>2 DEF Rounds
<1>6. PICK f : /\ f = [i \in 0 .. n |->
                         IF i = 0 THEN [sections |-> <<>>, buf |-> <<>>, path |-> <<>>]
                         ELSE ReadLine(f[i - 1], doc[i], Outside(doc, i))]
               /\ Read(doc) = f
  BY <1>0, <1>5 DEF Read
<1>7. /\ f[0] = [sections |-> <<>>, buf |-> <<>>, path |-> <<>>]
      /\ \A i \in 1 .. n : f[i] = ReadLine(f[i - 1], doc[i], Outside(doc, i))
  BY <1>6
<1>8. f \in [0 .. n -> Reading]
  <2>1. \A k \in 1 .. n : f[k - 1] \in Reading => f[k] \in Reading
    BY <1>1, <1>7
  <2>2. f[0] \in Reading
    BY <1>3, <1>7 DEF Loop
  <2>3. DOMAIN f = 0 .. n /\ f = [i \in DOMAIN f |-> f[i]]
    BY <1>6
  <2> QED BY <2>1, <2>2, <2>3, RoundsTyped
<1> QED BY <1>0, <1>6, <1>7, <1>8

\* _fence_safe_split goes through the lines of a section ...
LEMMA GatherSteps ==
  ASSUME NEW body \in Text
  PROVE  /\ Gather(body) \in [0 .. Len(body) -> Gathering]
         /\ Gather(body)[0] = [blocks |-> <<>>, current |-> <<>>]
         /\ \A i \in 1 .. Len(body) :
              Gather(body)[i] = BlockLine(Gather(body)[i - 1], body[i], Outside(body, i))
<1>0. PICK n \in Nat : n = Len(body)
  BY LenProperties DEF Text
<1>1. \A i \in 1 .. n, a \in Gathering : BlockLine(a, body[i], Outside(body, i)) \in Gathering
  <2>1. \A i \in 1 .. n : body[i] \in Line
    BY <1>0, ElementOfSeq DEF Text
  <2> QED BY <2>1, BlockLineType
<1>2. PICK step :
        step = [i \in 1 .. n |-> [a \in Gathering |-> BlockLine(a, body[i], Outside(body, i))]]
  OBVIOUS
<1>3. Loop(n, Gathering, [blocks |-> <<>>, current |-> <<>>], step)
  <2>1. [blocks |-> <<>>, current |-> <<>>] \in Gathering
    BY EmptySeq DEF Gathering, Text
  <2> QED BY <1>1, <1>2, <2>1 DEF Loop
<1>4. PICK g : Rounds(n, Gathering, [blocks |-> <<>>, current |-> <<>>], step, g)
  BY <1>3, Recursion
<1>5. g = [i \in 0 .. n |->
             IF i = 0 THEN [blocks |-> <<>>, current |-> <<>>]
             ELSE BlockLine(g[i - 1], body[i], Outside(body, i))]
  <2>1. \A i \in 1 .. n : i \in 0 .. n /\ i - 1 \in 0 .. n
    OBVIOUS
  <2>2. \A i \in 1 .. n : g[i] = BlockLine(g[i - 1], body[i], Outside(body, i))
    BY <1>2, <1>4, <2>1 DEF Rounds
  <2> QED BY <1>4, <2>2 DEF Rounds
<1>6. PICK f : /\ f = [i \in 0 .. n |->
                         IF i = 0 THEN [blocks |-> <<>>, current |-> <<>>]
                         ELSE BlockLine(f[i - 1], body[i], Outside(body, i))]
               /\ Gather(body) = f
  BY <1>0, <1>5 DEF Gather
<1>7. /\ f[0] = [blocks |-> <<>>, current |-> <<>>]
      /\ \A i \in 1 .. n : f[i] = BlockLine(f[i - 1], body[i], Outside(body, i))
  BY <1>6
<1>8. f \in [0 .. n -> Gathering]
  <2>1. \A k \in 1 .. n : f[k - 1] \in Gathering => f[k] \in Gathering
    BY <1>1, <1>7
  <2>2. f[0] \in Gathering
    BY <1>3, <1>7 DEF Loop
  <2>3. DOMAIN f = 0 .. n /\ f = [i \in DOMAIN f |-> f[i]]
    BY <1>6
  <2> QED BY <2>1, <2>2, <2>3, RoundsTyped
<1> QED BY <1>0, <1>6, <1>7, <1>8

\* ... and through its blocks.
LEMMA PackSteps ==
  ASSUME NEW target \in Nat, NEW overlap \in Nat, NEW blocks \in Seq(Text)
  PROVE  /\ Pack(blocks, target, overlap) \in [0 .. Len(blocks) -> Packing]
         /\ Pack(blocks, target, overlap)[0] = [out |-> <<>>, buf |-> <<>>]
         /\ \A i \in 1 .. Len(blocks) :
              Pack(blocks, target, overlap)[i] =
                PackBlock(Pack(blocks, target, overlap)[i - 1], blocks[i], target, overlap)
<1>0. PICK n \in Nat : n = Len(blocks)
  BY LenProperties
<1>1. \A i \in 1 .. n, a \in Packing : PackBlock(a, blocks[i], target, overlap) \in Packing
  <2>1. \A i \in 1 .. n : blocks[i] \in Text
    BY <1>0, ElementOfSeq
  <2> QED BY <2>1, PackBlockType
<1>2. PICK step :
        step = [i \in 1 .. n |-> [a \in Packing |-> PackBlock(a, blocks[i], target, overlap)]]
  OBVIOUS
<1>3. Loop(n, Packing, [out |-> <<>>, buf |-> <<>>], step)
  <2>1. [out |-> <<>>, buf |-> <<>>] \in Packing
    BY EmptySeq DEF Packing
  <2> QED BY <1>1, <1>2, <2>1 DEF Loop
<1>4. PICK g : Rounds(n, Packing, [out |-> <<>>, buf |-> <<>>], step, g)
  BY <1>3, Recursion
<1>5. g = [i \in 0 .. n |->
             IF i = 0 THEN [out |-> <<>>, buf |-> <<>>]
             ELSE PackBlock(g[i - 1], blocks[i], target, overlap)]
  <2>1. \A i \in 1 .. n : i \in 0 .. n /\ i - 1 \in 0 .. n
    OBVIOUS
  <2>2. \A i \in 1 .. n : g[i] = PackBlock(g[i - 1], blocks[i], target, overlap)
    BY <1>2, <1>4, <2>1 DEF Rounds
  <2> QED BY <1>4, <2>2 DEF Rounds
<1>6. PICK f : /\ f = [i \in 0 .. n |->
                         IF i = 0 THEN [out |-> <<>>, buf |-> <<>>]
                         ELSE PackBlock(f[i - 1], blocks[i], target, overlap)]
               /\ Pack(blocks, target, overlap) = f
  BY <1>0, <1>5 DEF Pack
<1>7. /\ f[0] = [out |-> <<>>, buf |-> <<>>]
      /\ \A i \in 1 .. n : f[i] = PackBlock(f[i - 1], blocks[i], target, overlap)
  BY <1>6
<1>8. f \in [0 .. n -> Packing]
  <2>1. \A k \in 1 .. n : f[k - 1] \in Packing => f[k] \in Packing
    BY <1>1, <1>7
  <2>2. f[0] \in Packing
    BY <1>3, <1>7 DEF Loop
  <2>3. DOMAIN f = 0 .. n /\ f = [i \in DOMAIN f |-> f[i]]
    BY <1>6
  <2> QED BY <2>1, <2>2, <2>3, RoundsTyped
<1> QED BY <1>0, <1>6, <1>7, <1>8

\* The text of the first blocks of a chunk.
LEMMA JoinSteps ==
  ASSUME NEW blocks \in Seq(Text)
  PROVE  /\ JoinedBlocks(blocks) \in [0 .. Len(blocks) -> Text]
         /\ JoinedBlocks(blocks)[0] = <<>>
         /\ \A i \in 1 .. Len(blocks) :
              JoinedBlocks(blocks)[i] = Joined(JoinedBlocks(blocks)[i - 1], blocks[i])
<1>0. PICK n \in Nat : n = Len(blocks)
  BY LenProperties
<1>1. \A i \in 1 .. n, a \in Text : Joined(a, blocks[i]) \in Text
  <2>1. \A i \in 1 .. n : blocks[i] \in Text
    BY <1>0, ElementOfSeq
  <2> QED BY <2>1, JoinedIs
<1>2. PICK step : step = [i \in 1 .. n |-> [a \in Text |-> Joined(a, blocks[i])]]
  OBVIOUS
<1>3. Loop(n, Text, <<>>, step)
  <2>1. <<>> \in Text
    BY EmptySeq DEF Text
  <2> QED BY <1>1, <1>2, <2>1 DEF Loop
<1>4. PICK g : Rounds(n, Text, <<>>, step, g)
  BY <1>3, Recursion
<1>5. g = [i \in 0 .. n |-> IF i = 0 THEN <<>> ELSE Joined(g[i - 1], blocks[i])]
  <2>1. \A i \in 1 .. n : i \in 0 .. n /\ i - 1 \in 0 .. n
    OBVIOUS
  <2>2. \A i \in 1 .. n : g[i] = Joined(g[i - 1], blocks[i])
    BY <1>2, <1>4, <2>1 DEF Rounds
  <2> QED BY <1>4, <2>2 DEF Rounds
<1>6. PICK f : /\ f = [i \in 0 .. n |-> IF i = 0 THEN <<>> ELSE Joined(f[i - 1], blocks[i])]
               /\ JoinedBlocks(blocks) = f
  BY <1>0, <1>5 DEF JoinedBlocks
<1>7. f[0] = <<>> /\ \A i \in 1 .. n : f[i] = Joined(f[i - 1], blocks[i])
  BY <1>6
<1>8. f \in [0 .. n -> Text]
  <2>1. \A k \in 1 .. n : f[k - 1] \in Text => f[k] \in Text
    BY <1>1, <1>7
  <2>2. f[0] \in Text
    BY <1>3, <1>7 DEF Loop
  <2>3. DOMAIN f = 0 .. n /\ f = [i \in DOMAIN f |-> f[i]]
    BY <1>6
  <2> QED BY <2>1, <2>2, <2>3, RoundsTyped
<1> QED BY <1>0, <1>6, <1>7, <1>8

\* chunk_markdown goes through the sections of a document, to merge the small ones ...
LEMMA MergeSteps ==
  ASSUME NEW sections \in Seq(Section)
  PROVE  /\ Merge(sections) \in [0 .. Len(sections) -> Merging]
         /\ Merge(sections)[0] = [merged |-> <<>>, carry |-> <<>>, path |-> <<>>]
         /\ \A i \in 1 .. Len(sections) :
              Merge(sections)[i] = MergeSection(Merge(sections)[i - 1], sections[i])
<1>0. PICK n \in Nat : n = Len(sections)
  BY LenProperties
<1>1. \A i \in 1 .. n, a \in Merging : MergeSection(a, sections[i]) \in Merging
  <2>1. \A i \in 1 .. n : sections[i] \in Section
    BY <1>0, ElementOfSeq
  <2> QED BY <2>1, MergeSectionType
<1>2. PICK step : step = [i \in 1 .. n |-> [a \in Merging |-> MergeSection(a, sections[i])]]
  OBVIOUS
<1>3. Loop(n, Merging, [merged |-> <<>>, carry |-> <<>>, path |-> <<>>], step)
  <2>1. [merged |-> <<>>, carry |-> <<>>, path |-> <<>>] \in Merging
    BY EmptySeq DEF Merging, Text
  <2> QED BY <1>1, <1>2, <2>1 DEF Loop
<1>4. PICK g : Rounds(n, Merging, [merged |-> <<>>, carry |-> <<>>, path |-> <<>>], step, g)
  BY <1>3, Recursion
<1>5. g = [i \in 0 .. n |->
             IF i = 0 THEN [merged |-> <<>>, carry |-> <<>>, path |-> <<>>]
             ELSE MergeSection(g[i - 1], sections[i])]
  <2>1. \A i \in 1 .. n : i \in 0 .. n /\ i - 1 \in 0 .. n
    OBVIOUS
  <2>2. \A i \in 1 .. n : g[i] = MergeSection(g[i - 1], sections[i])
    BY <1>2, <1>4, <2>1 DEF Rounds
  <2> QED BY <1>4, <2>2 DEF Rounds
<1>6. PICK f : /\ f = [i \in 0 .. n |->
                         IF i = 0 THEN [merged |-> <<>>, carry |-> <<>>, path |-> <<>>]
                         ELSE MergeSection(f[i - 1], sections[i])]
               /\ Merge(sections) = f
  BY <1>0, <1>5 DEF Merge
<1>7. /\ f[0] = [merged |-> <<>>, carry |-> <<>>, path |-> <<>>]
      /\ \A i \in 1 .. n : f[i] = MergeSection(f[i - 1], sections[i])
  BY <1>6
<1>8. f \in [0 .. n -> Merging]
  <2>1. \A k \in 1 .. n : f[k - 1] \in Merging => f[k] \in Merging
    BY <1>1, <1>7
  <2>2. f[0] \in Merging
    BY <1>3, <1>7 DEF Loop
  <2>3. DOMAIN f = 0 .. n /\ f = [i \in DOMAIN f |-> f[i]]
    BY <1>6
  <2> QED BY <2>1, <2>2, <2>3, RoundsTyped
<1> QED BY <1>0, <1>6, <1>7, <1>8

-----------------------------------------------------------------------------
(* Fences.                                                                 *)

\* Two texts with the same lines on a stretch, and the same fence open before it, have
\* the same fences open along it.
Alike(s, a, t, b, n) ==
  /\ a + n <= Len(s) /\ b + n <= Len(t) /\ Fences(s)[a] = Fences(t)[b]
  /\ \A j \in 1 .. n : s[a + j] = t[b + j]

FencesAlike(s, a, t, b, n) == \A j \in 0 .. n : Fences(s)[a + j] = Fences(t)[b + j]

\* The fences of two texts agree where their lines do.
LEMMA FenceMatch ==
  ASSUME NEW s \in Text, NEW t \in Text, NEW a \in Nat, NEW b \in Nat, NEW n \in Nat,
         Alike(s, a, t, b, n)
  PROVE  FencesAlike(s, a, t, b, n)
<1>0. /\ a + n <= Len(s) /\ b + n <= Len(t) /\ Fences(s)[a] = Fences(t)[b]
      /\ \A j \in 1 .. n : s[a + j] = t[b + j]
  BY DEF Alike
<1>1. Len(s) \in Nat /\ Len(t) \in Nat
  BY LenProperties DEF Text
<1> DEFINE S == {j \in 0 .. n : Fences(s)[a + j] = Fences(t)[b + j]}
<1>2. 0 \in S
  BY <1>0
<1>3. ASSUME NEW k \in 0 .. n - 1, k \in S PROVE k + 1 \in S
  <2>1. /\ k + 1 \in 1 .. n
        /\ a + (k + 1) \in 1 .. Len(s) /\ b + (k + 1) \in 1 .. Len(t)
        /\ (a + (k + 1)) - 1 = a + k /\ (b + (k + 1)) - 1 = b + k
    BY <1>0, <1>1
  <2>2. Fences(s)[a + (k + 1)] = FenceAfter(Fences(s)[a + k], s[a + (k + 1)])
    BY <2>1, FenceSteps
  <2>3. Fences(t)[b + (k + 1)] = FenceAfter(Fences(t)[b + k], t[b + (k + 1)])
    BY <2>1, FenceSteps
  <2>4. s[a + (k + 1)] = t[b + (k + 1)] /\ Fences(s)[a + k] = Fences(t)[b + k]
    BY <1>0, <1>3, <2>1
  <2> QED BY <2>1, <2>2, <2>3, <2>4
<1> HIDE DEF S
<1>4. \A k \in 0 .. n : k \in S
  BY <1>2, <1>3, RangeInduction
<1> QED BY <1>4 DEF S, FencesAlike

\* Only a fence opens or closes one.
LEMMA FenceQuiet ==
  ASSUME NEW t \in Text, NEW a \in 0 .. Len(t), NEW b \in a .. Len(t),
         \A i \in a + 1 .. b : t[i].kind # "fence"
  PROVE  \A i \in a .. b : Fences(t)[i] = Fences(t)[a]
<1>1. Len(t) \in Nat /\ a \in Nat /\ b \in Nat
  BY LenProperties DEF Text
<1> DEFINE S == {j \in 0 .. b - a : Fences(t)[a + j] = Fences(t)[a]}
<1>2. 0 \in S
  BY <1>1
<1>3. ASSUME NEW k \in 0 .. (b - a) - 1, k \in S PROVE k + 1 \in S
  <2>0. k \in Nat /\ k + 1 <= b - a /\ b <= Len(t)
    BY <1>1
  <2>1. /\ a + (k + 1) \in 1 .. Len(t) /\ a + (k + 1) \in a + 1 .. b
        /\ (a + (k + 1)) - 1 = a + k /\ k + 1 \in 0 .. b - a
    BY <1>1, <2>0
  <2>2. Fences(t)[a + (k + 1)] = FenceAfter(Fences(t)[a + k], t[a + (k + 1)])
    BY <2>1, FenceSteps
  <2>3. FenceAfter(Fences(t)[a + k], t[a + (k + 1)]) = Fences(t)[a + k]
    BY <2>1 DEF FenceAfter
  <2> QED BY <1>3, <2>1, <2>2, <2>3
<1> HIDE DEF S
<1>4. \A k \in 0 .. b - a : k \in S
  <2>1. b - a \in Nat
    BY <1>1
  <2> QED BY <1>2, <1>3, <2>1, RangeInduction
<1>5. ASSUME NEW i \in a .. b PROVE Fences(t)[i] = Fences(t)[a]
  <2>1. i - a \in 0 .. b - a /\ a + (i - a) = i
    BY <1>1
  <2>2. i - a \in S
    BY <1>4, <2>1
  <2> QED BY <2>1, <2>2 DEF S
<1> QED BY <1>5

-----------------------------------------------------------------------------
(* Excerpts of a document: what sections and chunks are.                   *)

Doc(doc) == doc \in Text /\ \A i \in 1 .. Len(doc) : doc[i].at = i

\* The fence is closed after line k, or no line of text comes later.
Closed(doc, k) ==
  Fences(doc)[k] = 0 \/ \A i \in 1 .. Len(doc) : i > k => doc[i].kind = "blank"

\* Line i of a text is a line of the document with the same fence open before it, or the
\* empty line that joins two texts.
Quoted(doc, t, i) ==
  IF t[i].at = 0 THEN t[i] = Blank /\ Fences(t)[i - 1] = 0
  ELSE /\ t[i].at \in 1 .. Len(doc) /\ t[i] = doc[t[i].at]
       /\ Fences(t)[i - 1] = Fences(doc)[t[i].at - 1]

\* Where in the document a text begins and ends.
FirstAt(t) == t[1].at
FinalAt(t) == t[Len(t)].at

\* Lines of the document in its order, from one with text to one with text; only an
\* empty line stands where lines were left out.
Excerpt(doc, t) ==
  /\ t \in Text /\ t # <<>>
  /\ t[1].kind # "blank" /\ t[Len(t)].kind # "blank"
  /\ \A i \in 1 .. Len(t) : Quoted(doc, t, i)
  /\ \A i, j \in 1 .. Len(t) :
       i < j /\ t[i].at # 0 /\ t[j].at # 0 => t[i].at < t[j].at
  /\ \A i \in 1 .. Len(t) - 1 :
       t[i].at # 0 /\ t[i + 1].at # 0 => t[i + 1].at = t[i].at + 1
  /\ Closed(doc, FinalAt(t))

\* The ends of an excerpt are lines of the document, and the fence after each line is
\* that of the document.
LEMMA ExcerptLines ==
  ASSUME NEW doc, Doc(doc), NEW t, Excerpt(doc, t)
  PROVE  /\ t \in Text /\ Len(t) \in Nat \ {0} /\ Len(doc) \in Nat /\ doc \in Text
         /\ FirstAt(t) \in 1 .. Len(doc) /\ FinalAt(t) \in 1 .. Len(doc)
         /\ FirstAt(t) <= FinalAt(t)
         /\ doc[FirstAt(t)].kind # "blank" /\ doc[FinalAt(t)].kind # "blank"
         /\ \A i \in 1 .. Len(t) :
              t[i].at # 0 =>
                /\ t[i].at \in 1 .. Len(doc) /\ t[i] = doc[t[i].at]
                /\ FirstAt(t) <= t[i].at /\ t[i].at <= FinalAt(t)
                /\ Fences(t)[i - 1] = Fences(doc)[t[i].at - 1]
                /\ Fences(t)[i] = Fences(doc)[t[i].at]
         /\ \A i \in 1 .. Len(t) :
              t[i].at = 0 => t[i] = Blank /\ Fences(t)[i - 1] = 0 /\ Fences(t)[i] = 0
<1>1. t \in Text /\ doc \in Text /\ t # <<>>
  BY DEF Doc, Excerpt
<1>2. Len(t) \in Nat \ {0} /\ Len(doc) \in Nat
  BY <1>1, EmptySeq, LenProperties DEF Text
<1>3. \A i \in 1 .. Len(t) : Quoted(doc, t, i) /\ t[i] \in Line
  BY <1>1, ElementOfSeq DEF Excerpt, Text
<1>4. ASSUME NEW i \in 1 .. Len(t), t[i].at = 0
      PROVE  t[i] = Blank /\ Fences(t)[i - 1] = 0 /\ Fences(t)[i] = 0
  <2>1. t[i] = Blank /\ Fences(t)[i - 1] = 0
    BY <1>3, <1>4 DEF Quoted
  <2>2. Fences(t)[i] = FenceAfter(Fences(t)[i - 1], t[i])
    BY <1>1, FenceSteps
  <2>3. FenceAfter(0, Blank) = 0
    BY DEF FenceAfter, Blank
  <2> QED BY <2>1, <2>2, <2>3
<1>5. t[1].at # 0 /\ t[Len(t)].at # 0
  <2>1. Blank.kind = "blank"
    BY DEF Blank
  <2> QED BY <1>2, <1>4, <2>1 DEF Excerpt
<1>6. ASSUME NEW i \in 1 .. Len(t), t[i].at # 0
      PROVE  /\ t[i].at \in 1 .. Len(doc) /\ t[i] = doc[t[i].at]
             /\ FirstAt(t) <= t[i].at /\ t[i].at <= FinalAt(t)
             /\ Fences(t)[i - 1] = Fences(doc)[t[i].at - 1]
             /\ Fences(t)[i] = Fences(doc)[t[i].at]
  <2>1. /\ t[i].at \in 1 .. Len(doc) /\ t[i] = doc[t[i].at]
        /\ Fences(t)[i - 1] = Fences(doc)[t[i].at - 1]
    BY <1>3, <1>6 DEF Quoted
  <2>2. /\ Fences(t)[i] = FenceAfter(Fences(t)[i - 1], t[i])
        /\ Fences(doc)[t[i].at] = FenceAfter(Fences(doc)[t[i].at - 1], doc[t[i].at])
    BY <1>1, <2>1, FenceSteps
  <2>3. Fences(t)[i] = Fences(doc)[t[i].at]
    BY <2>1, <2>2
  <2>4. 1 \in 1 .. Len(t) /\ Len(t) \in 1 .. Len(t) /\ 1 <= i /\ i <= Len(t)
    BY <1>2
  <2>5. 1 < i => t[1].at < t[i].at
    BY <1>5, <1>6, <2>4 DEF Excerpt
  <2>6. i < Len(t) => t[i].at < t[Len(t)].at
    BY <1>5, <1>6, <2>4 DEF Excerpt
  <2>7. t[1].at \in Nat /\ t[Len(t)].at \in Nat /\ t[i].at \in Nat
    BY <1>3, <2>4 DEF Line
  <2>8. FirstAt(t) <= t[i].at /\ t[i].at <= FinalAt(t)
    BY <1>2, <2>4, <2>5, <2>6, <2>7 DEF FirstAt, FinalAt
  <2> QED BY <2>1, <2>3, <2>8
<1>7. 1 \in 1 .. Len(t) /\ Len(t) \in 1 .. Len(t)
  BY <1>2
<1>8. /\ FirstAt(t) \in 1 .. Len(doc) /\ FinalAt(t) \in 1 .. Len(doc)
      /\ FirstAt(t) <= FinalAt(t)
      /\ doc[FirstAt(t)].kind # "blank" /\ doc[FinalAt(t)].kind # "blank"
  <2>1. t[1] = doc[t[1].at] /\ t[Len(t)] = doc[t[Len(t)].at]
    BY <1>5, <1>6, <1>7
  <2> QED BY <1>5, <1>6, <1>7, <2>1 DEF FirstAt, FinalAt, Excerpt
<1> QED BY <1>1, <1>2, <1>4, <1>6, <1>8

\* The places of a text are those of its lines, but of the empty ones that join.
LEMMA PlacesIs ==
  ASSUME NEW t \in Text
  PROVE  /\ \A i \in 1 .. Len(t) : t[i].at # 0 => t[i].at \in Places(t)
         /\ \A k \in Places(t) : k # 0 /\ \E i \in 1 .. Len(t) : t[i].at = k
<1>1. DOMAIN t = 1 .. Len(t)
  BY LenProperties DEF Text
<1> QED BY <1>1 DEF Places

\* Lines of the document between two lines of text, out of a fence at both ends, are an
\* excerpt.
LEMMA ExcerptOfStretch ==
  ASSUME NEW doc, Doc(doc), NEW t \in Text, t # <<>>, NEW o \in Nat,
         o + Len(t) <= Len(doc), \A i \in 1 .. Len(t) : t[i] = doc[o + i],
         Fences(doc)[o] = 0, Closed(doc, o + Len(t)),
         t[1].kind # "blank", t[Len(t)].kind # "blank"
  PROVE  /\ Excerpt(doc, t) /\ FirstAt(t) = o + 1 /\ FinalAt(t) = o + Len(t)
         /\ \A k \in o + 1 .. o + Len(t) : k \in Places(t)
<1>1. PICK n \in Nat : n = Len(t) /\ n # 0
  BY EmptySeq, LenProperties DEF Text
<1>2. doc \in Text /\ Len(doc) \in Nat /\ \A i \in 1 .. Len(doc) : doc[i].at = i
  BY LenProperties DEF Doc, Text
<1>3. \A i \in 1 .. n : t[i].at = o + i /\ o + i \in 1 .. Len(doc) /\ o + i # 0
  <2>1. \A i \in 1 .. n : o + i \in 1 .. Len(doc) /\ o + i # 0
    BY <1>1, <1>2
  <2>2. \A i \in 1 .. n : t[i].at = doc[o + i].at
    BY <1>1
  <2> QED BY <1>2, <2>1, <2>2
<1>4. \A i \in 0 .. n : Fences(t)[i] = Fences(doc)[o + i]
  <2>1. Alike(t, 0, doc, o, n)
    BY <1>1, FenceSteps DEF Alike
  <2>2. 0 \in Nat /\ n \in Nat /\ t \in Text /\ doc \in Text
    BY <1>1, <1>2
  <2>3. FencesAlike(t, 0, doc, o, n)
    BY <2>1, <2>2, FenceMatch
  <2> QED BY <2>3 DEF FencesAlike
<1>5. \A i \in 1 .. n : Quoted(doc, t, i)
  <2>1. ASSUME NEW i \in 1 .. n PROVE Fences(t)[i - 1] = Fences(doc)[(o + i) - 1]
    <3>1. i - 1 \in 0 .. n /\ o + (i - 1) = (o + i) - 1
      BY <1>1
    <3> QED BY <1>4, <3>1
  <2> QED BY <1>1, <1>3, <2>1 DEF Quoted
<1>6. /\ \A i, j \in 1 .. n : i < j => t[i].at < t[j].at
      /\ \A i \in 1 .. n - 1 : t[i + 1].at = t[i].at + 1
  <2>1. \A i \in 1 .. n - 1 : i \in 1 .. n /\ i + 1 \in 1 .. n
    OBVIOUS
  <2> QED BY <1>3, <2>1
<1>7. FirstAt(t) = o + 1 /\ FinalAt(t) = o + n
  BY <1>1, <1>3 DEF FirstAt, FinalAt
<1>8. ASSUME NEW k \in o + 1 .. o + n PROVE k \in Places(t)
  <2>1. k - o \in 1 .. n /\ o + (k - o) = k /\ k # 0
    OBVIOUS
  <2>2. PICK i \in 1 .. Len(t) : i = k - o
    BY <1>1, <2>1
  <2>3. t[i].at = k
    BY <1>1, <1>3, <2>1, <2>2
  <2> QED BY <2>1, <2>3, PlacesIs
<1>9. FinalAt(t) = o + Len(t) /\ \A k \in o + 1 .. o + Len(t) : k \in Places(t)
  BY <1>1, <1>7, <1>8
<1>10. Excerpt(doc, t)
  BY <1>1, <1>5, <1>6, <1>7 DEF Excerpt
<1> QED BY <1>7, <1>9, <1>10

\* What flush makes of the lines after lo, up to hi: nothing of blank lines, an excerpt
\* with every line of text of any other.
LEMMA ExcerptStripped ==
  ASSUME NEW doc, Doc(doc), NEW lo \in 0 .. Len(doc), NEW hi \in lo .. Len(doc),
         NEW buf \in Text, buf = SubSeq(doc, lo + 1, hi),
         Fences(doc)[lo] = 0, Fences(doc)[hi] = 0 \/ hi = Len(doc)
  PROVE  \/ Stripped(buf) = <<>> /\ \A i \in lo + 1 .. hi : doc[i].kind = "blank"
         \/ /\ Excerpt(doc, Stripped(buf)) /\ Stripped(buf) # <<>>
            /\ lo < FirstAt(Stripped(buf)) /\ FinalAt(Stripped(buf)) <= hi
            /\ \A i \in lo + 1 .. hi : doc[i].kind # "blank" => i \in Places(Stripped(buf))
<1>1. doc \in Text /\ Len(doc) \in Nat /\ lo \in Nat /\ hi \in Nat
  BY LenProperties DEF Doc, Text
<1>2. /\ Len(buf) = hi - lo
      /\ \A i \in 1 .. hi - lo : buf[i] = doc[lo + i]
  BY <1>1, StretchAfter DEF Text
<1>3. CASE Stripped(buf) = <<>> /\ \A i \in 1 .. Len(buf) : buf[i].kind = "blank"
  <2>1. ASSUME NEW i \in lo + 1 .. hi PROVE doc[i].kind = "blank"
    <3>1. i - lo \in 1 .. hi - lo /\ lo + (i - lo) = i
      BY <1>1
    <3>2. buf[i - lo].kind = "blank" /\ buf[i - lo] = doc[i]
      BY <1>2, <1>3, <3>1
    <3> QED BY <3>2
  <2> QED BY <1>3, <2>1
<1>4. ASSUME NEW a \in 1 .. Len(buf), NEW b \in 1 .. Len(buf), a <= b,
             Stripped(buf) = SubSeq(buf, a, b),
             buf[a].kind # "blank", buf[b].kind # "blank",
             \A i \in 1 .. Len(buf) : buf[i].kind # "blank" => a <= i /\ i <= b
      PROVE  /\ Excerpt(doc, Stripped(buf)) /\ Stripped(buf) # <<>>
             /\ lo < FirstAt(Stripped(buf)) /\ FinalAt(Stripped(buf)) <= hi
             /\ \A i \in lo + 1 .. hi : doc[i].kind # "blank" => i \in Places(Stripped(buf))
  <2>1. PICK t \in Text, n \in Nat : /\ t = Stripped(buf) /\ n = b - a + 1
                                   /\ Len(t) = n
                                   /\ \A i \in 1 .. n : t[i] = buf[a + i - 1]
    <3>1. a \in 1 .. Len(buf) + 1 /\ b \in 0 .. Len(buf) /\ a <= b + 1
      BY <1>1, <1>2, <1>4
    <3>2. /\ SubSeq(buf, a, b) \in Text
          /\ Len(SubSeq(buf, a, b)) = b - a + 1
          /\ \A i \in 1 .. b - a + 1 : SubSeq(buf, a, b)[i] = buf[a + i - 1]
      BY <3>1, Stretch DEF Text
    <3>3. b - a + 1 \in Nat
      BY <1>1, <1>2, <1>4
    <3> QED BY <1>4, <3>2, <3>3
  <2>2. PICK o \in Nat : o = lo + a - 1
    BY <1>1
  <2>3. /\ a \in Nat /\ b \in Nat /\ 1 <= a /\ a <= b /\ b <= hi - lo /\ n >= 1
        /\ o + n = lo + b /\ o + n <= hi /\ lo <= o
    <3>1. a \in Nat /\ b \in Nat /\ 1 <= a /\ a <= b /\ b <= hi - lo
      BY <1>1, <1>2, <1>4
    <3>2. n >= 1 /\ o + n = lo + b
      BY <1>1, <2>1, <2>2, <3>1
    <3> QED BY <1>1, <2>2, <3>1, <3>2
  <2>4. \A i \in 1 .. n : t[i] = doc[o + i]
    <3>1. ASSUME NEW i \in 1 .. n PROVE t[i] = doc[o + i]
      <4>1. a + i - 1 \in 1 .. hi - lo /\ lo + (a + i - 1) = o + i
        BY <1>1, <2>1, <2>2, <2>3
      <4>2. t[i] = buf[a + i - 1]
        BY <2>1
      <4>3. buf[a + i - 1] = doc[lo + (a + i - 1)]
        BY <1>2, <4>1
      <4> QED BY <4>1, <4>2, <4>3
    <3> QED BY <3>1
  <2>5. \A i \in lo + 1 .. hi : doc[i].kind # "blank" => i \in o + 1 .. o + n
    <3>1. ASSUME NEW i \in lo + 1 .. hi, doc[i].kind # "blank" PROVE i \in o + 1 .. o + n
      <4>1. i - lo \in 1 .. hi - lo /\ lo + (i - lo) = i
        BY <1>1
      <4>2. buf[i - lo].kind # "blank"
        BY <1>2, <3>1, <4>1
      <4>3. a <= i - lo /\ i - lo <= b
        BY <1>2, <1>4, <4>1, <4>2
      <4> QED BY <1>1, <2>2, <2>3, <4>3
    <3> QED BY <3>1
  <2>6. Fences(doc)[o] = 0
    <3>1. \A i \in lo + 1 .. o : doc[i].kind # "fence"
      <4>1. \A i \in lo + 1 .. o : i \in lo + 1 .. hi /\ i \notin o + 1 .. o + n
        BY <1>1, <2>3
      <4>2. \A i \in lo + 1 .. o : doc[i].kind = "blank"
        BY <2>5, <4>1
      <4> QED BY <4>2
    <3>2. o \in lo .. Len(doc) /\ o \in lo .. o
      BY <1>1, <2>3
    <3>3. \A i \in lo .. o : Fences(doc)[i] = Fences(doc)[lo]
      BY <1>1, <3>1, <3>2, FenceQuiet
    <3> QED BY <3>2, <3>3
  <2>7. Closed(doc, o + n)
    <3>1. \A i \in o + n + 1 .. hi : doc[i].kind = "blank"
      <4>1. \A i \in o + n + 1 .. hi : i \in lo + 1 .. hi /\ i \notin o + 1 .. o + n
        BY <1>1, <2>3
      <4> QED BY <2>5, <4>1
    <3>2. CASE Fences(doc)[hi] = 0
      <4>1. PICK e \in 0 .. Len(doc) : e = o + n /\ hi \in e .. Len(doc)
        BY <1>1, <2>3
      <4>2. \A i \in e + 1 .. hi : doc[i].kind # "fence"
        BY <3>1, <4>1
      <4>3. \A i \in e .. hi : Fences(doc)[i] = Fences(doc)[e]
        BY <1>1, <4>1, <4>2, FenceQuiet
      <4>4. hi \in e .. hi
        BY <1>1, <4>1
      <4> QED BY <3>2, <4>1, <4>3, <4>4 DEF Closed
    <3>3. CASE hi = Len(doc)
      <4>1. \A i \in 1 .. Len(doc) : i > o + n => i \in o + n + 1 .. hi
        BY <1>1, <2>3, <3>3
      <4> QED BY <3>1, <4>1 DEF Closed
    <3> QED BY <3>2, <3>3
  <2>8. t # <<>> /\ t[1].kind # "blank" /\ t[Len(t)].kind # "blank"
    <3>1. t[1] = buf[a + 1 - 1] /\ t[n] = buf[a + n - 1]
      BY <2>1, <2>3
    <3>2. a + 1 - 1 = a /\ a + n - 1 = b
      BY <2>1, <2>3
    <3>3. t # <<>>
      BY <2>1, <2>3, EmptySeq
    <3> QED BY <1>4, <2>1, <3>1, <3>2, <3>3
  <2>9. /\ Excerpt(doc, t) /\ FirstAt(t) = o + 1 /\ FinalAt(t) = o + n
        /\ \A k \in o + 1 .. o + n : k \in Places(t)
    <3>1. o + n <= Len(doc)
      BY <1>1, <2>3
    <3> QED BY <2>1, <2>4, <2>6, <2>7, <2>8, <3>1, ExcerptOfStretch
  <2>10. lo < FirstAt(t) /\ FinalAt(t) <= hi
    BY <1>1, <2>3, <2>9
  <2>11. \A i \in lo + 1 .. hi : doc[i].kind # "blank" => i \in Places(t)
    BY <2>5, <2>9
  <2> QED BY <2>1, <2>8, <2>9, <2>10, <2>11
<1> QED BY <1>3, <1>4, StrippedIs

\* A text that follows another in the document is joined to it.
LEMMA ExcerptJoined ==
  ASSUME NEW doc, Doc(doc), NEW s, Excerpt(doc, s), NEW t, Excerpt(doc, t),
         FinalAt(s) < FirstAt(t)
  PROVE  /\ Excerpt(doc, Joined(s, t))
         /\ FirstAt(Joined(s, t)) = FirstAt(s) /\ FinalAt(Joined(s, t)) = FinalAt(t)
         /\ Places(s) \cup Places(t) \subseteq Places(Joined(s, t))
<1>1. s \in Text /\ t \in Text /\ s # <<>> /\ t # <<>> /\ doc \in Text
  BY DEF Excerpt, Doc
<1>2. PICK m \in Nat \ {0}, n \in Nat \ {0} : m = Len(s) /\ n = Len(t)
  BY ExcerptLines
<1>3. PICK u \in Text : u = Joined(s, t)
  BY <1>1, JoinedIs
<1>4. /\ Len(u) = m + 1 + n
      /\ \A i \in 1 .. m : u[i] = s[i]
      /\ u[m + 1] = Blank
      /\ \A i \in 1 .. n : u[m + 1 + i] = t[i]
  <2>1. /\ Len(u) = Len(s) + 1 + Len(t)
        /\ \A i \in 1 .. Len(s) : u[i] = s[i]
        /\ u[Len(s) + 1] = Blank
        /\ \A i \in 1 .. Len(t) : u[Len(s) + 1 + i] = t[i]
    <3>1. /\ Len(Joined(s, t)) = Len(s) + 1 + Len(t)
          /\ \A i \in 1 .. Len(s) : Joined(s, t)[i] = s[i]
          /\ Joined(s, t)[Len(s) + 1] = Blank
          /\ \A i \in 1 .. Len(t) : Joined(s, t)[Len(s) + 1 + i] = t[i]
      BY <1>1, JoinedIs
    <3> QED BY <1>3, <3>1
  <2> QED BY <1>2, <2>1
<1>5. /\ Fences(u)[m] = 0 /\ Fences(u)[m + 1] = 0
      /\ \A i \in 0 .. m : Fences(u)[i] = Fences(s)[i]
      /\ \A i \in 0 .. n : Fences(u)[m + 1 + i] = Fences(t)[i]
  <2>1. \A i \in 0 .. m : Fences(u)[i] = Fences(s)[i]
    <3>1. Alike(u, 0, s, 0, m)
      BY <1>1, <1>2, <1>4, FenceSteps DEF Alike
    <3>2. FencesAlike(u, 0, s, 0, m)
      BY <1>1, <1>2, <3>1, FenceMatch
    <3> QED BY <3>2 DEF FencesAlike
  <2>2. Fences(u)[m] = 0
    <3>1. Fences(s)[m] = Fences(doc)[FinalAt(s)]
      BY <1>2, ExcerptLines DEF FinalAt
    <3>2. Fences(doc)[FinalAt(s)] = 0
      <4>1. /\ FirstAt(t) \in 1 .. Len(doc) /\ doc[FirstAt(t)].kind # "blank"
            /\ FirstAt(t) \in Nat /\ FinalAt(s) \in Nat
        BY ExcerptLines
      <4>2. Closed(doc, FinalAt(s))
        BY DEF Excerpt
      <4> QED BY <4>1, <4>2 DEF Closed
    <3> QED BY <1>2, <2>1, <3>1, <3>2
  <2>3. Fences(u)[m + 1] = 0
    <3>1. m + 1 \in 1 .. Len(u) /\ (m + 1) - 1 = m
      BY <1>2, <1>4
    <3>2. Fences(u)[m + 1] = FenceAfter(Fences(u)[m], u[m + 1])
      BY <3>1, FenceSteps
    <3> QED BY <1>4, <2>2, <3>2 DEF FenceAfter, Blank
  <2>4. \A i \in 0 .. n : Fences(u)[m + 1 + i] = Fences(t)[i]
    <3>1. Alike(u, m + 1, t, 0, n)
      BY <1>1, <1>2, <1>4, <2>3, FenceSteps DEF Alike
    <3>2. FencesAlike(u, m + 1, t, 0, n)
      BY <1>1, <1>2, <3>1, FenceMatch
    <3> QED BY <3>2 DEF FencesAlike
  <2> QED BY <2>1, <2>2, <2>3, <2>4
<1>6. \A i \in 1 .. m + 1 + n : i \in 1 .. m \/ i = m + 1 \/ \E k \in 1 .. n : i = m + 1 + k
  <2>1. ASSUME NEW i \in 1 .. m + 1 + n, i > m + 1 PROVE \E k \in 1 .. n : i = m + 1 + k
    <3>1. i - (m + 1) \in 1 .. n /\ i = m + 1 + (i - (m + 1))
      BY <2>1
    <3> QED BY <3>1
  <2> QED BY <1>2, <2>1
<1>7. Blank.at = 0 /\ Blank.kind = "blank"
  BY DEF Blank
<1>8. \A i \in 1 .. m + 1 + n : Quoted(doc, u, i)
  <2>1. ASSUME NEW i \in 1 .. m PROVE Quoted(doc, u, i)
    <3>1. Quoted(doc, s, i)
      BY <1>2 DEF Excerpt
    <3>2. i - 1 \in 0 .. m
      BY <1>2
    <3> QED BY <1>4, <1>5, <3>1, <3>2 DEF Quoted
  <2>2. Quoted(doc, u, m + 1)
    <3>1. (m + 1) - 1 = m
      BY <1>2
    <3> QED BY <1>4, <1>5, <1>7, <3>1 DEF Quoted
  <2>3. ASSUME NEW i \in 1 .. n PROVE Quoted(doc, u, m + 1 + i)
    <3>1. Quoted(doc, t, i)
      BY <1>2 DEF Excerpt
    <3>2. i - 1 \in 0 .. n /\ (m + 1 + i) - 1 = m + 1 + (i - 1)
      BY <1>2
    <3>3. u[m + 1 + i] = t[i] /\ Fences(u)[(m + 1 + i) - 1] = Fences(t)[i - 1]
      BY <1>4, <1>5, <3>2
    <3> QED BY <3>1, <3>3 DEF Quoted
  <2> QED BY <1>6, <2>1, <2>2, <2>3
<1>9. \A i, j \in 1 .. m + 1 + n :
        i < j /\ u[i].at # 0 /\ u[j].at # 0 => u[i].at < u[j].at
  <2>1. ASSUME NEW i \in 1 .. m, NEW j \in 1 .. m, i < j, u[i].at # 0, u[j].at # 0
        PROVE  u[i].at < u[j].at
    BY <1>2, <1>4, <2>1 DEF Excerpt
  <2>2. ASSUME NEW i \in 1 .. m, NEW j \in 1 .. n, u[i].at # 0, u[m + 1 + j].at # 0
        PROVE  u[i].at < u[m + 1 + j].at
    <3>1. u[i].at \in Nat /\ u[i].at <= FinalAt(s)
      <4>1. i \in 1 .. Len(s) /\ u[i].at = s[i].at /\ s[i].at # 0
        BY <1>2, <1>4, <2>2
      <4>2. s[i].at \in 1 .. Len(doc) /\ s[i].at <= FinalAt(s) /\ Len(doc) \in Nat
        BY <4>1, ExcerptLines
      <4> QED BY <4>1, <4>2
    <3>2. u[m + 1 + j].at \in Nat /\ FirstAt(t) <= u[m + 1 + j].at
      <4>1. j \in 1 .. Len(t) /\ u[m + 1 + j].at = t[j].at /\ t[j].at # 0
        BY <1>2, <1>4, <2>2
      <4>2. t[j].at \in 1 .. Len(doc) /\ FirstAt(t) <= t[j].at /\ Len(doc) \in Nat
        BY <4>1, ExcerptLines
      <4> QED BY <4>1, <4>2
    <3>3. FinalAt(s) \in Nat /\ FirstAt(t) \in Nat
      BY ExcerptLines
    <3> QED BY <3>1, <3>2, <3>3
  <2>3. ASSUME NEW i \in 1 .. n, NEW j \in 1 .. n, i < j,
               u[m + 1 + i].at # 0, u[m + 1 + j].at # 0
        PROVE  u[m + 1 + i].at < u[m + 1 + j].at
    BY <1>2, <1>4, <2>3 DEF Excerpt
  <2>4. ASSUME NEW i \in 1 .. m + 1 + n, NEW j \in 1 .. m + 1 + n, i < j,
               u[i].at # 0, u[j].at # 0
        PROVE  u[i].at < u[j].at
    <3>1. i # m + 1 /\ j # m + 1
      BY <1>4, <1>7, <2>4
    <3>2. CASE j \in 1 .. m
      <4>1. i \in 1 .. m
        BY <1>2, <2>4, <3>2
      <4> QED BY <2>1, <2>4, <3>2, <4>1
    <3>3. CASE i \in 1 .. m /\ j \notin 1 .. m
      <4>1. PICK k \in 1 .. n : j = m + 1 + k
        BY <1>6, <3>1, <3>3
      <4> QED BY <2>2, <2>4, <3>3, <4>1
    <3>4. CASE i \notin 1 .. m
      <4>1. PICK l \in 1 .. n : i = m + 1 + l
        BY <1>6, <3>1, <3>4
      <4>2. j \notin 1 .. m
        BY <1>2, <2>4, <3>4
      <4>3. PICK k \in 1 .. n : j = m + 1 + k
        BY <1>6, <3>1, <4>2
      <4>4. l < k
        BY <1>2, <2>4, <4>1, <4>3
      <4> QED BY <2>3, <2>4, <4>1, <4>3, <4>4
    <3> QED BY <3>2, <3>3, <3>4
  <2> QED BY <2>4
<1>10. \A i \in 1 .. m + n :
         u[i].at # 0 /\ u[i + 1].at # 0 => u[i + 1].at = u[i].at + 1
  <2>1. ASSUME NEW i \in 1 .. m + n, u[i].at # 0, u[i + 1].at # 0
        PROVE  u[i + 1].at = u[i].at + 1
    <3>1. i # m + 1 /\ i + 1 # m + 1
      BY <1>4, <1>7, <2>1
    <3>2. CASE i \in 1 .. m - 1
      <4>1. i \in 1 .. m /\ i + 1 \in 1 .. m
        BY <1>2, <3>2
      <4>2. u[i] = s[i] /\ u[i + 1] = s[i + 1]
        BY <1>4, <4>1
      <4> QED BY <1>2, <2>1, <3>2, <4>2 DEF Excerpt
    <3>3. CASE i \notin 1 .. m - 1
      <4>0. i >= m + 2
        BY <1>2, <3>1, <3>3
      <4>1. PICK k \in Nat : k = i - (m + 1)
        <5>1. i - (m + 1) \in Nat
          BY <4>0
        <5> QED BY <5>1
      <4>2. k \in 1 .. n - 1 /\ i = m + 1 + k /\ i + 1 = m + 1 + (k + 1)
        BY <1>2, <4>0, <4>1
      <4>3. k \in 1 .. n /\ k + 1 \in 1 .. n
        BY <1>2, <4>2
      <4>4. u[i] = t[k] /\ u[i + 1] = t[k + 1]
        BY <1>4, <4>2, <4>3
      <4> QED BY <1>2, <2>1, <4>2, <4>4 DEF Excerpt
    <3> QED BY <3>2, <3>3
  <2> QED BY <2>1
<1>11. u[1] = s[1] /\ u[Len(u)] = t[n]
  <2>1. 1 \in 1 .. m /\ n \in 1 .. n /\ Len(u) = m + 1 + n
    BY <1>2, <1>4
  <2> QED BY <1>4, <2>1
<1>12. FirstAt(u) = FirstAt(s) /\ FinalAt(u) = FinalAt(t)
  BY <1>2, <1>11 DEF FirstAt, FinalAt
<1>13. Excerpt(doc, u)
  <2>1. u # <<>>
    BY <1>2, <1>4, EmptySeq
  <2>2. u[1].kind # "blank" /\ u[Len(u)].kind # "blank"
    BY <1>2, <1>11 DEF Excerpt
  <2>3. Closed(doc, FinalAt(u))
    BY <1>12 DEF Excerpt
  <2>4. Len(u) = m + 1 + n /\ Len(u) - 1 = m + n
    BY <1>2, <1>4
  <2> QED BY <1>8, <1>9, <1>10, <2>1, <2>2, <2>3, <2>4 DEF Excerpt
<1>14. Places(s) \cup Places(t) \subseteq Places(u)
  <2>1. ASSUME NEW k \in Places(s) PROVE k \in Places(u)
    <3>1. PICK i \in 1 .. m : s[i].at = k /\ k # 0
      BY <1>1, <1>2, PlacesIs
    <3>2. u[i].at = k /\ i \in 1 .. Len(u)
      BY <1>2, <1>4, <3>1
    <3> QED BY <3>1, <3>2, PlacesIs
  <2>2. ASSUME NEW k \in Places(t) PROVE k \in Places(u)
    <3>1. PICK i \in 1 .. n : t[i].at = k /\ k # 0
      BY <1>1, <1>2, PlacesIs
    <3>2. u[m + 1 + i].at = k /\ m + 1 + i \in 1 .. Len(u)
      BY <1>2, <1>4, <3>1
    <3> QED BY <3>1, <3>2, PlacesIs
  <2> QED BY <2>1, <2>2
<1> QED BY <1>3, <1>12, <1>13, <1>14

-----------------------------------------------------------------------------
(* Sections: excerpts of the document, one after the other.                *)

\* A section has line k.
Shows(ss, k) == \E i \in 1 .. Len(ss) : k \in Places(ss[i].body)

Sections(doc, ss) ==
  /\ ss \in Seq(Section)
  /\ \A i \in 1 .. Len(ss) : Excerpt(doc, ss[i].body)
  /\ \A i, j \in 1 .. Len(ss) : i < j => FinalAt(ss[i].body) < FirstAt(ss[j].body)

\* A section that comes after all the others.
LEMMA SectionsAppend ==
  ASSUME NEW doc, NEW ss, Sections(doc, ss), NEW sec \in Section, Excerpt(doc, sec.body),
         \A i \in 1 .. Len(ss) : FinalAt(ss[i].body) < FirstAt(sec.body)
  PROVE  /\ Sections(doc, Append(ss, sec))
         /\ Len(Append(ss, sec)) = Len(ss) + 1 /\ Append(ss, sec)[Len(ss) + 1] = sec
         /\ \A i \in 1 .. Len(ss) : Append(ss, sec)[i] = ss[i]
         /\ \A k : Shows(ss, k) \/ k \in Places(sec.body) => Shows(Append(ss, sec), k)
<1>1. ss \in Seq(Section)
  BY DEF Sections
<1>2. PICK n \in Nat : n = Len(ss)
  BY <1>1, LenProperties
<1>3. PICK more \in Seq(Section) : more = Append(ss, sec)
  BY <1>1, AppendProperties
<1>4. Len(more) = n + 1 /\ more[n + 1] = sec /\ \A i \in 1 .. n : more[i] = ss[i]
  BY <1>1, <1>2, <1>3, AppendProperties
<1>5. \A i \in 1 .. n + 1 : Excerpt(doc, more[i].body)
  BY <1>2, <1>4 DEF Sections
<1>6. \A i, j \in 1 .. n + 1 : i < j => FinalAt(more[i].body) < FirstAt(more[j].body)
  <2>1. ASSUME NEW i \in 1 .. n + 1, NEW j \in 1 .. n + 1, i < j
        PROVE  FinalAt(more[i].body) < FirstAt(more[j].body)
    <3>1. i \in 1 .. n
      BY <2>1
    <3>2. CASE j = n + 1
      BY <1>2, <1>4, <3>1, <3>2
    <3>3. CASE j \in 1 .. n
      BY <1>2, <1>4, <2>1, <3>1, <3>3 DEF Sections
    <3> QED BY <3>2, <3>3
  <2> QED BY <2>1
<1>7. ASSUME NEW k, Shows(ss, k) \/ k \in Places(sec.body) PROVE Shows(more, k)
  <2>1. ASSUME NEW i \in 1 .. n, k \in Places(ss[i].body) PROVE Shows(more, k)
    <3>1. i \in 1 .. n + 1 /\ k \in Places(more[i].body)
      BY <1>4, <2>1
    <3> QED BY <1>4, <3>1 DEF Shows
  <2>2. CASE k \in Places(sec.body)
    <3>1. n + 1 \in 1 .. n + 1 /\ k \in Places(more[n + 1].body)
      BY <1>4, <2>2
    <3> QED BY <1>4, <3>1 DEF Shows
  <2> QED BY <1>2, <1>7, <2>1, <2>2 DEF Shows
<1>8. Sections(doc, more)
  BY <1>3, <1>4, <1>5, <1>6 DEF Sections
<1> QED BY <1>2, <1>3, <1>4, <1>7, <1>8

\* flush keeps what was read, and adds the lines after lo.
LEMMA FlushKeeps ==
  ASSUME NEW doc, Doc(doc), NEW lo \in 0 .. Len(doc), NEW hi \in lo .. Len(doc),
         NEW acc \in Reading, Sections(doc, acc.sections),
         \A i \in 1 .. Len(acc.sections) : FinalAt(acc.sections[i].body) <= lo,
         acc.buf = SubSeq(doc, lo + 1, hi),
         Fences(doc)[lo] = 0, Fences(doc)[hi] = 0 \/ hi = Len(doc)
  PROVE  /\ Sections(doc, Flush(acc))
         /\ \A i \in 1 .. Len(Flush(acc)) : FinalAt(Flush(acc)[i].body) <= hi
         /\ \A k : Shows(acc.sections, k) => Shows(Flush(acc), k)
         /\ \A k \in lo + 1 .. hi : doc[k].kind # "blank" => Shows(Flush(acc), k)
<1>1. PICK ss \in Seq(Section), buf \in Text : ss = acc.sections /\ buf = acc.buf
  BY DEF Reading
<1>2. PICK body \in Text : body = Stripped(buf)
  BY <1>1, StrippedType
<1>3. acc.path \in Text /\ ss \in Seq(Section)
  BY <1>1 DEF Reading
<1>4. PICK n \in Nat : n = Len(ss)
  BY <1>3, LenProperties
<1>5. Len(doc) \in Nat /\ lo \in Nat /\ hi \in Nat
  BY LenProperties DEF Doc, Text
<1>6. \A i \in 1 .. n : FinalAt(ss[i].body) \in Nat /\ FinalAt(ss[i].body) <= lo
  <2>1. \A i \in 1 .. n : FinalAt(ss[i].body) \in 1 .. Len(doc)
    BY <1>1, <1>4, ExcerptLines DEF Sections
  <2> QED BY <1>1, <1>4, <2>1
<1>7. CASE body = <<>> /\ \A i \in lo + 1 .. hi : doc[i].kind = "blank"
  <2>1. Flush(acc) = ss
    BY <1>1, <1>2, <1>7 DEF Flush
  <2>2. \A i \in 1 .. n : FinalAt(ss[i].body) <= hi
    BY <1>5, <1>6
  <2> QED BY <1>1, <1>4, <1>7, <2>1, <2>2
<1>8. CASE /\ Excerpt(doc, body) /\ body # <<>>
           /\ lo < FirstAt(body) /\ FinalAt(body) <= hi
           /\ \A i \in lo + 1 .. hi : doc[i].kind # "blank" => i \in Places(body)
  <2>1. PICK sec \in Section : sec = [path |-> acc.path, body |-> body]
    BY <1>2, <1>3 DEF Section
  <2>2. sec.body = body
    BY <2>1
  <2>3. Flush(acc) = Append(ss, sec)
    BY <1>1, <1>2, <1>8, <2>1 DEF Flush
  <2>4. \A i \in 1 .. n : FinalAt(ss[i].body) < FirstAt(sec.body)
    <3>1. FirstAt(body) \in Nat
      BY <1>8, ExcerptLines
    <3> QED BY <1>5, <1>6, <1>8, <2>2, <3>1
  <2>5. PICK more : more = Append(ss, sec)
    OBVIOUS
  <2>6. /\ Sections(doc, more)
        /\ Len(more) = n + 1 /\ more[n + 1] = sec
        /\ \A i \in 1 .. n : more[i] = ss[i]
        /\ \A k : Shows(ss, k) \/ k \in Places(sec.body) => Shows(more, k)
    <3>1. Sections(doc, ss) /\ Excerpt(doc, sec.body)
      BY <1>1, <1>8, <2>2
    <3>2. /\ Sections(doc, Append(ss, sec))
          /\ Len(Append(ss, sec)) = Len(ss) + 1 /\ Append(ss, sec)[Len(ss) + 1] = sec
          /\ \A i \in 1 .. Len(ss) : Append(ss, sec)[i] = ss[i]
          /\ \A k : Shows(ss, k) \/ k \in Places(sec.body) => Shows(Append(ss, sec), k)
      BY <1>4, <2>4, <3>1, SectionsAppend
    <3> QED BY <1>4, <2>5, <3>2
  <2>7. \A i \in 1 .. n + 1 : FinalAt(more[i].body) <= hi
    <3>1. \A i \in 1 .. n : FinalAt(more[i].body) <= hi
      BY <1>5, <1>6, <2>6
    <3>2. FinalAt(more[n + 1].body) <= hi
      BY <1>8, <2>2, <2>6
    <3>3. \A i \in 1 .. n + 1 : i \in 1 .. n \/ i = n + 1
      OBVIOUS
    <3> QED BY <3>1, <3>2, <3>3
  <2> QED BY <1>1, <1>8, <2>2, <2>3, <2>5, <2>6, <2>7
<1>9. Fences(doc)[lo] = 0 /\ buf = SubSeq(doc, lo + 1, hi)
  BY <1>1
<1> QED BY <1>2, <1>7, <1>8, <1>9, ExcerptStripped

\* What the first lines of a document leave: the lines since lo in the buffer, the lines
\* up to there in sections.
ReadInv(doc, i, acc) ==
  \E lo \in 0 .. i :
    /\ Fences(doc)[lo] = 0 /\ acc.buf = SubSeq(doc, lo + 1, i)
    /\ Sections(doc, acc.sections)
    /\ \A j \in 1 .. Len(acc.sections) : FinalAt(acc.sections[j].body) <= lo
    /\ \A k \in Content(doc) : k <= lo => Shows(acc.sections, k)

\* Content is never blank, and a heading only inside a fence.
LEMMA ContentIs ==
  ASSUME NEW doc, Doc(doc), NEW k \in Content(doc)
  PROVE  /\ k \in 1 .. Len(doc) /\ doc[k].kind # "blank"
         /\ doc[k].kind = "heading" => Fences(doc)[k - 1] # 0
  BY LenProperties DEF Content, Outside, Doc, Text

\* The next line of the document.
LEMMA ReadStep ==
  ASSUME NEW doc, Doc(doc), NEW i \in 0 .. Len(doc) - 1, NEW acc \in Reading,
         ReadInv(doc, i, acc)
  PROVE  ReadInv(doc, i + 1, ReadLine(acc, doc[i + 1], Outside(doc, i + 1)))
<1>1. doc \in Text /\ Len(doc) \in Nat /\ i \in Nat
  BY LenProperties DEF Doc, Text
<1>2. PICK lo \in 0 .. i :
        /\ Fences(doc)[lo] = 0 /\ acc.buf = SubSeq(doc, lo + 1, i)
        /\ Sections(doc, acc.sections)
        /\ \A j \in 1 .. Len(acc.sections) : FinalAt(acc.sections[j].body) <= lo
        /\ \A k \in Content(doc) : k <= lo => Shows(acc.sections, k)
  BY DEF ReadInv
<1>3. PICK after : after = ReadLine(acc, doc[i + 1], Outside(doc, i + 1))
  OBVIOUS
<1>4. i + 1 \in 1 .. Len(doc) /\ (i + 1) - 1 = i
  BY <1>1
<1>5. doc[i + 1] \in Line
  BY <1>1, <1>4, ElementOfSeq DEF Text
<1>6. CASE doc[i + 1].kind = "heading" /\ Outside(doc, i + 1)
  <2>1. after.sections = Flush(acc) /\ after.buf = <<>>
    BY <1>3, <1>6 DEF ReadLine
  <2>2. Fences(doc)[i] = 0
    BY <1>4, <1>6 DEF Outside
  <2>3. Fences(doc)[i + 1] = 0
    <3>1. Fences(doc)[i + 1] = FenceAfter(Fences(doc)[i], doc[i + 1])
      BY <1>1, <1>4, FenceSteps
    <3> QED BY <1>6, <2>2, <3>1 DEF FenceAfter
  <2>4. PICK ss : ss = Flush(acc)
    OBVIOUS
  <2>5. /\ Sections(doc, ss)
        /\ \A j \in 1 .. Len(ss) : FinalAt(ss[j].body) <= i
        /\ \A k : Shows(acc.sections, k) => Shows(ss, k)
        /\ \A k \in lo + 1 .. i : doc[k].kind # "blank" => Shows(ss, k)
    <3>1. lo \in 0 .. Len(doc) /\ i \in lo .. Len(doc)
      BY <1>1, <1>2
    <3> QED BY <1>2, <2>2, <2>4, <3>1, FlushKeeps
  <2>6. \A j \in 1 .. Len(ss) : FinalAt(ss[j].body) <= i + 1
    <3>1. \A j \in 1 .. Len(ss) : FinalAt(ss[j].body) \in Nat
      BY <2>5, ExcerptLines DEF Sections
    <3> QED BY <1>1, <2>5, <3>1
  <2>7. ASSUME NEW k \in Content(doc), k <= i + 1 PROVE Shows(ss, k)
    <3>1. /\ k \in 1 .. Len(doc) /\ doc[k].kind # "blank"
          /\ doc[k].kind = "heading" => Fences(doc)[k - 1] # 0
      BY ContentIs
    <3>2. k # i + 1
      BY <1>4, <1>6, <2>2, <3>1
    <3>3. k <= lo \/ k \in lo + 1 .. i
      BY <1>1, <2>7, <3>1, <3>2
    <3> QED BY <1>2, <2>5, <3>1, <3>3
  <2>8. after.buf = SubSeq(doc, (i + 1) + 1, i + 1)
    BY <1>1, <2>1, SubSeqEmpty
  <2>9. i + 1 \in 0 .. i + 1
    BY <1>1
  <2>10. ReadInv(doc, i + 1, after)
    BY <2>1, <2>3, <2>4, <2>5, <2>6, <2>7, <2>8, <2>9 DEF ReadInv
  <2> QED BY <1>3, <2>10
<1>7. CASE ~(doc[i + 1].kind = "heading" /\ Outside(doc, i + 1))
  <2>1. after.sections = acc.sections /\ after.buf = Append(acc.buf, doc[i + 1])
    BY <1>3, <1>7 DEF ReadLine, Reading
  <2>2. after.buf = SubSeq(doc, lo + 1, i + 1)
    <3>1. lo \in 0 .. Len(doc) /\ i \in lo .. Len(doc) - 1
      BY <1>1, <1>2
    <3>2. Append(SubSeq(doc, lo + 1, i), doc[i + 1]) = SubSeq(doc, lo + 1, i + 1)
      BY <1>1, <3>1, StretchGrows DEF Text
    <3> QED BY <1>2, <2>1, <3>2
  <2>3. lo \in 0 .. i + 1
    BY <1>1, <1>2
  <2>4. ReadInv(doc, i + 1, after)
    BY <1>2, <2>1, <2>2, <2>3 DEF ReadInv
  <2> QED BY <1>3, <2>4
<1> QED BY <1>6, <1>7

\* The sections are excerpts in the document's order, and none of its content is left out.
LEMMA SectionsAreExcerpts ==
  ASSUME NEW doc, Doc(doc)
  PROVE  /\ Sections(doc, SplitSections(doc))
         /\ \A k \in Content(doc) : Shows(SplitSections(doc), k)
<1>1. doc \in Text
  BY DEF Doc
<1>2. PICK n \in Nat : n = Len(doc)
  BY <1>1, LenProperties DEF Text
<1>3. PICK read : read = Read(doc)
  OBVIOUS
<1>4. /\ read \in [0 .. n -> Reading]
      /\ read[0] = [sections |-> <<>>, buf |-> <<>>, path |-> <<>>]
      /\ \A i \in 1 .. n : read[i] = ReadLine(read[i - 1], doc[i], Outside(doc, i))
  BY <1>1, <1>2, <1>3, ReadSteps
<1> DEFINE S == {i \in 0 .. n : ReadInv(doc, i, read[i])}
<1>5. 0 \in S
  <2>1. read[0].sections = <<>> /\ read[0].buf = <<>>
    BY <1>4
  <2>2. Fences(doc)[0] = 0
    BY <1>1, FenceSteps
  <2>3. Sections(doc, <<>>)
    BY EmptySeq DEF Sections
  <2>4. read[0].buf = SubSeq(doc, 0 + 1, 0)
    BY <2>1, SubSeqEmpty
  <2>5. \A j \in 1 .. Len(<<>>) : FALSE
    BY EmptySeq
  <2>6. \A k \in Content(doc) : ~(k <= 0)
    BY <1>2, ContentIs
  <2>7. ReadInv(doc, 0, read[0])
    BY <2>1, <2>2, <2>3, <2>4, <2>5, <2>6 DEF ReadInv
  <2> QED BY <2>7
<1>6. ASSUME NEW i \in 0 .. n - 1, i \in S PROVE i + 1 \in S
  <2>1. i + 1 \in 1 .. n /\ (i + 1) - 1 = i /\ i \in 0 .. Len(doc) - 1
    BY <1>2
  <2>2. PICK acc \in Reading : acc = read[i] /\ ReadInv(doc, i, acc)
    BY <1>4, <1>6
  <2>3. read[i + 1] = ReadLine(acc, doc[i + 1], Outside(doc, i + 1))
    BY <1>4, <2>1, <2>2
  <2>4. ReadInv(doc, i + 1, read[i + 1])
    BY <2>1, <2>2, <2>3, ReadStep
  <2> QED BY <2>1, <2>4
<1> HIDE DEF S
<1>7. \A i \in 0 .. n : i \in S
  BY <1>5, <1>6, RangeInduction
<1>8. PICK acc \in Reading : acc = read[n] /\ ReadInv(doc, n, acc)
  BY <1>4, <1>7 DEF S
<1>9. PICK lo \in 0 .. n :
        /\ Fences(doc)[lo] = 0 /\ acc.buf = SubSeq(doc, lo + 1, n)
        /\ Sections(doc, acc.sections)
        /\ \A j \in 1 .. Len(acc.sections) : FinalAt(acc.sections[j].body) <= lo
        /\ \A k \in Content(doc) : k <= lo => Shows(acc.sections, k)
  BY <1>8 DEF ReadInv
<1>10. SplitSections(doc) = Flush(acc)
  BY <1>2, <1>3, <1>8 DEF SplitSections
<1>11. /\ Sections(doc, Flush(acc))
       /\ \A k : Shows(acc.sections, k) => Shows(Flush(acc), k)
       /\ \A k \in lo + 1 .. n : doc[k].kind # "blank" => Shows(Flush(acc), k)
  <2>1. lo \in 0 .. Len(doc) /\ n \in lo .. Len(doc) /\ n = Len(doc)
    BY <1>2
  <2> QED BY <1>9, <2>1, FlushKeeps
<1>12. ASSUME NEW k \in Content(doc) PROVE Shows(Flush(acc), k)
  <2>1. k \in 1 .. n /\ doc[k].kind # "blank"
    BY <1>2, ContentIs
  <2>2. k <= lo \/ k \in lo + 1 .. n
    BY <2>1
  <2> QED BY <1>9, <1>11, <2>1, <2>2
<1> QED BY <1>10, <1>11, <1>12

-----------------------------------------------------------------------------
(* Merged sections.                                                        *)

\* What is carried over comes before a text, and both are an excerpt together.
LEMMA CarryJoined ==
  ASSUME NEW doc, Doc(doc), NEW carry \in Text, NEW body, Excerpt(doc, body),
         carry # <<>> => Excerpt(doc, carry) /\ FinalAt(carry) < FirstAt(body)
  PROVE  /\ Joined(carry, body) \in Text /\ Joined(carry, body) # <<>>
         /\ Excerpt(doc, Joined(carry, body))
         /\ FinalAt(Joined(carry, body)) = FinalAt(body)
         /\ FirstAt(Joined(carry, body)) =
              IF carry = <<>> THEN FirstAt(body) ELSE FirstAt(carry)
         /\ Places(carry) \cup Places(body) \subseteq Places(Joined(carry, body))
<1>1. CASE carry = <<>>
  <2>1. Joined(carry, body) = body
    BY <1>1 DEF Joined
  <2>2. Places(<<>>) = {}
    <3>1. DOMAIN <<>> = {}
      OBVIOUS
    <3> QED BY <3>1 DEF Places
  <2>3. body \in Text /\ body # <<>>
    BY DEF Excerpt
  <2> QED BY <1>1, <2>1, <2>2, <2>3
<1>2. CASE carry # <<>>
  <2>1. /\ Excerpt(doc, Joined(carry, body))
        /\ FirstAt(Joined(carry, body)) = FirstAt(carry)
        /\ FinalAt(Joined(carry, body)) = FinalAt(body)
        /\ Places(carry) \cup Places(body) \subseteq Places(Joined(carry, body))
    BY <1>2, ExcerptJoined
  <2>2. Joined(carry, body) \in Text /\ Joined(carry, body) # <<>>
    BY <2>1 DEF Excerpt
  <2> QED BY <1>2, <2>1, <2>2
<1> QED BY <1>1, <1>2

\* A text before the sections still to be read.
Ahead(t, ss, k) == \A j \in k + 1 .. Len(ss) : FinalAt(t) < FirstAt(ss[j].body)

\* What the first sections leave: merged ones and a carry, in order, with all their lines.
MergeInv(doc, ss, k, acc) ==
  /\ Sections(doc, acc.merged)
  /\ \A i \in 1 .. Len(acc.merged) : Ahead(acc.merged[i].body, ss, k)
  /\ acc.carry # <<>> =>
       /\ Excerpt(doc, acc.carry) /\ Ahead(acc.carry, ss, k)
       /\ \A i \in 1 .. Len(acc.merged) : FinalAt(acc.merged[i].body) < FirstAt(acc.carry)
  /\ \A j \in 1 .. k : \A p \in Places(ss[j].body) :
       Shows(acc.merged, p) \/ p \in Places(acc.carry)

\* The next section.
LEMMA MergeStep ==
  ASSUME NEW doc, Doc(doc), NEW ss, Sections(doc, ss), NEW k \in 0 .. Len(ss) - 1,
         NEW acc \in Merging, MergeInv(doc, ss, k, acc)
  PROVE  MergeInv(doc, ss, k + 1, MergeSection(acc, ss[k + 1]))
<1>1. ss \in Seq(Section)
  BY DEF Sections
<1>2. PICK n \in Nat : n = Len(ss)
  BY <1>1, LenProperties
<1>3. k + 1 \in 1 .. n /\ k \in Nat /\ k + 1 \in k + 1 .. n
  BY <1>2
<1>4. PICK sec \in Section : sec = ss[k + 1]
  BY <1>1, <1>2, <1>3, ElementOfSeq
<1>5. Excerpt(doc, sec.body) /\ Ahead(sec.body, ss, k + 1)
  <2>1. \A j \in (k + 1) + 1 .. n : j \in 1 .. n /\ k + 1 < j
    BY <1>2
  <2> QED BY <1>2, <1>3, <1>4, <2>1 DEF Sections, Ahead
<1>6. PICK ms \in Seq(Section), carry \in Text : ms = acc.merged /\ carry = acc.carry
  BY DEF Merging
<1>7. /\ Sections(doc, ms)
      /\ \A i \in 1 .. Len(ms) : Ahead(ms[i].body, ss, k)
      /\ carry # <<>> =>
           /\ Excerpt(doc, carry) /\ Ahead(carry, ss, k)
           /\ \A i \in 1 .. Len(ms) : FinalAt(ms[i].body) < FirstAt(carry)
      /\ \A j \in 1 .. k : \A p \in Places(ss[j].body) :
           Shows(ms, p) \/ p \in Places(carry)
  BY <1>6 DEF MergeInv
<1>8. \A t : Ahead(t, ss, k) => FinalAt(t) < FirstAt(sec.body) /\ Ahead(t, ss, k + 1)
  <2>1. \A j \in (k + 1) + 1 .. n : j \in k + 1 .. n
    BY <1>3
  <2> QED BY <1>2, <1>3, <1>4, <2>1 DEF Ahead
<1>9. PICK body : body = Joined(carry, sec.body)
  OBVIOUS
<1>10. /\ body \in Text /\ body # <<>> /\ Excerpt(doc, body)
       /\ FinalAt(body) = FinalAt(sec.body)
       /\ FirstAt(body) = IF carry = <<>> THEN FirstAt(sec.body) ELSE FirstAt(carry)
       /\ Places(carry) \cup Places(sec.body) \subseteq Places(body)
  BY <1>5, <1>7, <1>8, <1>9, CarryJoined
<1>11. Ahead(body, ss, k + 1)
  BY <1>5, <1>10 DEF Ahead
<1>12. \A i \in 1 .. Len(ms) :
         FinalAt(ms[i].body) < FirstAt(body) /\ Ahead(ms[i].body, ss, k + 1)
  BY <1>7, <1>8, <1>10
<1>13. PICK after : after = MergeSection(acc, sec)
  OBVIOUS
<1>14. \A j \in 1 .. k + 1 : j \in 1 .. k \/ j = k + 1
  BY <1>3
<1>15. CASE Tokens(body) < MinTokens
  <2>1. after.merged = ms /\ after.carry = body
    BY <1>6, <1>9, <1>13, <1>15 DEF MergeSection, Merging
  <2>2. \A j \in 1 .. k + 1 : \A p \in Places(ss[j].body) : Shows(ms, p) \/ p \in Places(body)
    BY <1>4, <1>7, <1>10, <1>14
  <2>3. MergeInv(doc, ss, k + 1, after)
    BY <1>7, <1>10, <1>11, <1>12, <2>1, <2>2 DEF MergeInv
  <2> QED BY <1>4, <1>13, <2>3
<1>16. CASE ~(Tokens(body) < MinTokens)
  <2>1. PICK new \in Section : new = [path |-> sec.path, body |-> body]
    BY <1>10 DEF Section
  <2>2. new.body = body
    BY <2>1
  <2>3. PICK more : more = Append(ms, new)
    OBVIOUS
  <2>4. after.merged = more /\ after.carry = <<>>
    BY <1>6, <1>9, <1>13, <1>16, <2>1, <2>3 DEF MergeSection, Merging
  <2>5. PICK m \in Nat : m = Len(ms)
    BY <1>6, LenProperties
  <2>6. /\ Sections(doc, more)
        /\ Len(more) = m + 1 /\ more[m + 1] = new
        /\ \A i \in 1 .. m : more[i] = ms[i]
        /\ \A p : Shows(ms, p) \/ p \in Places(body) => Shows(more, p)
    <3>1. /\ Excerpt(doc, new.body)
          /\ \A i \in 1 .. Len(ms) : FinalAt(ms[i].body) < FirstAt(new.body)
      BY <1>10, <1>12, <2>2
    <3>2. /\ Sections(doc, Append(ms, new))
          /\ Len(Append(ms, new)) = Len(ms) + 1 /\ Append(ms, new)[Len(ms) + 1] = new
          /\ \A i \in 1 .. Len(ms) : Append(ms, new)[i] = ms[i]
          /\ \A p : Shows(ms, p) \/ p \in Places(new.body) => Shows(Append(ms, new), p)
      BY <1>7, <3>1, SectionsAppend
    <3> QED BY <2>2, <2>3, <2>5, <3>2
  <2>7. \A i \in 1 .. m + 1 : Ahead(more[i].body, ss, k + 1)
    <3>1. \A i \in 1 .. m + 1 : i \in 1 .. m \/ i = m + 1
      OBVIOUS
    <3> QED BY <1>11, <1>12, <2>2, <2>5, <2>6, <3>1
  <2>8. \A j \in 1 .. k + 1 : \A p \in Places(ss[j].body) : Shows(more, p)
    BY <1>4, <1>7, <1>10, <1>14, <2>6
  <2>9. MergeInv(doc, ss, k + 1, after)
    BY <2>4, <2>6, <2>7, <2>8 DEF MergeInv
  <2> QED BY <1>4, <1>13, <2>9
<1> QED BY <1>15, <1>16

\* Merging keeps the order of the sections and all of their lines.
LEMMA MergedAreExcerpts ==
  ASSUME NEW doc, Doc(doc), NEW ss, Sections(doc, ss)
  PROVE  /\ Sections(doc, MergeSmall(ss))
         /\ \A p : Shows(ss, p) => Shows(MergeSmall(ss), p)
<1>1. ss \in Seq(Section)
  BY DEF Sections
<1>2. PICK n \in Nat : n = Len(ss)
  BY <1>1, LenProperties
<1>3. PICK merge : merge = Merge(ss)
  OBVIOUS
<1>4. /\ merge \in [0 .. n -> Merging]
      /\ merge[0] = [merged |-> <<>>, carry |-> <<>>, path |-> <<>>]
      /\ \A i \in 1 .. n : merge[i] = MergeSection(merge[i - 1], ss[i])
  BY <1>1, <1>2, <1>3, MergeSteps
<1> DEFINE S == {k \in 0 .. n : MergeInv(doc, ss, k, merge[k])}
<1>5. 0 \in S
  <2>1. merge[0].merged = <<>> /\ merge[0].carry = <<>>
    BY <1>4
  <2>2. Sections(doc, <<>>) /\ \A i \in 1 .. Len(<<>>) : FALSE
    BY EmptySeq DEF Sections
  <2>3. MergeInv(doc, ss, 0, merge[0])
    BY <2>1, <2>2 DEF MergeInv
  <2> QED BY <2>3
<1>6. ASSUME NEW k \in 0 .. n - 1, k \in S PROVE k + 1 \in S
  <2>1. k + 1 \in 1 .. n /\ (k + 1) - 1 = k /\ k \in 0 .. Len(ss) - 1
    BY <1>2
  <2>2. PICK acc \in Merging : acc = merge[k] /\ MergeInv(doc, ss, k, acc)
    BY <1>4, <1>6
  <2>3. merge[k + 1] = MergeSection(acc, ss[k + 1])
    BY <1>4, <2>1, <2>2
  <2>4. MergeInv(doc, ss, k + 1, merge[k + 1])
    BY <2>1, <2>2, <2>3, MergeStep
  <2> QED BY <2>1, <2>4
<1> HIDE DEF S
<1>7. \A k \in 0 .. n : k \in S
  BY <1>5, <1>6, RangeInduction
<1>8. PICK acc \in Merging : acc = merge[n] /\ MergeInv(doc, ss, n, acc)
  BY <1>4, <1>7 DEF S
<1>9. PICK ms \in Seq(Section), carry \in Text :
        ms = acc.merged /\ carry = acc.carry /\ acc.path \in Text
  BY DEF Merging
<1>10. PICK m \in Nat : m = Len(ms)
  BY <1>9, LenProperties
<1>11. /\ Sections(doc, ms)
       /\ carry # <<>> =>
            /\ Excerpt(doc, carry)
            /\ \A i \in 1 .. m : FinalAt(ms[i].body) < FirstAt(carry)
       /\ \A p : Shows(ss, p) => Shows(ms, p) \/ p \in Places(carry)
  BY <1>2, <1>8, <1>9, <1>10 DEF MergeInv, Shows
<1>12. PICK result : result = MergeSmall(ss)
  OBVIOUS
<1>13. result = IF carry = <<>> THEN ms
                ELSE IF m = 0 THEN <<[path |-> acc.path, body |-> carry]>>
                ELSE [ms EXCEPT ![m].body = Joined(@, carry)]
  BY <1>2, <1>3, <1>8, <1>9, <1>10, <1>12 DEF MergeSmall
<1>14. CASE carry = <<>>
  <2>1. Places(<<>>) = {}
    <3>1. DOMAIN <<>> = {}
      OBVIOUS
    <3> QED BY <3>1 DEF Places
  <2> QED BY <1>11, <1>12, <1>13, <1>14, <2>1
<1>15. CASE carry # <<>> /\ m = 0
  <2>1. PICK sec \in Section : sec = [path |-> acc.path, body |-> carry] /\ sec.body = carry
    <3>1. [path |-> acc.path, body |-> carry] \in Section
      BY <1>9 DEF Section
    <3>2. [path |-> acc.path, body |-> carry].body = carry
      OBVIOUS
    <3> QED BY <3>1, <3>2
  <2>2. result = <<sec>>
    BY <1>13, <1>15, <2>1
  <2>3. result \in Seq(Section) /\ Len(result) = 1 /\ result[1] = sec
    BY <2>2
  <2>4. Sections(doc, result)
    BY <1>11, <1>15, <2>1, <2>3 DEF Sections
  <2>5. \A p : Shows(ms, p) \/ p \in Places(carry) => Shows(result, p)
    <3>1. \A p : ~Shows(ms, p)
      BY <1>10, <1>15 DEF Shows
    <3>2. \A p \in Places(carry) : p \in Places(result[1].body) /\ 1 \in 1 .. Len(result)
      BY <2>1, <2>3
    <3>3. \A p \in Places(carry) : Shows(result, p)
      BY <3>2 DEF Shows
    <3> QED BY <3>1, <3>3
  <2> QED BY <1>11, <1>12, <2>4, <2>5
<1>16. CASE carry # <<>> /\ m # 0
  <2>1. m \in 1 .. m
    BY <1>16
  <2>2. PICK last \in Section : last = ms[m]
    BY <1>9, <1>10, <2>1, ElementOfSeq
  <2>3. PICK body : body = Joined(last.body, carry)
    OBVIOUS
  <2>4. Excerpt(doc, last.body) /\ FinalAt(last.body) < FirstAt(carry) /\ Excerpt(doc, carry)
    BY <1>10, <1>11, <1>16, <2>1, <2>2 DEF Sections
  <2>5. /\ Excerpt(doc, body) /\ body \in Text
        /\ FirstAt(body) = FirstAt(last.body) /\ FinalAt(body) = FinalAt(carry)
        /\ Places(last.body) \cup Places(carry) \subseteq Places(body)
    <3>1. /\ Excerpt(doc, body)
          /\ FirstAt(body) = FirstAt(last.body) /\ FinalAt(body) = FinalAt(carry)
          /\ Places(last.body) \cup Places(carry) \subseteq Places(body)
      BY <2>3, <2>4, ExcerptJoined
    <3> QED BY <3>1 DEF Excerpt
  <2>6. PICK sec \in Section : sec = [last EXCEPT !.body = body] /\ sec.body = body
    <3>1. [last EXCEPT !.body = body] \in Section /\ [last EXCEPT !.body = body].body = body
      BY <2>2, <2>5 DEF Section
    <3> QED BY <3>1
  <2>7. result = [ms EXCEPT ![m] = sec]
    <3>1. result = [ms EXCEPT ![m].body = Joined(@, carry)]
      BY <1>13, <1>16
    <3> QED BY <1>9, <2>2, <2>3, <2>6, <3>1
  <2>8. /\ result \in Seq(Section) /\ Len(result) = m
        /\ result[m] = sec /\ \A i \in 1 .. m : i # m => result[i] = ms[i]
    <3>1. /\ [ms EXCEPT ![m] = sec] \in Seq(Section)
          /\ Len([ms EXCEPT ![m] = sec]) = Len(ms)
          /\ \A j \in 1 .. Len(ms) : [ms EXCEPT ![m] = sec][j] = IF j = m THEN sec ELSE ms[j]
      BY <1>9, <1>10, <2>1, ExceptSeq
    <3> QED BY <1>10, <2>1, <2>7, <3>1
  <2>9. Sections(doc, result)
    <3>1. \A i \in 1 .. m : Excerpt(doc, result[i].body)
      BY <1>10, <1>11, <2>5, <2>6, <2>8 DEF Sections
    <3>2. ASSUME NEW i \in 1 .. m, NEW j \in 1 .. m, i < j
          PROVE  FinalAt(result[i].body) < FirstAt(result[j].body)
      <4>1. i # m /\ result[i] = ms[i]
        BY <2>8, <3>2
      <4>2. FinalAt(ms[i].body) < FirstAt(ms[j].body)
        BY <1>10, <1>11, <3>2 DEF Sections
      <4>3. FirstAt(result[j].body) = FirstAt(ms[j].body)
        BY <2>2, <2>5, <2>6, <2>8
      <4> QED BY <4>1, <4>2, <4>3
    <3> QED BY <2>8, <3>1, <3>2 DEF Sections
  <2>10. ASSUME NEW p, Shows(ms, p) \/ p \in Places(carry) PROVE Shows(result, p)
    <3>1. ASSUME NEW i \in 1 .. m, p \in Places(ms[i].body) PROVE Shows(result, p)
      <4>1. p \in Places(result[i].body)
        BY <2>2, <2>5, <2>6, <2>8, <3>1
      <4> QED BY <2>8, <4>1 DEF Shows
    <3>2. CASE p \in Places(carry)
      <4>1. p \in Places(result[m].body)
        BY <2>5, <2>6, <2>8, <3>2
      <4> QED BY <2>1, <2>8, <4>1 DEF Shows
    <3> QED BY <1>10, <2>10, <3>1, <3>2 DEF Shows
  <2> QED BY <1>11, <1>12, <2>9, <2>10
<1> QED BY <1>14, <1>15, <1>16

-----------------------------------------------------------------------------
(* Blocks: lines of the document without a blank one outside a fence.      *)

\* The lines of the document after o.
CopyOf(doc, b, o) ==
  /\ b \in Text /\ b # <<>> /\ o \in Nat /\ o + Len(b) <= Len(doc)
  /\ \A k \in 1 .. Len(b) : b[k] = doc[o + k]
  /\ Fences(doc)[o] = 0
  /\ \A k \in 1 .. Len(b) : b[k].kind = "blank" => Fences(doc)[o + k - 1] # 0

\* Such lines up to where the fence is closed, or to the last line of text.
Whole(doc, b) ==
  \E o \in Nat : /\ CopyOf(doc, b, o)
                 /\ b[Len(b)].kind # "blank" /\ Closed(doc, o + Len(b))

\* A block has line p.
Covers(bs, p) == \E j \in 1 .. Len(bs) : p \in Places(bs[j])

\* Whole blocks in the document's order.
Ordered(doc, bs) ==
  /\ bs \in Seq(Text)
  /\ \A i \in 1 .. Len(bs) : Whole(doc, bs[i])
  /\ \A i, j \in 1 .. Len(bs) : i < j => FinalAt(bs[i]) < FirstAt(bs[j])

\* The lines and the fences of a block are the document's.
LEMMA CopyIs ==
  ASSUME NEW doc, Doc(doc), NEW b, NEW o, CopyOf(doc, b, o)
  PROVE  /\ b \in Text /\ o \in Nat /\ Len(b) \in Nat \ {0} /\ Len(doc) \in Nat
         /\ o + Len(b) <= Len(doc)
         /\ FirstAt(b) = o + 1 /\ FinalAt(b) = o + Len(b)
         /\ \A k \in 1 .. Len(b) : b[k] = doc[o + k] /\ b[k].at = o + k
         /\ b[1].kind # "blank"
         /\ \A p \in o + 1 .. o + Len(b) : p \in Places(b)
         /\ \A p \in Places(b) : p \in o + 1 .. o + Len(b)
         /\ \A k \in 0 .. Len(b) : Fences(b)[k] = Fences(doc)[o + k]
<1>1. b \in Text /\ b # <<>> /\ o \in Nat /\ o + Len(b) <= Len(doc) /\ doc \in Text
  BY DEF CopyOf, Doc
<1>2. PICK n \in Nat \ {0} : n = Len(b)
  BY <1>1, EmptySeq DEF Text
<1>3. Len(doc) \in Nat
  BY <1>1, LenProperties DEF Text
<1>4. \A k \in 1 .. n : o + k \in 1 .. Len(doc)
  BY <1>1, <1>2, <1>3
<1>5. \A k \in 1 .. n : b[k] = doc[o + k] /\ b[k].at = o + k
  BY <1>2, <1>4 DEF CopyOf, Doc
<1>6. FirstAt(b) = o + 1 /\ FinalAt(b) = o + n
  <2>1. 1 \in 1 .. n /\ n \in 1 .. n
    BY <1>2
  <2> QED BY <1>2, <1>5, <2>1 DEF FirstAt, FinalAt
<1>7. b[1].kind # "blank"
  <2>1. 1 \in 1 .. n /\ o + 1 - 1 = o
    BY <1>1, <1>2
  <2>2. b[1].kind = "blank" => Fences(doc)[o + 1 - 1] # 0
    BY <1>2, <2>1 DEF CopyOf
  <2>3. Fences(doc)[o] = 0
    BY DEF CopyOf
  <2> QED BY <2>1, <2>2, <2>3
<1>8. ASSUME NEW p \in o + 1 .. o + n PROVE p \in Places(b)
  <2>1. PICK k \in 1 .. n : o + k = p
    <3>1. p - o \in 1 .. n /\ o + (p - o) = p
      BY <1>1, <1>2
    <3> QED BY <3>1
  <2>2. b[k].at = p /\ p # 0
    BY <1>1, <1>5, <2>1
  <2> QED BY <1>1, <1>2, <2>2, PlacesIs
<1>9. ASSUME NEW p \in Places(b) PROVE p \in o + 1 .. o + n
  <2>1. PICK k \in 1 .. n : b[k].at = p
    BY <1>1, <1>2, PlacesIs
  <2> QED BY <1>1, <1>5, <2>1
<1>10. \A k \in 0 .. n : Fences(b)[k] = Fences(doc)[o + k]
  <2>1. Fences(doc)[o] = 0
    BY DEF CopyOf
  <2>2. Alike(b, 0, doc, o, n)
    BY <1>1, <1>2, <1>5, <2>1, FenceSteps DEF Alike
  <2>3. FencesAlike(b, 0, doc, o, n)
    BY <1>1, <1>2, <2>2, FenceMatch
  <2> QED BY <2>3 DEF FencesAlike
<1> QED BY <1>1, <1>2, <1>3, <1>5, <1>6, <1>7, <1>8, <1>9, <1>10

\* A block that comes after all the others.
LEMMA OrderedAppend ==
  ASSUME NEW doc, NEW bs, Ordered(doc, bs), NEW b, Whole(doc, b),
         \A i \in 1 .. Len(bs) : FinalAt(bs[i]) < FirstAt(b)
  PROVE  /\ Ordered(doc, Append(bs, b))
         /\ Len(Append(bs, b)) = Len(bs) + 1 /\ Append(bs, b)[Len(bs) + 1] = b
         /\ \A i \in 1 .. Len(bs) : Append(bs, b)[i] = bs[i]
         /\ \A p : Covers(bs, p) \/ p \in Places(b) => Covers(Append(bs, b), p)
<1>1. bs \in Seq(Text) /\ b \in Text
  BY DEF Ordered, Whole, CopyOf
<1>2. PICK n \in Nat : n = Len(bs)
  BY <1>1, LenProperties
<1>3. PICK more \in Seq(Text) : more = Append(bs, b)
  BY <1>1, AppendProperties
<1>4. Len(more) = n + 1 /\ more[n + 1] = b /\ \A i \in 1 .. n : more[i] = bs[i]
  BY <1>1, <1>2, <1>3, AppendProperties
<1>5. \A i \in 1 .. n + 1 : i \in 1 .. n \/ i = n + 1
  OBVIOUS
<1>6. \A i \in 1 .. n + 1 : Whole(doc, more[i])
  BY <1>2, <1>4, <1>5 DEF Ordered
<1>7. \A i, j \in 1 .. n + 1 : i < j => FinalAt(more[i]) < FirstAt(more[j])
  <2>1. ASSUME NEW i \in 1 .. n + 1, NEW j \in 1 .. n + 1, i < j
        PROVE  FinalAt(more[i]) < FirstAt(more[j])
    <3>1. i \in 1 .. n
      BY <2>1
    <3>2. CASE j = n + 1
      BY <1>2, <1>4, <3>1, <3>2
    <3>3. CASE j \in 1 .. n
      BY <1>2, <1>4, <2>1, <3>1, <3>3 DEF Ordered
    <3> QED BY <3>2, <3>3
  <2> QED BY <2>1
<1>8. ASSUME NEW p, Covers(bs, p) \/ p \in Places(b) PROVE Covers(more, p)
  <2>1. ASSUME NEW i \in 1 .. n, p \in Places(bs[i]) PROVE Covers(more, p)
    <3>1. i \in 1 .. n + 1 /\ p \in Places(more[i])
      BY <1>4, <2>1
    <3> QED BY <1>4, <3>1 DEF Covers
  <2>2. CASE p \in Places(b)
    <3>1. n + 1 \in 1 .. n + 1 /\ p \in Places(more[n + 1])
      BY <1>4, <2>2
    <3> QED BY <1>4, <3>1 DEF Covers
  <2> QED BY <1>2, <1>8, <2>1, <2>2 DEF Covers
<1>9. Ordered(doc, more)
  BY <1>3, <1>4, <1>6, <1>7 DEF Ordered
<1> QED BY <1>2, <1>3, <1>4, <1>8, <1>9

\* What the first lines of an excerpt leave: whole blocks, and the lines since the last
\* blank one outside a fence.
GatherInv(doc, t, i, acc) ==
  /\ Ordered(doc, acc.blocks)
  /\ \A j \in 1 .. Len(acc.blocks) :
       /\ FirstAt(t) <= FirstAt(acc.blocks[j]) /\ FinalAt(acc.blocks[j]) <= FinalAt(t)
       /\ \A k \in i + 1 .. Len(t) : t[k].at # 0 => FinalAt(acc.blocks[j]) < t[k].at
  /\ acc.current = <<>> => Fences(t)[i] = 0
  /\ acc.current # <<>> =>
       /\ i # 0 /\ FirstAt(t) <= FirstAt(acc.current)
       /\ \E o \in Nat : CopyOf(doc, acc.current, o) /\ t[i].at = o + Len(acc.current)
       /\ \A j \in 1 .. Len(acc.blocks) : FinalAt(acc.blocks[j]) < FirstAt(acc.current)
  /\ \A k \in 1 .. i :
       t[k].kind # "blank" => Covers(acc.blocks, t[k].at) \/ t[k].at \in Places(acc.current)

\* A block is whole when the fence is closed after it.
LEMMA CopyIsWhole ==
  ASSUME NEW doc, Doc(doc), NEW b, NEW o, CopyOf(doc, b, o), Fences(doc)[o + Len(b)] = 0
  PROVE  Whole(doc, b)
<1>1. PICK n \in Nat \ {0} : n = Len(b)
  BY CopyIs
<1>2. o \in Nat /\ o + n <= Len(doc) /\ doc \in Text /\ Len(doc) \in Nat
  BY <1>1, CopyIs DEF Doc
<1>3. b[n].kind # "blank"
  <2>1. SUFFICES ASSUME b[n].kind = "blank" PROVE FALSE
    OBVIOUS
  <2>2. n \in 1 .. n /\ o + n \in 1 .. Len(doc)
    BY <1>1, <1>2
  <2>3. b[n] = doc[o + n] /\ Fences(doc)[o + n - 1] # 0
    BY <1>1, <2>1, <2>2 DEF CopyOf
  <2>4. Fences(doc)[o + n] = FenceAfter(Fences(doc)[o + n - 1], doc[o + n])
    BY <1>2, <2>2, FenceSteps
  <2>5. Fences(doc)[o + n] = Fences(doc)[o + n - 1]
    BY <2>1, <2>3, <2>4 DEF FenceAfter
  <2> QED BY <1>1, <2>3, <2>5
<1> QED BY <1>1, <1>2, <1>3 DEF Whole, Closed

\* The next line of the section.
LEMMA GatherStep ==
  ASSUME NEW doc, Doc(doc), NEW t, Excerpt(doc, t), NEW i \in 0 .. Len(t) - 1,
         NEW acc \in Gathering, GatherInv(doc, t, i, acc)
  PROVE  GatherInv(doc, t, i + 1, BlockLine(acc, t[i + 1], Outside(t, i + 1)))
<1>1. t \in Text /\ doc \in Text
  BY DEF Excerpt, Doc
<1>2. PICK n \in Nat : n = Len(t)
  BY <1>1, LenProperties DEF Text
<1>3. /\ i \in Nat /\ i + 1 \in 1 .. n /\ (i + 1) - 1 = i
      /\ \A k \in (i + 1) + 1 .. n : k \in i + 1 .. n /\ i + 1 < k /\ k \in 1 .. n
      /\ \A k \in 1 .. i + 1 : k \in 1 .. i \/ k = i + 1
  BY <1>2
<1>4. PICK line \in Line : line = t[i + 1]
  BY <1>1, <1>2, <1>3, ElementOfSeq DEF Text
<1>5. PICK blocks \in Seq(Text), current \in Text :
        blocks = acc.blocks /\ current = acc.current
  BY DEF Gathering
<1>6. PICK m \in Nat : m = Len(blocks)
  BY <1>5, LenProperties
<1>7. /\ Ordered(doc, blocks)
      /\ \A j \in 1 .. m :
           /\ FirstAt(t) <= FirstAt(blocks[j]) /\ FinalAt(blocks[j]) <= FinalAt(t)
           /\ \A k \in i + 1 .. n : t[k].at # 0 => FinalAt(blocks[j]) < t[k].at
      /\ current = <<>> => Fences(t)[i] = 0
      /\ current # <<>> =>
           /\ i # 0 /\ FirstAt(t) <= FirstAt(current)
           /\ \E o \in Nat : CopyOf(doc, current, o) /\ t[i].at = o + Len(current)
           /\ \A j \in 1 .. m : FinalAt(blocks[j]) < FirstAt(current)
      /\ \A k \in 1 .. i :
           t[k].kind # "blank" => Covers(blocks, t[k].at) \/ t[k].at \in Places(current)
  BY <1>2, <1>5, <1>6 DEF GatherInv
<1>8. Outside(t, i + 1) <=> Fences(t)[i] = 0
  BY <1>3 DEF Outside
<1>9. Fences(t)[i + 1] = FenceAfter(Fences(t)[i], line)
  BY <1>1, <1>2, <1>3, <1>4, FenceSteps
<1>10. PICK after : after = BlockLine(acc, line, Outside(t, i + 1))
  OBVIOUS
<1>11. CASE line.kind = "blank" /\ Fences(t)[i] = 0 /\ current = <<>>
  <2>1. after.blocks = blocks /\ after.current = current
    BY <1>5, <1>8, <1>10, <1>11 DEF BlockLine, Gathering
  <2>2. Fences(t)[i + 1] = 0
    BY <1>9, <1>11 DEF FenceAfter
  <2>3. GatherInv(doc, t, i + 1, after)
    BY <1>2, <1>3, <1>4, <1>6, <1>7, <1>11, <2>1, <2>2 DEF GatherInv
  <2> QED BY <1>4, <1>10, <2>3
<1>12. CASE line.kind = "blank" /\ Fences(t)[i] = 0 /\ current # <<>>
  <2>1. PICK o \in Nat : CopyOf(doc, current, o) /\ t[i].at = o + Len(current)
    BY <1>7, <1>12
  <2>2. /\ FirstAt(current) = o + 1 /\ FinalAt(current) = t[i].at
        /\ t[i].at \in Nat \ {0} /\ i \in 1 .. n
    <3>1. Len(current) \in Nat \ {0}
      BY <2>1, CopyIs
    <3>2. FirstAt(current) = o + 1 /\ FinalAt(current) = o + Len(current)
      BY <2>1, CopyIs
    <3>3. i \in 1 .. n
      BY <1>3, <1>7, <1>12
    <3> QED BY <2>1, <3>1, <3>2, <3>3
  <2>3. Whole(doc, current)
    <3>1. Fences(doc)[t[i].at] = Fences(t)[i]
      BY <1>2, <2>2, ExcerptLines
    <3> QED BY <1>12, <2>1, <3>1, CopyIsWhole
  <2>4. PICK more : more = Append(blocks, current)
    OBVIOUS
  <2>5. /\ Ordered(doc, more) /\ Len(more) = m + 1 /\ more[m + 1] = current
        /\ \A j \in 1 .. m : more[j] = blocks[j]
        /\ \A p : Covers(blocks, p) \/ p \in Places(current) => Covers(more, p)
    <3>1. \A j \in 1 .. Len(blocks) : FinalAt(blocks[j]) < FirstAt(current)
      BY <1>6, <1>7, <1>12
    <3>2. /\ Ordered(doc, Append(blocks, current))
          /\ Len(Append(blocks, current)) = Len(blocks) + 1
          /\ Append(blocks, current)[Len(blocks) + 1] = current
          /\ \A j \in 1 .. Len(blocks) : Append(blocks, current)[j] = blocks[j]
          /\ \A p : Covers(blocks, p) \/ p \in Places(current)
                     => Covers(Append(blocks, current), p)
      BY <1>7, <2>3, <3>1, OrderedAppend
    <3> QED BY <1>6, <2>4, <3>2
  <2>6. after.blocks = more /\ after.current = <<>>
    BY <1>5, <1>8, <1>10, <1>12, <2>4 DEF BlockLine
  <2>7. Fences(t)[i + 1] = 0
    BY <1>9, <1>12 DEF FenceAfter
  <2>8. ASSUME NEW j \in 1 .. m + 1
        PROVE  /\ FirstAt(t) <= FirstAt(more[j]) /\ FinalAt(more[j]) <= FinalAt(t)
               /\ \A k \in (i + 1) + 1 .. n : t[k].at # 0 => FinalAt(more[j]) < t[k].at
    <3>1. CASE j \in 1 .. m
      BY <1>3, <1>7, <2>5, <3>1
    <3>2. CASE j = m + 1
      <4>1. FinalAt(current) <= FinalAt(t)
        BY <1>2, <2>2, ExcerptLines
      <4>2. \A k \in (i + 1) + 1 .. n : t[k].at # 0 => t[i].at < t[k].at
        <5>1. \A k \in (i + 1) + 1 .. n : k \in 1 .. n /\ i < k
          BY <1>3
        <5> QED BY <1>2, <2>2, <5>1 DEF Excerpt
      <4> QED BY <1>7, <1>12, <2>2, <2>5, <3>2, <4>1, <4>2
    <3> QED BY <3>1, <3>2
  <2>9. \A k \in 1 .. i + 1 : t[k].kind # "blank" => Covers(more, t[k].at)
    BY <1>3, <1>4, <1>7, <1>12, <2>5
  <2>10. GatherInv(doc, t, i + 1, after)
    BY <1>2, <2>5, <2>6, <2>7, <2>8, <2>9 DEF GatherInv
  <2> QED BY <1>4, <1>10, <2>10
<1>13. CASE ~(line.kind = "blank" /\ Fences(t)[i] = 0)
  <2>1. PICK new \in Text : new = Append(current, line)
    BY <1>5, AppendProperties DEF Text
  <2>2. PICK c \in Nat : c = Len(current)
    BY <1>5, LenProperties DEF Text
  <2>3. /\ new # <<>> /\ Len(new) = c + 1 /\ new[c + 1] = line
        /\ \A k \in 1 .. c : new[k] = current[k]
    BY <1>5, <2>1, <2>2, AppendProperties DEF Text
  <2>4. after.blocks = blocks /\ after.current = new
    BY <1>5, <1>8, <1>10, <1>13, <2>1 DEF BlockLine, Gathering
  <2>5. line.at # 0
    <3>1. line.at = 0 => line = Blank /\ Fences(t)[i] = 0
      BY <1>2, <1>3, <1>4, ExcerptLines
    <3> QED BY <1>13, <3>1 DEF Blank
  <2>6. /\ line.at \in 1 .. Len(doc) /\ line = doc[line.at]
        /\ FirstAt(t) <= line.at /\ line.at <= FinalAt(t)
        /\ Fences(t)[i] = Fences(doc)[line.at - 1]
    BY <1>2, <1>3, <1>4, <2>5, ExcerptLines
  <2>7. Len(doc) \in Nat /\ FirstAt(t) \in Nat
    BY ExcerptLines
  <2>8. \E o \in Nat : /\ CopyOf(doc, new, o) /\ line.at = o + Len(new)
                       /\ FirstAt(t) <= o + 1
                       /\ \A j \in 1 .. m : FinalAt(blocks[j]) < o + 1
    <3>1. CASE current = <<>>
      <4>1. PICK o \in Nat : line.at = o + 1
        <5>1. line.at - 1 \in Nat /\ line.at = (line.at - 1) + 1
          BY <2>6, <2>7
        <5> QED BY <5>1
      <4>2. c = 0 /\ \A k \in 1 .. c + 1 : k = c + 1
        BY <2>2, <3>1, EmptySeq
      <4>3. Fences(doc)[o] = 0 /\ line.kind # "blank"
        <5>1. line.at - 1 = o
          BY <4>1
        <5> QED BY <1>7, <1>13, <2>6, <3>1, <5>1
      <4>4. CopyOf(doc, new, o)
        <5>1. \A k \in 1 .. Len(new) : new[k] = line /\ o + k = line.at
          BY <2>3, <4>1, <4>2
        <5> QED BY <2>3, <2>6, <4>1, <4>2, <4>3, <5>1 DEF CopyOf
      <4>5. \A j \in 1 .. m : FinalAt(blocks[j]) < o + 1
        <5>1. i + 1 \in i + 1 .. n /\ t[i + 1].at # 0 /\ t[i + 1].at = o + 1
          BY <1>3, <1>4, <2>5, <4>1
        <5> QED BY <1>7, <5>1
      <4>6. line.at = o + Len(new) /\ FirstAt(t) <= o + 1
        BY <2>3, <2>6, <4>1, <4>2
      <4> QED BY <4>4, <4>5, <4>6
    <3>2. CASE current # <<>>
      <4>1. PICK o \in Nat : CopyOf(doc, current, o) /\ t[i].at = o + c
        BY <1>7, <2>2, <3>2
      <4>2. /\ FirstAt(current) = o + 1 /\ c # 0
            /\ \A k \in 1 .. c : current[k] = doc[o + k]
        BY <2>2, <4>1, CopyIs
      <4>3. line.at = o + (c + 1)
        <5>1. t[i].at # 0 /\ t[i + 1].at # 0 /\ i \in 1 .. n - 1
          BY <1>3, <1>4, <1>7, <2>2, <2>5, <3>2, <4>1, <4>2
        <5>2. t[i + 1].at = t[i].at + 1
          BY <1>2, <5>1 DEF Excerpt
        <5> QED BY <1>4, <4>1, <5>2
      <4>4. \A k \in 1 .. c + 1 : k \in 1 .. c \/ k = c + 1
        OBVIOUS
      <4>5. \A k \in 1 .. c + 1 : new[k] = doc[o + k]
        BY <2>3, <2>6, <4>2, <4>3, <4>4
      <4>6. \A k \in 1 .. c + 1 : new[k].kind = "blank" => Fences(doc)[o + k - 1] # 0
        <5>1. \A k \in 1 .. c : new[k].kind = "blank" => Fences(doc)[o + k - 1] # 0
          BY <2>2, <2>3, <4>1 DEF CopyOf
        <5>2. o + (c + 1) - 1 = line.at - 1
          BY <4>3
        <5>3. new[c + 1].kind = "blank" => Fences(doc)[o + (c + 1) - 1] # 0
          BY <1>13, <2>3, <2>6, <5>2
        <5> QED BY <4>4, <5>1, <5>3
      <4>7. o + (c + 1) <= Len(doc)
        BY <2>6, <2>7, <4>3
      <4>8. CopyOf(doc, new, o)
        BY <2>1, <2>3, <4>1, <4>5, <4>6, <4>7 DEF CopyOf
      <4> QED BY <1>7, <2>3, <3>2, <4>2, <4>3, <4>8
    <3> QED BY <3>1, <3>2
  <2>9. PICK o \in Nat : /\ CopyOf(doc, new, o) /\ line.at = o + Len(new)
                         /\ FirstAt(t) <= o + 1
                         /\ \A j \in 1 .. m : FinalAt(blocks[j]) < o + 1
    BY <2>8
  <2>10. FirstAt(new) = o + 1
    BY <2>9, CopyIs
  <2>11. \A p : p \in Places(current) \/ p = line.at => p \in Places(new)
    <3>1. line.at \in Places(new)
      <4>1. c + 1 \in 1 .. Len(new)
        BY <2>2, <2>3
      <4> QED BY <2>1, <2>3, <2>5, <4>1, PlacesIs
    <3>2. ASSUME NEW p \in Places(current) PROVE p \in Places(new)
      <4>1. PICK k \in 1 .. c : current[k].at = p /\ p # 0
        BY <1>5, <2>2, PlacesIs
      <4>2. k \in 1 .. Len(new) /\ new[k].at = p
        BY <2>2, <2>3, <4>1
      <4>3. new \in Text /\ new[k].at # 0
        BY <2>1, <4>1, <4>2
      <4> QED BY <4>2, <4>3, PlacesIs
    <3> QED BY <3>1, <3>2
  <2>12. \A k \in 1 .. i + 1 :
           t[k].kind # "blank" => Covers(blocks, t[k].at) \/ t[k].at \in Places(new)
    BY <1>3, <1>4, <1>7, <2>11
  <2>13. i + 1 # 0 /\ t[i + 1].at = o + Len(new)
    BY <1>3, <1>4, <2>9
  <2>14. \A j \in 1 .. m : \A k \in (i + 1) + 1 .. n :
           t[k].at # 0 => FinalAt(blocks[j]) < t[k].at
    BY <1>3, <1>7
  <2>15. GatherInv(doc, t, i + 1, after)
    BY <1>2, <1>6, <1>7, <2>3, <2>4, <2>9, <2>10, <2>12, <2>13, <2>14 DEF GatherInv
  <2> QED BY <1>4, <1>10, <2>15
<1> QED BY <1>11, <1>12, <1>13

\* The blocks of an excerpt are whole, in the document's order, and leave out none of its
\* lines but blank ones.
LEMMA BlocksAreWhole ==
  ASSUME NEW doc, Doc(doc), NEW t, Excerpt(doc, t)
  PROVE  /\ Ordered(doc, Blocks(t))
         /\ \A j \in 1 .. Len(Blocks(t)) :
              FirstAt(t) <= FirstAt(Blocks(t)[j]) /\ FinalAt(Blocks(t)[j]) <= FinalAt(t)
         /\ \A p \in Places(t) : doc[p].kind # "blank" => Covers(Blocks(t), p)
<1>1. t \in Text
  BY DEF Excerpt
<1>2. PICK n \in Nat \ {0} : n = Len(t)
  BY ExcerptLines
<1>3. PICK gather : gather = Gather(t)
  OBVIOUS
<1>4. /\ gather \in [0 .. n -> Gathering]
      /\ gather[0] = [blocks |-> <<>>, current |-> <<>>]
      /\ \A i \in 1 .. n : gather[i] = BlockLine(gather[i - 1], t[i], Outside(t, i))
  BY <1>1, <1>2, <1>3, GatherSteps
<1> DEFINE S == {i \in 0 .. n : GatherInv(doc, t, i, gather[i])}
<1>5. 0 \in S
  <2>1. gather[0].blocks = <<>> /\ gather[0].current = <<>>
    BY <1>4
  <2>2. Fences(t)[0] = 0
    BY <1>1, FenceSteps
  <2>3. Ordered(doc, <<>>) /\ \A i \in 1 .. Len(<<>>) : FALSE
    BY EmptySeq DEF Ordered
  <2>4. GatherInv(doc, t, 0, gather[0])
    BY <2>1, <2>2, <2>3 DEF GatherInv
  <2> QED BY <2>4
<1>6. ASSUME NEW i \in 0 .. n - 1, i \in S PROVE i + 1 \in S
  <2>1. i + 1 \in 1 .. n /\ (i + 1) - 1 = i /\ i \in 0 .. Len(t) - 1
    BY <1>2
  <2>2. PICK acc \in Gathering : acc = gather[i] /\ GatherInv(doc, t, i, acc)
    BY <1>4, <1>6
  <2>3. gather[i + 1] = BlockLine(acc, t[i + 1], Outside(t, i + 1))
    BY <1>4, <2>1, <2>2
  <2>4. GatherInv(doc, t, i + 1, gather[i + 1])
    BY <2>1, <2>2, <2>3, GatherStep
  <2> QED BY <2>1, <2>4
<1> HIDE DEF S
<1>7. \A i \in 0 .. n : i \in S
  BY <1>5, <1>6, RangeInduction
<1>8. PICK acc \in Gathering : acc = gather[n] /\ GatherInv(doc, t, n, acc)
  BY <1>2, <1>4, <1>7 DEF S
<1>9. PICK blocks \in Seq(Text), current \in Text :
        blocks = acc.blocks /\ current = acc.current
  BY DEF Gathering
<1>10. PICK m \in Nat : m = Len(blocks)
  BY <1>9, LenProperties
<1>11. /\ Ordered(doc, blocks)
       /\ \A j \in 1 .. m :
            FirstAt(t) <= FirstAt(blocks[j]) /\ FinalAt(blocks[j]) <= FinalAt(t)
       /\ current # <<>> =>
            /\ FirstAt(t) <= FirstAt(current)
            /\ \E o \in Nat : CopyOf(doc, current, o) /\ t[n].at = o + Len(current)
            /\ \A j \in 1 .. m : FinalAt(blocks[j]) < FirstAt(current)
       /\ \A k \in 1 .. n :
            t[k].kind # "blank" => Covers(blocks, t[k].at) \/ t[k].at \in Places(current)
  BY <1>8, <1>9, <1>10 DEF GatherInv
<1>12. PICK all : all = Blocks(t)
  OBVIOUS
<1>13. all = IF current = <<>> THEN blocks ELSE Append(blocks, current)
  BY <1>2, <1>3, <1>8, <1>9, <1>12 DEF Blocks
<1>14. ASSUME NEW p \in Places(t), doc[p].kind # "blank"
       PROVE  Covers(blocks, p) \/ p \in Places(current)
  <2>1. PICK k \in 1 .. n : t[k].at = p /\ p # 0
    BY <1>1, <1>2, PlacesIs
  <2>2. t[k] = doc[p]
    BY <1>2, <2>1, ExcerptLines
  <2> QED BY <1>11, <1>14, <2>1, <2>2
<1>15. CASE current = <<>>
  <2>1. Places(<<>>) = {}
    <3>1. DOMAIN <<>> = {}
      OBVIOUS
    <3> QED BY <3>1 DEF Places
  <2>2. all = blocks
    BY <1>13, <1>15
  <2> QED BY <1>10, <1>11, <1>12, <1>14, <1>15, <2>1, <2>2
<1>16. CASE current # <<>>
  <2>1. PICK o \in Nat : CopyOf(doc, current, o) /\ t[n].at = o + Len(current)
    BY <1>11, <1>16
  <2>2. PICK c \in Nat \ {0} : /\ c = Len(current) /\ FinalAt(current) = o + c
                              /\ \A k \in 1 .. c : current[k] = doc[o + k]
    BY <2>1, CopyIs
  <2>3. FinalAt(t) = o + c /\ FinalAt(t) \in 1 .. Len(doc) /\ doc[FinalAt(t)].kind # "blank"
    BY <1>2, <2>1, <2>2, ExcerptLines DEF FinalAt
  <2>4. Whole(doc, current)
    <3>1. Closed(doc, o + c)
      BY <2>3 DEF Excerpt
    <3>2. current[c].kind # "blank"
      BY <2>2, <2>3
    <3> QED BY <2>1, <2>2, <3>1, <3>2 DEF Whole
  <2>5. /\ Ordered(doc, all) /\ Len(all) = m + 1 /\ all[m + 1] = current
        /\ \A j \in 1 .. m : all[j] = blocks[j]
        /\ \A p : Covers(blocks, p) \/ p \in Places(current) => Covers(all, p)
    <3>1. \A j \in 1 .. Len(blocks) : FinalAt(blocks[j]) < FirstAt(current)
      BY <1>10, <1>11, <1>16
    <3>2. /\ Ordered(doc, Append(blocks, current))
          /\ Len(Append(blocks, current)) = Len(blocks) + 1
          /\ Append(blocks, current)[Len(blocks) + 1] = current
          /\ \A j \in 1 .. Len(blocks) : Append(blocks, current)[j] = blocks[j]
          /\ \A p : Covers(blocks, p) \/ p \in Places(current)
                     => Covers(Append(blocks, current), p)
      BY <1>11, <2>4, <3>1, OrderedAppend
    <3> QED BY <1>10, <1>13, <1>16, <3>2
  <2>6. \A j \in 1 .. m + 1 : FirstAt(t) <= FirstAt(all[j]) /\ FinalAt(all[j]) <= FinalAt(t)
    <3>1. \A j \in 1 .. m + 1 : j \in 1 .. m \/ j = m + 1
      OBVIOUS
    <3>2. FirstAt(t) <= FirstAt(current) /\ FinalAt(current) <= FinalAt(t)
      BY <1>11, <1>16, <2>2, <2>3
    <3> QED BY <1>11, <2>5, <3>1, <3>2
  <2> QED BY <1>12, <1>14, <2>5, <2>6
<1> QED BY <1>15, <1>16

-----------------------------------------------------------------------------
(* Chunks: some blocks of a section, in order and within the size.         *)

LEMMA OverlapType == Overlap \in Nat /\ TargetTokens \in Nat
<1>1. TargetTokens \in Nat
  BY ChunkingAssumption
<1>2. PICK x \in Nat : x = TargetTokens * 15
  BY <1>1
<1>3. x \div 100 \in Nat
  OBVIOUS
<1> QED BY <1>1, <1>2, <1>3 DEF Overlap

\* Where a whole block begins and ends.
LEMMA WholeEnds ==
  ASSUME NEW doc, Doc(doc), NEW b, Whole(doc, b)
  PROVE  /\ b \in Text /\ FirstAt(b) \in Nat /\ FinalAt(b) \in Nat /\ FirstAt(b) <= FinalAt(b)
<1>1. PICK o \in Nat : CopyOf(doc, b, o)
  BY DEF Whole
<1> QED BY <1>1, CopyIs

\* A block of the section.
Among(bs, b) == \E j \in 1 .. Len(bs) : b = bs[j]

\* Some blocks of the section, within the size.
ChunkOf(doc, bs, p) ==
  /\ Ordered(doc, p) /\ p # <<>> /\ Bounded(p)
  /\ \A l \in 1 .. Len(p) : Among(bs, p[l])

\* A chunk has block b.
Holds(ps, b) == \E i \in 1 .. Len(ps) : \E l \in 1 .. Len(ps[i]) : ps[i][l] = b

\* Chunks of the section, of which none begins before the one in front of it.
Chunks(doc, bs, ps) ==
  /\ ps \in Seq(Seq(Text))
  /\ \A i \in 1 .. Len(ps) : ChunkOf(doc, bs, ps[i])
  /\ \A i, j \in 1 .. Len(ps) : i < j => FirstAt(ps[i][1]) <= FirstAt(ps[j][1])

\* A block is put after some that fit with it, or in the overlap.
LEMMA ChunkGrows ==
  ASSUME NEW doc, NEW bs, NEW pre, Ordered(doc, pre),
         NEW b, Whole(doc, b), Among(bs, b),
         \A l \in 1 .. Len(pre) : FinalAt(pre[l]) < FirstAt(b),
         \A l \in 1 .. Len(pre) : Among(bs, pre[l]),
         SizeOf(pre) + Tokens(b) <= TargetTokens \/ SizeOf(pre) <= Overlap
  PROVE  /\ ChunkOf(doc, bs, Append(pre, b))
         /\ Len(Append(pre, b)) = Len(pre) + 1 /\ Append(pre, b)[Len(pre) + 1] = b
         /\ \A l \in 1 .. Len(pre) : Append(pre, b)[l] = pre[l]
<1>1. pre \in Seq(Text) /\ b \in Text
  BY DEF Ordered, Whole, CopyOf
<1>2. PICK n \in Nat : n = Len(pre)
  BY <1>1, LenProperties
<1>3. PICK p \in Seq(Text) : p = Append(pre, b) /\ p # <<>>
  BY <1>1, AppendProperties
<1>4. /\ Ordered(doc, p) /\ Len(p) = n + 1 /\ p[n + 1] = b
      /\ \A l \in 1 .. n : p[l] = pre[l]
  <2>1. /\ Ordered(doc, Append(pre, b))
        /\ Len(Append(pre, b)) = Len(pre) + 1 /\ Append(pre, b)[Len(pre) + 1] = b
        /\ \A l \in 1 .. Len(pre) : Append(pre, b)[l] = pre[l]
    BY OrderedAppend
  <2> QED BY <1>2, <1>3, <2>1
<1>5. \A l \in 1 .. n + 1 : Among(bs, p[l])
  <2>1. \A l \in 1 .. n + 1 : l \in 1 .. n \/ l = n + 1
    OBVIOUS
  <2> QED BY <1>2, <1>4, <2>1
<1>6. Bounded(p)
  <2>1. PICK x \in Nat, k \in Nat : x = SizeOf(pre) /\ k = Tokens(b)
    BY <1>1, SizeOfAppend, TokensType
  <2>2. SizeOf(p) = x + k
    BY <1>1, <1>3, <2>1, SizeOfAppend
  <2>3. PICK o \in Nat, t \in Nat : o = Overlap /\ t = TargetTokens
    BY OverlapType
  <2>4. \E m \in {t, o + k} : \A y \in {t, o + k} : m >= y
    BY <2>3
  <2>5. /\ Max({t, o + k}) \in {t, o + k}
        /\ Max({t, o + k}) >= t /\ Max({t, o + k}) >= o + k
    BY <2>4 DEF Max
  <2>6. PICK m \in Nat : m = Max({t, o + k}) /\ m >= t /\ m >= o + k
    BY <2>5
  <2>7. x + k <= t \/ x <= o
    BY <2>1, <2>3
  <2>8. x + k <= m
    BY <2>6, <2>7
  <2>9. Tokens(p[Len(p)]) = k
    BY <1>4, <2>1
  <2> QED BY <2>2, <2>3, <2>6, <2>8, <2>9 DEF Bounded
<1>7. ChunkOf(doc, bs, p)
  BY <1>3, <1>4, <1>5, <1>6 DEF ChunkOf
<1> QED BY <1>2, <1>3, <1>4, <1>7

\* The blocks a chunk repeats are the last of the one before it.
LEMMA OverlappingOrdered ==
  ASSUME NEW doc, NEW p, Ordered(doc, p), NEW overlap \in Nat
  PROVE  /\ Ordered(doc, Overlapping(p, overlap))
         /\ SizeOf(Overlapping(p, overlap)) <= overlap
         /\ \A l \in 1 .. Len(Overlapping(p, overlap)) :
              \E j \in 1 .. Len(p) : Overlapping(p, overlap)[l] = p[j]
<1>1. p \in Seq(Text)
  BY DEF Ordered
<1>2. PICK a \in 1 .. Len(p) + 1 :
        /\ Overlapping(p, overlap) = SubSeq(p, a, Len(p))
        /\ SizeOf(Overlapping(p, overlap)) <= overlap
  BY <1>1, OverlappingIs
<1>3. PICK n \in Nat : n = Len(p)
  BY <1>1, LenProperties
<1>4. PICK q \in Seq(Text) : q = Overlapping(p, overlap)
  BY <1>1, OverlappingType
<1>5. Len(q) = n - a + 1 /\ \A l \in 1 .. n - a + 1 : q[l] = p[a + l - 1]
  <2>1. a \in 1 .. Len(p) + 1 /\ n \in 0 .. Len(p) /\ a <= n + 1
    BY <1>3
  <2>2. /\ Len(SubSeq(p, a, n)) = n - a + 1
        /\ \A l \in 1 .. n - a + 1 : SubSeq(p, a, n)[l] = p[a + l - 1]
    BY <1>1, <2>1, Stretch
  <2> QED BY <1>2, <1>3, <1>4, <2>2
<1>6. \A l \in 1 .. n - a + 1 : a + l - 1 \in 1 .. n
  BY <1>3
<1>7. \A i \in 1 .. n - a + 1 : Whole(doc, q[i])
  BY <1>3, <1>5, <1>6 DEF Ordered
<1>8. \A i, j \in 1 .. n - a + 1 : i < j => FinalAt(q[i]) < FirstAt(q[j])
  <2>1. ASSUME NEW i \in 1 .. n - a + 1, NEW j \in 1 .. n - a + 1, i < j
        PROVE  FinalAt(q[i]) < FirstAt(q[j])
    <3>1. PICK k \in 1 .. n, l \in 1 .. n : k = a + i - 1 /\ l = a + j - 1 /\ k < l
      BY <1>3, <1>6, <2>1
    <3> QED BY <1>3, <1>5, <3>1 DEF Ordered
  <2> QED BY <2>1
<1>9. Ordered(doc, q)
  BY <1>4, <1>5, <1>7, <1>8 DEF Ordered
<1> QED BY <1>2, <1>3, <1>4, <1>5, <1>6, <1>9

\* What the first blocks leave: chunks that are closed, and one that is filled.
PackInv(doc, bs, k, acc) ==
  /\ Chunks(doc, bs, acc.out)
  /\ k = 0 => acc.out = <<>> /\ acc.buf = <<>>
  /\ k # 0 =>
       /\ ChunkOf(doc, bs, acc.buf)
       /\ \A l \in 1 .. Len(acc.buf) :
            \A j \in k + 1 .. Len(bs) : FinalAt(acc.buf[l]) < FirstAt(bs[j])
       /\ \A i \in 1 .. Len(acc.out) : FirstAt(acc.out[i][1]) <= FirstAt(acc.buf[1])
  /\ \A j \in 1 .. k :
       Holds(acc.out, bs[j]) \/ \E l \in 1 .. Len(acc.buf) : acc.buf[l] = bs[j]

\* A chunk that begins after all the others.
LEMMA ChunksAppend ==
  ASSUME NEW doc, NEW bs, NEW ps, Chunks(doc, bs, ps), NEW p, ChunkOf(doc, bs, p),
         \A i \in 1 .. Len(ps) : FirstAt(ps[i][1]) <= FirstAt(p[1])
  PROVE  /\ Chunks(doc, bs, Append(ps, p))
         /\ Len(Append(ps, p)) = Len(ps) + 1 /\ Append(ps, p)[Len(ps) + 1] = p
         /\ \A i \in 1 .. Len(ps) : Append(ps, p)[i] = ps[i]
         /\ \A b : Holds(ps, b) \/ (\E l \in 1 .. Len(p) : p[l] = b) => Holds(Append(ps, p), b)
<1>1. ps \in Seq(Seq(Text)) /\ p \in Seq(Text)
  BY DEF Chunks, ChunkOf, Ordered
<1>2. PICK n \in Nat : n = Len(ps)
  BY <1>1, LenProperties
<1>3. PICK more \in Seq(Seq(Text)) : more = Append(ps, p)
  BY <1>1, AppendProperties
<1>4. Len(more) = n + 1 /\ more[n + 1] = p /\ \A i \in 1 .. n : more[i] = ps[i]
  BY <1>1, <1>2, <1>3, AppendProperties
<1>5. \A i \in 1 .. n + 1 : i \in 1 .. n \/ i = n + 1
  OBVIOUS
<1>6. \A i \in 1 .. n + 1 : ChunkOf(doc, bs, more[i])
  BY <1>2, <1>4, <1>5 DEF Chunks
<1>7. \A i, j \in 1 .. n + 1 : i < j => FirstAt(more[i][1]) <= FirstAt(more[j][1])
  <2>1. ASSUME NEW i \in 1 .. n + 1, NEW j \in 1 .. n + 1, i < j
        PROVE  FirstAt(more[i][1]) <= FirstAt(more[j][1])
    <3>1. i \in 1 .. n
      BY <2>1
    <3>2. CASE j = n + 1
      BY <1>2, <1>4, <3>1, <3>2
    <3>3. CASE j \in 1 .. n
      BY <1>2, <1>4, <2>1, <3>1, <3>3 DEF Chunks
    <3> QED BY <3>2, <3>3
  <2> QED BY <2>1
<1>8. ASSUME NEW b, Holds(ps, b) \/ \E l \in 1 .. Len(p) : p[l] = b PROVE Holds(more, b)
  <2>1. CASE Holds(ps, b)
    <3>1. PICK i \in 1 .. n : \E l \in 1 .. Len(ps[i]) : ps[i][l] = b
      BY <1>2, <2>1 DEF Holds
    <3>2. i \in 1 .. n + 1 /\ \E l \in 1 .. Len(more[i]) : more[i][l] = b
      BY <1>4, <3>1
    <3> QED BY <1>4, <3>2 DEF Holds
  <2>2. CASE \E l \in 1 .. Len(p) : p[l] = b
    <3>1. n + 1 \in 1 .. n + 1 /\ \E l \in 1 .. Len(more[n + 1]) : more[n + 1][l] = b
      BY <1>4, <2>2
    <3> QED BY <1>4, <3>1 DEF Holds
  <2> QED BY <1>8, <2>1, <2>2
<1>9. Chunks(doc, bs, more)
  BY <1>3, <1>4, <1>6, <1>7 DEF Chunks
<1> QED BY <1>2, <1>3, <1>4, <1>8, <1>9

\* The next block of the section.
LEMMA PackStep ==
  ASSUME NEW doc, Doc(doc), NEW bs, Ordered(doc, bs), NEW k \in 0 .. Len(bs) - 1,
         NEW acc \in Packing, PackInv(doc, bs, k, acc)
  PROVE  PackInv(doc, bs, k + 1, PackBlock(acc, bs[k + 1], TargetTokens, Overlap))
<1>1. PICK n \in Nat : n = Len(bs)
  BY LenProperties DEF Ordered
<1>2. /\ k + 1 \in 1 .. n /\ k \in Nat /\ k + 1 \in k + 1 .. n /\ k + 1 # 0
      /\ \A j \in (k + 1) + 1 .. n : j \in k + 1 .. n /\ k + 1 < j /\ j \in 1 .. n
      /\ \A j \in 1 .. k + 1 : j \in 1 .. k \/ j = k + 1
  BY <1>1
<1>3. PICK b \in Text : b = bs[k + 1] /\ Whole(doc, b)
  BY <1>1, <1>2, WholeEnds DEF Ordered
<1>4. PICK out \in Seq(Seq(Text)), buf \in Seq(Text) : out = acc.out /\ buf = acc.buf
  BY DEF Packing
<1>5. /\ Chunks(doc, bs, out)
      /\ k = 0 => out = <<>> /\ buf = <<>>
      /\ k # 0 =>
           /\ ChunkOf(doc, bs, buf)
           /\ \A l \in 1 .. Len(buf) :
                \A j \in k + 1 .. n : FinalAt(buf[l]) < FirstAt(bs[j])
           /\ \A i \in 1 .. Len(out) : FirstAt(out[i][1]) <= FirstAt(buf[1])
      /\ \A j \in 1 .. k : Holds(out, bs[j]) \/ \E l \in 1 .. Len(buf) : buf[l] = bs[j]
  BY <1>1, <1>4 DEF PackInv
<1>6. \A j \in (k + 1) + 1 .. n : FinalAt(b) < FirstAt(bs[j])
  BY <1>1, <1>2, <1>3 DEF Ordered
<1>7. PICK m \in Nat : m = Len(buf)
  BY <1>4, LenProperties
<1>8. Among(bs, b)
  BY <1>1, <1>2, <1>3 DEF Among
<1>9. SizeOf(buf) \in Nat /\ Tokens(b) \in Nat /\ Overlap \in Nat /\ TargetTokens \in Nat
  BY <1>3, <1>4, SizeOfAppend, TokensType, OverlapType
<1>10. PICK after : after = PackBlock(acc, b, TargetTokens, Overlap)
  OBVIOUS
<1>11. CASE k # 0 /\ SizeOf(buf) + Tokens(b) > TargetTokens
  <2>1. buf # <<>> /\ ChunkOf(doc, bs, buf) /\ Ordered(doc, buf)
    BY <1>5, <1>11 DEF ChunkOf
  <2>2. PICK pre : pre = Overlapping(buf, Overlap)
    OBVIOUS
  <2>3. /\ Ordered(doc, pre) /\ SizeOf(pre) <= Overlap
        /\ \A l \in 1 .. Len(pre) : \E j \in 1 .. m : pre[l] = buf[j]
    BY <1>7, <1>9, <2>1, <2>2, OverlappingOrdered
  <2>4. \A l \in 1 .. m : \A j \in k + 1 .. n : FinalAt(buf[l]) < FirstAt(bs[j])
    BY <1>5, <1>7, <1>11
  <2>5. \A l \in 1 .. Len(pre) : \A j \in k + 1 .. n : FinalAt(pre[l]) < FirstAt(bs[j])
    BY <2>3, <2>4
  <2>6. PICK c \in Nat : c = Len(pre)
    BY <2>3, LenProperties DEF Ordered
  <2>7. PICK new : new = Append(pre, b)
    OBVIOUS
  <2>8. /\ ChunkOf(doc, bs, new) /\ Len(new) = c + 1 /\ new[c + 1] = b
        /\ \A l \in 1 .. c : new[l] = pre[l]
    <3>1. \A l \in 1 .. Len(pre) : FinalAt(pre[l]) < FirstAt(b)
      BY <1>2, <1>3, <2>5
    <3>2. \A l \in 1 .. Len(pre) : Among(bs, pre[l])
      BY <1>7, <2>1, <2>3 DEF ChunkOf
    <3>3. /\ ChunkOf(doc, bs, Append(pre, b))
          /\ Len(Append(pre, b)) = Len(pre) + 1 /\ Append(pre, b)[Len(pre) + 1] = b
          /\ \A l \in 1 .. Len(pre) : Append(pre, b)[l] = pre[l]
      <4>1. Whole(doc, b) /\ Among(bs, b)
        BY <1>3, <1>8
      <4>2. SizeOf(pre) + Tokens(b) <= TargetTokens \/ SizeOf(pre) <= Overlap
        BY <2>3
      <4> QED BY <2>3, <3>1, <3>2, <4>1, <4>2, ChunkGrows
    <3> QED BY <2>6, <2>7, <3>3
  <2>9. PICK more : more = Append(out, buf)
    OBVIOUS
  <2>10. /\ Chunks(doc, bs, more) /\ Len(more) = Len(out) + 1 /\ more[Len(out) + 1] = buf
         /\ \A i \in 1 .. Len(out) : more[i] = out[i]
         /\ \A x : Holds(out, x) \/ (\E l \in 1 .. Len(buf) : buf[l] = x) => Holds(more, x)
    <3>1. \A i \in 1 .. Len(out) : FirstAt(out[i][1]) <= FirstAt(buf[1])
      BY <1>5, <1>11
    <3> QED BY <1>5, <2>1, <2>9, <3>1, ChunksAppend
  <2>11. after.out = more /\ after.buf = new
    BY <1>4, <1>10, <1>11, <2>1, <2>2, <2>7, <2>9 DEF PackBlock
  <2>12. \A l \in 1 .. c + 1 : l \in 1 .. c \/ l = c + 1
    OBVIOUS
  <2>13. \A l \in 1 .. c + 1 : \A j \in (k + 1) + 1 .. n : FinalAt(new[l]) < FirstAt(bs[j])
    BY <1>2, <1>6, <2>5, <2>6, <2>8, <2>12
  <2>14. FirstAt(buf[1]) <= FirstAt(new[1])
    <3>1. 1 \in 1 .. m /\ \A l \in 1 .. m : Whole(doc, buf[l])
      BY <1>4, <1>7, <2>1, EmptySeq DEF Ordered
    <3>2. \A l \in 1 .. m : /\ FirstAt(buf[l]) \in Nat /\ FinalAt(buf[l]) \in Nat
                           /\ FirstAt(buf[l]) <= FinalAt(buf[l])
      BY <3>1, WholeEnds
    <3>3. CASE c = 0
      <4>1. new[1] = b /\ FinalAt(buf[1]) < FirstAt(b) /\ FirstAt(b) \in Nat
        BY <1>2, <1>3, <2>4, <2>8, <3>1, <3>3, WholeEnds
      <4> QED BY <3>1, <3>2, <4>1
    <3>4. CASE c # 0
      <4>1. 1 \in 1 .. c /\ new[1] = pre[1]
        BY <2>8, <3>4
      <4>2. PICK j \in 1 .. m : pre[1] = buf[j]
        BY <2>3, <2>6, <4>1
      <4>3. CASE j = 1
        BY <3>1, <3>2, <4>1, <4>2, <4>3
      <4>4. CASE j # 1
        <5>1. 1 < j
          BY <4>4
        <5>2. FinalAt(buf[1]) < FirstAt(buf[j])
          BY <1>7, <2>1, <3>1, <5>1 DEF Ordered
        <5> QED BY <3>1, <3>2, <4>1, <4>2, <5>2
      <4> QED BY <4>3, <4>4
    <3> QED BY <3>3, <3>4
  <2>15. \A i \in 1 .. Len(out) + 1 : FirstAt(more[i][1]) <= FirstAt(new[1])
    <3>1. Len(out) \in Nat
      BY <1>4, LenProperties
    <3>2. \A i \in 1 .. Len(out) + 1 : i \in 1 .. Len(out) \/ i = Len(out) + 1
      BY <3>1
    <3>3. \A i \in 1 .. Len(out) : FirstAt(out[i][1]) <= FirstAt(new[1])
      <4>1. ASSUME NEW i \in 1 .. Len(out) PROVE FirstAt(out[i][1]) <= FirstAt(new[1])
        <5>1. FirstAt(out[i][1]) <= FirstAt(buf[1])
          BY <1>5, <1>11
        <5>2. FirstAt(out[i][1]) \in Nat
          <6>1. Ordered(doc, out[i]) /\ out[i] # <<>>
            BY <1>5 DEF Chunks, ChunkOf
          <6>2. 1 \in 1 .. Len(out[i])
            BY <6>1, EmptySeq DEF Ordered
          <6> QED BY <6>1, <6>2, WholeEnds DEF Ordered
        <5>3. FirstAt(buf[1]) \in Nat
          <6>1. 1 \in 1 .. m
            BY <1>4, <1>7, <2>1, EmptySeq
          <6> QED BY <1>7, <2>1, <6>1, WholeEnds DEF Ordered
        <5>4. FirstAt(new[1]) \in Nat
          <6>1. Ordered(doc, new) /\ 1 \in 1 .. Len(new)
            BY <2>8 DEF ChunkOf
          <6> QED BY <6>1, WholeEnds DEF Ordered
        <5> QED BY <2>14, <5>1, <5>2, <5>3, <5>4
      <4> QED BY <4>1
    <3> QED BY <2>10, <2>14, <3>2, <3>3
  <2>16. \A j \in 1 .. k + 1 :
           Holds(more, bs[j]) \/ \E l \in 1 .. c + 1 : new[l] = bs[j]
    <3>1. c + 1 \in 1 .. c + 1 /\ new[c + 1] = bs[k + 1]
      BY <1>3, <2>8
    <3>2. \A j \in 1 .. k : Holds(more, bs[j])
      BY <1>5, <2>10
    <3> QED BY <1>2, <3>1, <3>2
  <2>17. PackInv(doc, bs, k + 1, after)
    BY <1>1, <1>2, <2>8, <2>10, <2>11, <2>13, <2>15, <2>16 DEF PackInv
  <2> QED BY <1>3, <1>10, <2>17
<1>12. CASE k = 0 \/ ~(SizeOf(buf) + Tokens(b) > TargetTokens)
  <2>1. Ordered(doc, buf)
    <3>1. Ordered(doc, <<>>)
      BY EmptySeq DEF Ordered
    <3> QED BY <1>5, <3>1 DEF ChunkOf
  <2>2. SizeOf(buf) + Tokens(b) <= TargetTokens \/ SizeOf(buf) <= Overlap
    <3>1. k = 0 => SizeOf(buf) = 0
      BY <1>4, <1>5, <1>3, SizeOfAppend
    <3> QED BY <1>9, <1>12, <3>1
  <2>3. /\ \A l \in 1 .. m : \A j \in k + 1 .. n : FinalAt(buf[l]) < FirstAt(bs[j])
        /\ \A l \in 1 .. m : Among(bs, buf[l])
    <3>1. CASE k = 0
      <4>1. m = 0 /\ \A l \in 1 .. m : FALSE
        BY <1>5, <1>7, <3>1, EmptySeq
      <4> QED BY <4>1
    <3>2. CASE k # 0
      BY <1>5, <1>7, <3>2 DEF ChunkOf
    <3> QED BY <3>1, <3>2
  <2>4. PICK new : new = Append(buf, b)
    OBVIOUS
  <2>5. /\ ChunkOf(doc, bs, new) /\ Len(new) = m + 1 /\ new[m + 1] = b
        /\ \A l \in 1 .. m : new[l] = buf[l]
    <3>1. \A l \in 1 .. Len(buf) : FinalAt(buf[l]) < FirstAt(b)
      BY <1>2, <1>3, <1>7, <2>3
    <3>2. /\ ChunkOf(doc, bs, Append(buf, b))
          /\ Len(Append(buf, b)) = Len(buf) + 1 /\ Append(buf, b)[Len(buf) + 1] = b
          /\ \A l \in 1 .. Len(buf) : Append(buf, b)[l] = buf[l]
      BY <1>3, <1>7, <1>8, <2>1, <2>2, <2>3, <3>1, ChunkGrows
    <3> QED BY <1>7, <2>4, <3>2
  <2>6. after.out = out /\ after.buf = new
    <3>1. ~(buf # <<>> /\ SizeOf(buf) + Tokens(b) > TargetTokens)
      BY <1>5, <1>12
    <3> QED BY <1>4, <1>10, <2>4, <3>1 DEF PackBlock, Packing
  <2>7. \A l \in 1 .. m + 1 : l \in 1 .. m \/ l = m + 1
    OBVIOUS
  <2>8. \A l \in 1 .. m + 1 : \A j \in (k + 1) + 1 .. n : FinalAt(new[l]) < FirstAt(bs[j])
    BY <1>2, <1>6, <2>3, <2>5, <2>7
  <2>9. \A i \in 1 .. Len(out) : FirstAt(out[i][1]) <= FirstAt(new[1])
    <3>1. CASE k = 0
      BY <1>5, <3>1, EmptySeq
    <3>2. CASE k # 0
      <4>1. 1 \in 1 .. m
        BY <1>4, <1>5, <1>7, <3>2, EmptySeq DEF ChunkOf
      <4> QED BY <1>5, <2>5, <3>2, <4>1
    <3> QED BY <3>1, <3>2
  <2>10. \A j \in 1 .. k + 1 : Holds(out, bs[j]) \/ \E l \in 1 .. m + 1 : new[l] = bs[j]
    <3>1. m + 1 \in 1 .. m + 1 /\ new[m + 1] = bs[k + 1]
      BY <1>3, <2>5
    <3>2. ASSUME NEW j \in 1 .. k
          PROVE  Holds(out, bs[j]) \/ \E l \in 1 .. m + 1 : new[l] = bs[j]
      <4>1. \A l \in 1 .. m : l \in 1 .. m + 1 /\ new[l] = buf[l]
        BY <2>5
      <4> QED BY <1>5, <1>7, <4>1
    <3> QED BY <1>2, <3>1, <3>2
  <2>11. PackInv(doc, bs, k + 1, after)
    BY <1>1, <1>2, <1>5, <2>5, <2>6, <2>8, <2>9, <2>10 DEF PackInv
  <2> QED BY <1>3, <1>10, <2>11
<1> QED BY <1>9, <1>11, <1>12

\* Every block is in a chunk.
LEMMA PackedAreChunks ==
  ASSUME NEW doc, Doc(doc), NEW bs, Ordered(doc, bs)
  PROVE  /\ Chunks(doc, bs, Packed(bs, TargetTokens, Overlap))
         /\ \A j \in 1 .. Len(bs) : Holds(Packed(bs, TargetTokens, Overlap), bs[j])
<1>1. bs \in Seq(Text) /\ Overlap \in Nat /\ TargetTokens \in Nat
  BY OverlapType DEF Ordered
<1>2. PICK n \in Nat : n = Len(bs)
  BY <1>1, LenProperties
<1>3. PICK pack : pack = Pack(bs, TargetTokens, Overlap)
  OBVIOUS
<1>4. /\ pack \in [0 .. n -> Packing]
      /\ pack[0] = [out |-> <<>>, buf |-> <<>>]
      /\ \A i \in 1 .. n : pack[i] = PackBlock(pack[i - 1], bs[i], TargetTokens, Overlap)
  BY <1>1, <1>2, <1>3, PackSteps
<1> DEFINE S == {k \in 0 .. n : PackInv(doc, bs, k, pack[k])}
<1>5. 0 \in S
  <2>1. pack[0].out = <<>> /\ pack[0].buf = <<>>
    BY <1>4
  <2>2. Chunks(doc, bs, <<>>)
    BY EmptySeq DEF Chunks
  <2>3. PackInv(doc, bs, 0, pack[0])
    BY <2>1, <2>2 DEF PackInv
  <2> QED BY <2>3
<1>6. ASSUME NEW k \in 0 .. n - 1, k \in S PROVE k + 1 \in S
  <2>1. k + 1 \in 1 .. n /\ (k + 1) - 1 = k /\ k \in 0 .. Len(bs) - 1
    BY <1>2
  <2>2. PICK acc \in Packing : acc = pack[k] /\ PackInv(doc, bs, k, acc)
    BY <1>4, <1>6
  <2>3. pack[k + 1] = PackBlock(acc, bs[k + 1], TargetTokens, Overlap)
    BY <1>4, <2>1, <2>2
  <2>4. PackInv(doc, bs, k + 1, pack[k + 1])
    BY <2>1, <2>2, <2>3, PackStep
  <2> QED BY <2>1, <2>4
<1> HIDE DEF S
<1>7. \A k \in 0 .. n : k \in S
  BY <1>5, <1>6, RangeInduction
<1>8. PICK acc \in Packing : acc = pack[n] /\ PackInv(doc, bs, n, acc)
  BY <1>4, <1>7 DEF S
<1>9. PICK out \in Seq(Seq(Text)), buf \in Seq(Text) : out = acc.out /\ buf = acc.buf
  BY DEF Packing
<1>10. PICK ps : ps = Packed(bs, TargetTokens, Overlap)
  OBVIOUS
<1>11. ps = IF buf = <<>> THEN out ELSE Append(out, buf)
  BY <1>2, <1>3, <1>8, <1>9, <1>10 DEF Packed
<1>12. CASE n = 0
  <2>1. out = <<>> /\ buf = <<>> /\ Chunks(doc, bs, out)
    BY <1>8, <1>9, <1>12 DEF PackInv
  <2> QED BY <1>2, <1>10, <1>11, <1>12, <2>1
<1>13. CASE n # 0
  <2>1. /\ Chunks(doc, bs, out) /\ ChunkOf(doc, bs, buf) /\ buf # <<>>
        /\ \A i \in 1 .. Len(out) : FirstAt(out[i][1]) <= FirstAt(buf[1])
        /\ \A j \in 1 .. n : Holds(out, bs[j]) \/ \E l \in 1 .. Len(buf) : buf[l] = bs[j]
    BY <1>8, <1>9, <1>13 DEF PackInv, ChunkOf
  <2>2. ps = Append(out, buf)
    BY <1>11, <2>1
  <2>3. /\ Chunks(doc, bs, ps)
        /\ \A b : Holds(out, b) \/ (\E l \in 1 .. Len(buf) : buf[l] = b) => Holds(ps, b)
    BY <2>1, <2>2, ChunksAppend
  <2> QED BY <1>2, <1>10, <2>1, <2>3
<1> QED BY <1>12, <1>13

-----------------------------------------------------------------------------
(* The text of a chunk has the blocks it was made of.                      *)

\* Texts that begin alike give the same blocks so far.
LEMMA GatherMatch ==
  ASSUME NEW s \in Text, NEW t \in Text, NEW n \in Nat, n <= Len(s), n <= Len(t),
         \A j \in 1 .. n : s[j] = t[j]
  PROVE  Gather(s)[n] = Gather(t)[n]
<1>1. Len(s) \in Nat /\ Len(t) \in Nat
  BY LenProperties DEF Text
<1>2. \A j \in 0 .. n : Fences(s)[j] = Fences(t)[j]
  <2>1. Alike(s, 0, t, 0, n)
    BY <1>1, FenceSteps DEF Alike
  <2>2. FencesAlike(s, 0, t, 0, n)
    BY <2>1, FenceMatch
  <2> QED BY <2>2 DEF FencesAlike
<1> DEFINE S == {j \in 0 .. n : Gather(s)[j] = Gather(t)[j]}
<1>3. 0 \in S
  BY GatherSteps
<1>4. ASSUME NEW k \in 0 .. n - 1, k \in S PROVE k + 1 \in S
  <2>1. /\ k + 1 \in 1 .. n /\ k + 1 \in 1 .. Len(s) /\ k + 1 \in 1 .. Len(t)
        /\ (k + 1) - 1 = k /\ k \in 0 .. n
    BY <1>1
  <2>2. Gather(s)[k + 1] = BlockLine(Gather(s)[k], s[k + 1], Outside(s, k + 1))
    BY <2>1, GatherSteps
  <2>3. Gather(t)[k + 1] = BlockLine(Gather(t)[k], t[k + 1], Outside(t, k + 1))
    BY <2>1, GatherSteps
  <2>4. s[k + 1] = t[k + 1] /\ Gather(s)[k] = Gather(t)[k]
    BY <1>4, <2>1
  <2>5. Outside(s, k + 1) = Outside(t, k + 1)
    BY <1>2, <2>1 DEF Outside
  <2> QED BY <2>1, <2>2, <2>3, <2>4, <2>5
<1> HIDE DEF S
<1>5. n \in S
  <2>1. \A k \in 0 .. n : k \in S
    BY <1>3, <1>4, RangeInduction
  <2> QED BY <2>1
<1> QED BY <1>5 DEF S

\* Who reads the lines of a block, from the end of another, gathers that block.
LEMMA GatherBlock ==
  ASSUME NEW doc, Doc(doc), NEW b, NEW o, CopyOf(doc, b, o),
         NEW t \in Text, NEW a \in Nat, a + Len(b) <= Len(t),
         \A j \in 1 .. Len(b) : t[a + j] = b[j],
         Fences(t)[a] = 0, Gather(t)[a].current = <<>>
  PROVE  /\ Gather(t)[a + Len(b)].current = b
         /\ Gather(t)[a + Len(b)].blocks = Gather(t)[a].blocks
<1>1. b \in Text /\ o \in Nat /\ Len(doc) \in Nat /\ doc \in Text
  BY CopyIs DEF Doc
<1>2. PICK n \in Nat \ {0} : n = Len(b)
  BY CopyIs
<1>3. Len(t) \in Nat
  BY LenProperties DEF Text
<1>4. \A j \in 0 .. n : Fences(t)[a + j] = Fences(doc)[o + j]
  <2>1. Fences(b)[0] = 0
    BY <1>1, FenceSteps
  <2>2. Alike(t, a, b, 0, n)
    BY <1>1, <1>2, <2>1 DEF Alike
  <2>3. FencesAlike(t, a, b, 0, n)
    BY <1>1, <2>2, FenceMatch
  <2>4. \A j \in 0 .. n : Fences(t)[a + j] = Fences(b)[j]
    BY <2>3 DEF FencesAlike
  <2>5. \A j \in 0 .. n : Fences(b)[j] = Fences(doc)[o + j]
    BY <1>2, CopyIs
  <2> QED BY <2>4, <2>5
<1>5. PICK blocks : blocks = Gather(t)[a].blocks
  OBVIOUS
<1> DEFINE S == {j \in 0 .. n : /\ Gather(t)[a + j].current = SubSeq(b, 1, j)
                                /\ Gather(t)[a + j].blocks = blocks}
<1>6. 0 \in S
  <2>1. SubSeq(b, 1, 0) = <<>>
    <3>1. 1 \in 1 .. Len(b) + 1 /\ 0 \in 0 .. Len(b) /\ 1 <= 0 + 1
      BY <1>2
    <3>2. SubSeq(b, 1, 0) \in Text /\ Len(SubSeq(b, 1, 0)) = 0 - 1 + 1
      BY <1>1, <3>1, Stretch DEF Text
    <3>3. Len(SubSeq(b, 1, 0)) = 0
      BY <3>2
    <3> QED BY <3>2, <3>3, EmptySeq DEF Text
  <2>2. a + 0 = a /\ 0 \in 0 .. n
    BY <1>2
  <2> QED BY <1>5, <2>1, <2>2
<1>7. ASSUME NEW j \in 0 .. n - 1, j \in S PROVE j + 1 \in S
  <2>1. /\ j + 1 \in 1 .. n /\ a + (j + 1) \in 1 .. Len(t) /\ (a + (j + 1)) - 1 = a + j
        /\ j \in 0 .. n /\ a + j \in 0 .. Len(t) /\ (o + (j + 1)) - 1 = o + j
        /\ j + 1 \in 0 .. n /\ a + (j + 1) \in 0 .. Len(t)
    BY <1>1, <1>2, <1>3
  <2>2. PICK acc \in Gathering : acc = Gather(t)[a + j]
    BY <2>1, GatherSteps
  <2>3. acc.current = SubSeq(b, 1, j) /\ acc.blocks = blocks
    BY <1>7, <2>2
  <2>4. PICK line : line = b[j + 1]
    OBVIOUS
  <2>5. t[a + (j + 1)] = line
    BY <1>2, <2>1, <2>4
  <2>6. Gather(t)[a + (j + 1)] = BlockLine(acc, line, Outside(t, a + (j + 1)))
    <3>1. Gather(t)[a + (j + 1)] =
            BlockLine(Gather(t)[(a + (j + 1)) - 1], t[a + (j + 1)], Outside(t, a + (j + 1)))
      BY <2>1, GatherSteps
    <3> QED BY <2>1, <2>2, <2>5, <3>1
  <2>7. ~(line.kind = "blank" /\ Outside(t, a + (j + 1)))
    <3>1. line.kind = "blank" => Fences(doc)[(o + (j + 1)) - 1] # 0
      BY <1>2, <2>1, <2>4 DEF CopyOf
    <3>2. Fences(t)[a + j] = Fences(doc)[o + j]
      BY <1>4, <2>1
    <3>3. Outside(t, a + (j + 1)) <=> Fences(t)[a + j] = 0
      BY <2>1 DEF Outside
    <3> QED BY <2>1, <3>1, <3>2, <3>3
  <2>8. Gather(t)[a + (j + 1)] = [acc EXCEPT !.current = Append(acc.current, line)]
    BY <2>6, <2>7 DEF BlockLine
  <2>9. Append(SubSeq(b, 1, j), line) = SubSeq(b, 1, j + 1)
    <3>1. 0 \in 0 .. Len(b) /\ j \in 0 .. Len(b) - 1
      BY <1>2
    <3>2. Append(SubSeq(b, 0 + 1, j), b[j + 1]) = SubSeq(b, 0 + 1, j + 1)
      BY <1>1, <3>1, StretchGrows DEF Text
    <3>3. 0 + 1 = 1
      OBVIOUS
    <3> QED BY <2>4, <3>2, <3>3
  <2>10. /\ Gather(t)[a + (j + 1)].current = SubSeq(b, 1, j + 1)
         /\ Gather(t)[a + (j + 1)].blocks = blocks
    BY <2>3, <2>8, <2>9 DEF Gathering
  <2> QED BY <2>1, <2>10
<1> HIDE DEF S
<1>8. n \in S
  <2>1. \A k \in 0 .. n : k \in S
    BY <1>6, <1>7, RangeInduction
  <2> QED BY <2>1
<1>9. SubSeq(b, 1, n) = b
  <2>1. 0 \in 0 .. Len(b) /\ n \in 0 .. Len(b) /\ 0 + 1 = 1
    BY <1>2
  <2>2. /\ SubSeq(b, 0 + 1, n) \in Text /\ Len(SubSeq(b, 0 + 1, n)) = n - 0
        /\ \A i \in 1 .. n - 0 : SubSeq(b, 0 + 1, n)[i] = b[0 + i]
    BY <1>1, <1>2, <2>1, StretchAfter DEF Text
  <2>3. PICK c \in Text : c = SubSeq(b, 0 + 1, n)
    BY <2>2
  <2>4. Len(c) = n /\ \A i \in 1 .. n : c[i] = b[i]
    BY <1>2, <2>2, <2>3
  <2>5. c = b
    BY <1>1, <1>2, <2>3, <2>4, SeqEqual DEF Text
  <2> QED BY <2>1, <2>3, <2>5
<1> QED BY <1>2, <1>5, <1>8, <1>9 DEF S

\* A whole block is an excerpt by itself.
LEMMA WholeIsExcerpt ==
  ASSUME NEW doc, Doc(doc), NEW b, Whole(doc, b)
  PROVE  Excerpt(doc, b)
<1>1. PICK o \in Nat : /\ CopyOf(doc, b, o)
                       /\ b[Len(b)].kind # "blank" /\ Closed(doc, o + Len(b))
  BY DEF Whole
<1>2. /\ b \in Text /\ b # <<>> /\ o + Len(b) <= Len(doc) /\ Fences(doc)[o] = 0
      /\ \A i \in 1 .. Len(b) : b[i] = doc[o + i]
  BY <1>1 DEF CopyOf
<1>3. b[1].kind # "blank"
  BY <1>1, CopyIs
<1> QED BY <1>1, <1>2, <1>3, ExcerptOfStretch

\* Nothing of an excerpt is stripped.
LEMMA StrippedExcerpt ==
  ASSUME NEW doc, Doc(doc), NEW t, Excerpt(doc, t)
  PROVE  Stripped(t) = t
<1>1. t \in Text
  BY DEF Excerpt
<1>2. PICK n \in Nat \ {0} : n = Len(t)
  BY ExcerptLines
<1>3. 1 \in 1 .. n /\ n \in 1 .. n /\ t[1].kind # "blank" /\ t[n].kind # "blank"
  BY <1>2 DEF Excerpt
<1>4. PICK a \in 1 .. n, b \in 1 .. n :
        Stripped(t) = SubSeq(t, a, b) /\ a <= 1 /\ n <= b
  BY <1>1, <1>2, <1>3, StrippedIs
<1>5. a = 1 /\ b = n
  BY <1>4
<1>6. 1 \in 1 .. Len(t) + 1 /\ n \in 0 .. Len(t) /\ 1 <= n + 1
  BY <1>2
<1>7. /\ SubSeq(t, 1, n) \in Text /\ Len(SubSeq(t, 1, n)) = n - 1 + 1
      /\ \A i \in 1 .. n - 1 + 1 : SubSeq(t, 1, n)[i] = t[1 + i - 1]
  BY <1>1, <1>6, Stretch DEF Text
<1>8. PICK u \in Text : u = SubSeq(t, 1, n)
  BY <1>7
<1>9. Len(u) = n /\ \A i \in 1 .. n : u[i] = t[i]
  <2>1. n - 1 + 1 = n /\ \A i \in 1 .. n : 1 + i - 1 = i
    OBVIOUS
  <2> QED BY <1>7, <1>8, <2>1
<1>10. u = t
  BY <1>1, <1>2, <1>8, <1>9, SeqEqual DEF Text
<1> QED BY <1>4, <1>5, <1>8, <1>10

\* The least place of an excerpt is the first.
LEMMA FirstPlace ==
  ASSUME NEW doc, Doc(doc), NEW t, Excerpt(doc, t)
  PROVE  Min(Places(t)) = FirstAt(t)
<1>1. /\ t \in Text /\ Len(t) \in Nat \ {0} /\ Len(doc) \in Nat
      /\ FirstAt(t) \in 1 .. Len(doc)
      /\ \A i \in 1 .. Len(t) :
           t[i].at # 0 => t[i].at \in 1 .. Len(doc) /\ FirstAt(t) <= t[i].at
  BY ExcerptLines
<1>2. FirstAt(t) \in Places(t)
  <2>1. 1 \in 1 .. Len(t) /\ t[1].at # 0
    BY <1>1 DEF FirstAt
  <2> QED BY <1>1, <2>1, PlacesIs DEF FirstAt
<1>3. \A p \in Places(t) : p \in Nat /\ FirstAt(t) <= p
  <2>1. ASSUME NEW p \in Places(t) PROVE p \in Nat /\ FirstAt(t) <= p
    <3>1. p # 0 /\ \E i \in 1 .. Len(t) : t[i].at = p
      BY <1>1, PlacesIs
    <3>2. PICK i \in 1 .. Len(t) : t[i].at = p
      BY <3>1
    <3> QED BY <1>1, <3>1, <3>2
  <2> QED BY <2>1
<1>4. Min(Places(t)) \in Places(t) /\ \A p \in Places(t) : Min(Places(t)) <= p
  BY <1>2, <1>3 DEF Min
<1>5. Min(Places(t)) <= FirstAt(t) /\ FirstAt(t) <= Min(Places(t))
  BY <1>2, <1>3, <1>4
<1> QED BY <1>1, <1>3, <1>4, <1>5

\* What joining the first blocks leaves: their lines, and a reader who has seen them.
JoinInv(doc, p, k, t) ==
  /\ Excerpt(doc, t) /\ FirstAt(t) = FirstAt(p[1]) /\ FinalAt(t) = FinalAt(p[k])
  /\ \A l \in 1 .. k : Places(p[l]) \subseteq Places(t)
  /\ Gather(t)[Len(t)].current = p[k]
  /\ Len(Gather(t)[Len(t)].blocks) = k - 1
  /\ \A l \in 1 .. k - 1 : Gather(t)[Len(t)].blocks[l] = p[l]

\* The first block of a chunk ...
LEMMA JoinFirst ==
  ASSUME NEW doc, Doc(doc), NEW p, Ordered(doc, p), p # <<>>
  PROVE  JoinInv(doc, p, 1, p[1])
<1>1. p \in Seq(Text)
  BY DEF Ordered
<1>2. PICK n \in Nat \ {0} : n = Len(p)
  BY <1>1, EmptySeq, LenProperties
<1>3. PICK b \in Text : b = p[1] /\ Whole(doc, b)
  <2>1. 1 \in 1 .. n
    BY <1>2
  <2> QED BY <1>1, <1>2, <2>1, ElementOfSeq DEF Ordered
<1>4. PICK o \in Nat : CopyOf(doc, b, o)
  BY <1>3 DEF Whole
<1>5. /\ Gather(b)[0].current = <<>> /\ Gather(b)[0].blocks = <<>>
      /\ Fences(b)[0] = 0
  BY <1>3, GatherSteps, FenceSteps
<1>6. /\ Gather(b)[Len(b)].current = b
      /\ Gather(b)[Len(b)].blocks = <<>>
  <2>1. Len(b) \in Nat /\ 0 + Len(b) <= Len(b) /\ 0 + Len(b) = Len(b)
        /\ \A j \in 1 .. Len(b) : b[0 + j] = b[j]
    BY <1>3, LenProperties DEF Text
  <2>2. /\ Gather(b)[0 + Len(b)].current = b
        /\ Gather(b)[0 + Len(b)].blocks = Gather(b)[0].blocks
    BY <1>3, <1>4, <1>5, <2>1, GatherBlock
  <2> QED BY <1>5, <2>1, <2>2
<1>7. Excerpt(doc, b)
  BY <1>3, WholeIsExcerpt
<1>8. \A l \in 1 .. 1 : Places(p[l]) \subseteq Places(b)
  BY <1>3
<1>9. Len(Gather(b)[Len(b)].blocks) = 1 - 1
  BY <1>6
<1>10. JoinInv(doc, p, 1, b)
  BY <1>3, <1>6, <1>7, <1>8, <1>9 DEF JoinInv
<1> QED BY <1>3, <1>10

\* ... and the next one.
LEMMA JoinStep ==
  ASSUME NEW doc, Doc(doc), NEW p, Ordered(doc, p), NEW k \in 1 .. Len(p) - 1,
         NEW s, JoinInv(doc, p, k, s)
  PROVE  JoinInv(doc, p, k + 1, Joined(s, p[k + 1]))
<1>1. p \in Seq(Text)
  BY DEF Ordered
<1>2. PICK n \in Nat : n = Len(p)
  BY <1>1, LenProperties
<1>3. k \in 1 .. n /\ k + 1 \in 1 .. n /\ k \in Nat \ {0} /\ k < k + 1
  BY <1>2
<1>4. PICK b \in Text, last \in Text : /\ b = p[k + 1] /\ last = p[k]
                                       /\ Whole(doc, b) /\ Whole(doc, last)
                                       /\ FinalAt(last) < FirstAt(b)
  BY <1>1, <1>2, <1>3, ElementOfSeq DEF Ordered
<1>5. PICK o \in Nat : CopyOf(doc, b, o)
  BY <1>4 DEF Whole
<1>6. Excerpt(doc, b) /\ Excerpt(doc, s) /\ s \in Text /\ s # <<>> /\ FinalAt(s) < FirstAt(b)
  BY <1>4, WholeIsExcerpt DEF JoinInv, Excerpt
<1>7. PICK m \in Nat \ {0}, h \in Nat \ {0} : m = Len(s) /\ h = Len(b)
  BY <1>6, ExcerptLines
<1>8. PICK u \in Text : u = Joined(s, b)
  BY <1>4, <1>6, JoinedIs
<1>9. /\ Len(u) = m + 1 + h
      /\ \A i \in 1 .. m : u[i] = s[i]
      /\ u[m + 1] = Blank
      /\ \A i \in 1 .. h : u[m + 1 + i] = b[i]
  <2>1. /\ Len(Joined(s, b)) = Len(s) + 1 + Len(b)
        /\ \A i \in 1 .. Len(s) : Joined(s, b)[i] = s[i]
        /\ Joined(s, b)[Len(s) + 1] = Blank
        /\ \A i \in 1 .. Len(b) : Joined(s, b)[Len(s) + 1 + i] = b[i]
    BY <1>4, <1>6, JoinedIs
  <2> QED BY <1>7, <1>8, <2>1
<1>10. /\ Excerpt(doc, u)
       /\ FirstAt(u) = FirstAt(s) /\ FinalAt(u) = FinalAt(b)
       /\ Places(s) \cup Places(b) \subseteq Places(u)
  BY <1>6, <1>8, ExcerptJoined
<1>11. /\ m + 1 \in 1 .. Len(u) /\ (m + 1) - 1 = m /\ m \in 0 .. Len(u) /\ m + 1 \in Nat
       /\ m <= Len(u) /\ m + 1 \in 0 .. Len(u) /\ (m + 1) + Len(b) <= Len(u)
       /\ (m + 1) + Len(b) = Len(u)
  BY <1>7, <1>9
<1>12. Fences(u)[m] = 0 /\ Fences(u)[m + 1] = 0
  <2>1. u[m + 1].at = 0
    BY <1>9 DEF Blank
  <2> QED BY <1>10, <1>11, <2>1, ExcerptLines
<1>13. PICK acc \in Gathering : acc = Gather(u)[m] /\ acc = Gather(s)[m]
  <2>1. Gather(u)[m] \in Gathering
    BY <1>11, GatherSteps
  <2>2. Gather(u)[m] = Gather(s)[m]
    <3>1. m \in Nat /\ m <= Len(u) /\ m <= Len(s) /\ \A j \in 1 .. m : u[j] = s[j]
      BY <1>7, <1>9, <1>11
    <3> QED BY <1>6, <3>1, GatherMatch
  <2> QED BY <2>1, <2>2
<1>14. /\ acc.current = last /\ Len(acc.blocks) = k - 1
       /\ \A l \in 1 .. k - 1 : acc.blocks[l] = p[l]
  BY <1>4, <1>7, <1>13 DEF JoinInv
<1>15. PICK old \in Seq(Text) : old = acc.blocks
  BY DEF Gathering
<1>16. Gather(u)[m + 1] = [blocks |-> Append(old, last), current |-> <<>>]
  <2>1. Gather(u)[m + 1] = BlockLine(acc, Blank, Outside(u, m + 1))
    <3>1. Gather(u)[m + 1] =
            BlockLine(Gather(u)[(m + 1) - 1], u[m + 1], Outside(u, m + 1))
      BY <1>11, GatherSteps
    <3> QED BY <1>9, <1>11, <1>13, <3>1
  <2>2. Outside(u, m + 1) /\ Blank.kind = "blank"
    BY <1>11, <1>12 DEF Outside, Blank
  <2>3. last # <<>>
    BY <1>4 DEF Whole, CopyOf
  <2> QED BY <1>14, <1>15, <2>1, <2>2, <2>3 DEF BlockLine
<1>17. PICK new \in Seq(Text) : new = Append(old, last)
  BY <1>4, AppendProperties
<1>18. Len(new) = k /\ new[k] = last /\ \A l \in 1 .. k - 1 : new[l] = p[l]
  <2>1. /\ Len(new) = Len(old) + 1 /\ new[Len(old) + 1] = last
        /\ \A l \in 1 .. Len(old) : new[l] = old[l]
    BY <1>4, <1>17, AppendProperties
  <2>2. Len(old) = k - 1 /\ Len(old) + 1 = k
    BY <1>3, <1>14, <1>15
  <2> QED BY <1>14, <1>15, <2>1, <2>2
<1>19. Gather(u)[Len(u)].current = b /\ Gather(u)[Len(u)].blocks = new
  <2>1. Gather(u)[m + 1].current = <<>> /\ Gather(u)[m + 1].blocks = new
    BY <1>16, <1>17
  <2>2. \A j \in 1 .. Len(b) : u[(m + 1) + j] = b[j]
    BY <1>7, <1>9
  <2>3. /\ Gather(u)[(m + 1) + Len(b)].current = b
        /\ Gather(u)[(m + 1) + Len(b)].blocks = Gather(u)[m + 1].blocks
    <3>1. PICK a \in Nat : a = m + 1
      BY <1>11
    <3>2. /\ a + Len(b) <= Len(u) /\ Fences(u)[a] = 0 /\ Gather(u)[a].current = <<>>
          /\ \A j \in 1 .. Len(b) : u[a + j] = b[j]
      BY <1>11, <1>12, <2>1, <2>2, <3>1
    <3>3. /\ Gather(u)[a + Len(b)].current = b
          /\ Gather(u)[a + Len(b)].blocks = Gather(u)[a].blocks
      BY <1>5, <3>2, GatherBlock
    <3> QED BY <3>1, <3>3
  <2> QED BY <1>11, <2>1, <2>3
<1>20. \A l \in 1 .. (k + 1) - 1 : new[l] = p[l]
  <2>1. \A l \in 1 .. (k + 1) - 1 : l \in 1 .. k - 1 \/ l = k
    BY <1>3
  <2> QED BY <1>4, <1>18, <2>1
<1>21. \A l \in 1 .. k + 1 : Places(p[l]) \subseteq Places(u)
  <2>1. \A l \in 1 .. k + 1 : l \in 1 .. k \/ l = k + 1
    BY <1>3
  <2> QED BY <1>4, <1>10, <2>1 DEF JoinInv
<1>22. FirstAt(u) = FirstAt(p[1]) /\ FinalAt(u) = FinalAt(p[k + 1])
  BY <1>4, <1>10 DEF JoinInv
<1>23. Len(new) = (k + 1) - 1
  BY <1>3, <1>18
<1>24. JoinInv(doc, p, k + 1, u)
  BY <1>4, <1>10, <1>19, <1>20, <1>21, <1>22, <1>23 DEF JoinInv
<1> QED BY <1>4, <1>8, <1>24

\* The text of a chunk: its blocks are those it was joined from.
LEMMA JoinedText ==
  ASSUME NEW doc, Doc(doc), NEW p, Ordered(doc, p), p # <<>>
  PROVE  /\ Excerpt(doc, JoinedBlocks(p)[Len(p)])
         /\ FirstAt(JoinedBlocks(p)[Len(p)]) = FirstAt(p[1])
         /\ \A l \in 1 .. Len(p) : Places(p[l]) \subseteq Places(JoinedBlocks(p)[Len(p)])
         /\ Blocks(JoinedBlocks(p)[Len(p)]) = p
<1>1. p \in Seq(Text)
  BY DEF Ordered
<1>2. PICK n \in Nat : n = Len(p) /\ n # 0
  BY <1>1, EmptySeq, LenProperties
<1>3. PICK text : text = JoinedBlocks(p)
  OBVIOUS
<1>4. /\ text \in [0 .. n -> Text] /\ text[0] = <<>>
      /\ \A i \in 1 .. n : text[i] = Joined(text[i - 1], p[i])
  BY <1>1, <1>2, <1>3, JoinSteps
<1> DEFINE S == {k \in 0 .. n : k # 0 => JoinInv(doc, p, k, text[k])}
<1>5. 0 \in S
  BY <1>2
<1>6. ASSUME NEW k \in 0 .. n - 1, k \in S PROVE k + 1 \in S
  <2>1. k + 1 \in 1 .. n /\ (k + 1) - 1 = k /\ k \in 0 .. n
    BY <1>2
  <2>2. text[k + 1] = Joined(text[k], p[k + 1])
    BY <1>4, <2>1
  <2>3. CASE k = 0
    <3>1. text[1] = Joined(<<>>, p[1]) /\ 1 \in 1 .. n
      BY <1>2, <1>4, <2>1, <2>2, <2>3
    <3>2. text[1] = p[1]
      BY <3>1 DEF Joined
    <3>3. JoinInv(doc, p, 1, text[1])
      BY <3>2, JoinFirst
    <3> QED BY <2>1, <2>3, <3>3
  <2>4. CASE k # 0
    <3>1. JoinInv(doc, p, k, text[k]) /\ k \in 1 .. Len(p) - 1
      BY <1>2, <1>6, <2>4
    <3>2. JoinInv(doc, p, k + 1, text[k + 1])
      BY <2>2, <3>1, JoinStep
    <3> QED BY <2>1, <3>2
  <2> QED BY <2>3, <2>4
<1> HIDE DEF S
<1>7. JoinInv(doc, p, n, text[n])
  <2>1. \A k \in 0 .. n : k \in S
    BY <1>5, <1>6, RangeInduction
  <2>2. n \in S
    BY <2>1
  <2> QED BY <1>2, <2>2 DEF S
<1>8. PICK t \in Text : t = text[n]
  BY <1>4
<1>9. Excerpt(doc, t) /\ Len(t) \in 0 .. Len(t)
  <2>1. Excerpt(doc, t)
    BY <1>7, <1>8 DEF JoinInv
  <2> QED BY <2>1, ExcerptLines
<1>10. PICK acc \in Gathering : acc = Gather(t)[Len(t)]
  BY <1>9, GatherSteps
<1>11. PICK blocks \in Seq(Text), current \in Text :
         blocks = acc.blocks /\ current = acc.current
  BY DEF Gathering
<1>12. /\ current = p[n] /\ Len(blocks) = n - 1
       /\ \A l \in 1 .. n - 1 : blocks[l] = p[l]
  BY <1>7, <1>8, <1>10, <1>11 DEF JoinInv
<1>13. current # <<>>
  <2>1. n \in 1 .. n
    BY <1>2
  <2> QED BY <1>2, <1>12, <2>1 DEF Ordered, Whole, CopyOf
<1>14. Blocks(t) = Append(blocks, current)
  BY <1>10, <1>11, <1>13 DEF Blocks
<1>15. PICK q \in Seq(Text) : q = Append(blocks, current)
  BY AppendProperties
<1>16. Len(q) = n /\ \A l \in 1 .. n : q[l] = p[l]
  <2>1. /\ Len(q) = Len(blocks) + 1 /\ q[Len(blocks) + 1] = current
        /\ \A l \in 1 .. Len(blocks) : q[l] = blocks[l]
    BY <1>15, AppendProperties
  <2>2. Len(blocks) + 1 = n /\ \A l \in 1 .. n : l \in 1 .. n - 1 \/ l = n
    BY <1>2, <1>12
  <2> QED BY <1>12, <2>1, <2>2
<1>17. q = p
  BY <1>1, <1>2, <1>15, <1>16, SeqEqual
<1>18. Blocks(t) = p
  BY <1>14, <1>15, <1>17
<1>19. /\ FirstAt(t) = FirstAt(p[1])
       /\ \A l \in 1 .. Len(p) : Places(p[l]) \subseteq Places(t)
  BY <1>2, <1>7, <1>8 DEF JoinInv
<1> QED BY <1>2, <1>3, <1>8, <1>9, <1>18, <1>19

-----------------------------------------------------------------------------
(* Pieces: the chunks of all sections.                                     *)

LEMMA PiecesOfType ==
  ASSUME NEW sec \in Section
  PROVE  PiecesOf(sec) \in Seq(Piece)
<1>1. PICK body \in Text : body = sec.body
  BY DEF Section
<1>2. Blocks(body) \in Seq(Text)
  <2>1. Len(body) \in 0 .. Len(body)
    BY LenProperties DEF Text
  <2>2. PICK acc \in Gathering : acc = Gather(body)[Len(body)]
    BY <2>1, GatherSteps
  <2>3. acc.blocks \in Seq(Text) /\ acc.current \in Text
    BY DEF Gathering
  <2>4. Append(acc.blocks, acc.current) \in Seq(Text)
    BY <2>3, AppendProperties
  <2> QED BY <2>2, <2>3, <2>4 DEF Blocks
<1>3. PICK bs \in Seq(Text) : bs = Blocks(body)
  BY <1>2
<1>4. Packed(bs, TargetTokens, Overlap) \in Seq(Seq(Text))
  <2>1. Len(bs) \in 0 .. Len(bs)
    BY LenProperties
  <2>2. PICK acc \in Packing : acc = Pack(bs, TargetTokens, Overlap)[Len(bs)]
    BY <2>1, OverlapType, PackSteps
  <2>3. acc.out \in Seq(Seq(Text)) /\ acc.buf \in Seq(Text)
    BY DEF Packing
  <2>4. Append(acc.out, acc.buf) \in Seq(Seq(Text))
    BY <2>3, AppendProperties
  <2> QED BY <2>2, <2>3, <2>4 DEF Packed
<1>5. PICK ps \in Seq(Seq(Text)) : ps = Packed(Blocks(sec.body), TargetTokens, Overlap)
  BY <1>1, <1>3, <1>4
<1>6. PICK n \in Nat : n = Len(ps) /\ DOMAIN ps = 1 .. n
  BY LenProperties
<1>7. PiecesOf(sec) =
        [i \in 1 .. n |-> [path |-> sec.path,
                           text |-> Stripped(JoinedBlocks(ps[i])[Len(ps[i])])]]
  <2>1. FenceSafeSplit(sec.body, TargetTokens, Overlap) =
          [i \in 1 .. n |-> JoinedBlocks(ps[i])[Len(ps[i])]]
    BY <1>5, <1>6 DEF FenceSafeSplit
  <2> QED BY <2>1 DEF PiecesOf
<1>8. \A i \in 1 .. n : [path |-> sec.path,
                         text |-> Stripped(JoinedBlocks(ps[i])[Len(ps[i])])] \in Piece
  <2>1. ASSUME NEW i \in 1 .. n PROVE Stripped(JoinedBlocks(ps[i])[Len(ps[i])]) \in Text
    <3>1. PICK p \in Seq(Text) : p = ps[i]
      BY <1>6, ElementOfSeq
    <3>2. Len(p) \in 0 .. Len(p)
      BY LenProperties
    <3>3. JoinedBlocks(p)[Len(p)] \in Text
      BY <3>2, JoinSteps
    <3> QED BY <3>1, <3>3, StrippedType
  <2>2. sec.path \in Text
    BY DEF Section
  <2> QED BY <2>1, <2>2 DEF Piece
<1>9. PiecesOf(sec) \in [1 .. n -> Piece]
  BY <1>7, <1>8
<1> QED BY <1>9, SeqDef

AndPieces(pieces, sec) == pieces \o PiecesOf(sec)

\* ... and again, to cut them.
LEMMA CutSteps ==
  ASSUME NEW sections \in Seq(Section)
  PROVE  /\ Cut(sections) \in [0 .. Len(sections) -> Seq(Piece)]
         /\ Cut(sections)[0] = <<>>
         /\ \A i \in 1 .. Len(sections) :
              Cut(sections)[i] = Cut(sections)[i - 1] \o PiecesOf(sections[i])
<1>0. PICK n \in Nat : n = Len(sections)
  BY LenProperties
<1>1. \A i \in 1 .. n, a \in Seq(Piece) : AndPieces(a, sections[i]) \in Seq(Piece)
  <2>1. \A i \in 1 .. n : sections[i] \in Section
    BY <1>0, ElementOfSeq
  <2> QED BY <2>1, PiecesOfType, ConcatProperties DEF AndPieces
<1>2. PICK step : step = [i \in 1 .. n |-> [a \in Seq(Piece) |-> AndPieces(a, sections[i])]]
  OBVIOUS
<1>3. Loop(n, Seq(Piece), <<>>, step)
  <2>1. <<>> \in Seq(Piece)
    BY EmptySeq
  <2> QED BY <1>1, <1>2, <2>1 DEF Loop
<1>4. PICK g : Rounds(n, Seq(Piece), <<>>, step, g)
  BY <1>3, Recursion
<1>5. g = [i \in 0 .. n |-> IF i = 0 THEN <<>> ELSE AndPieces(g[i - 1], sections[i])]
  <2>1. \A i \in 1 .. n : i \in 0 .. n /\ i - 1 \in 0 .. n
    OBVIOUS
  <2>2. \A i \in 1 .. n : g[i] = AndPieces(g[i - 1], sections[i])
    BY <1>2, <1>4, <2>1 DEF Rounds
  <2> QED BY <1>4, <2>2 DEF Rounds
<1>6. PICK f : /\ f = [i \in 0 .. n |->
                         IF i = 0 THEN <<>>
                         ELSE AndPieces(f[i - 1], sections[i])]
               /\ Cut(sections) = f
  BY <1>0, <1>5 DEF Cut, AndPieces
<1>7. f[0] = <<>> /\ \A i \in 1 .. n : f[i] = AndPieces(f[i - 1], sections[i])
  BY <1>6
<1>8. f \in [0 .. n -> Seq(Piece)]
  <2>1. \A k \in 1 .. n : f[k - 1] \in Seq(Piece) => f[k] \in Seq(Piece)
    BY <1>1, <1>7
  <2>2. f[0] \in Seq(Piece)
    BY <1>3, <1>7 DEF Loop
  <2>3. DOMAIN f = 0 .. n /\ f = [i \in DOMAIN f |-> f[i]]
    BY <1>6
  <2> QED BY <2>1, <2>2, <2>3, RoundsTyped
<1> QED BY <1>0, <1>6, <1>7, <1>8 DEF AndPieces

\* Pieces that are excerpts of the document within the size, in its order.
Pieced(doc, pieces) ==
  /\ pieces \in Seq(Piece)
  /\ \A i \in 1 .. Len(pieces) :
       Excerpt(doc, pieces[i].text) /\ Bounded(Blocks(pieces[i].text))
  /\ \A i, j \in 1 .. Len(pieces) :
       i < j => FirstAt(pieces[i].text) <= FirstAt(pieces[j].text)

\* A piece has block b, whole.
Keeps(pieces, b) == \E i \in 1 .. Len(pieces) : Places(b) \subseteq Places(pieces[i].text)

\* The pieces of one section: within it, in its order, with each of its blocks whole.
LEMMA PiecesOfSection ==
  ASSUME NEW doc, Doc(doc), NEW sec \in Section, Excerpt(doc, sec.body)
  PROVE  /\ Pieced(doc, PiecesOf(sec))
         /\ \A i \in 1 .. Len(PiecesOf(sec)) :
              /\ FirstAt(sec.body) <= FirstAt(PiecesOf(sec)[i].text)
              /\ FirstAt(PiecesOf(sec)[i].text) <= FinalAt(sec.body)
         /\ \A l \in 1 .. Len(Blocks(sec.body)) : Keeps(PiecesOf(sec), Blocks(sec.body)[l])
<1>1. PICK body \in Text : body = sec.body
  BY DEF Section
<1>2. PICK bs \in Seq(Text) : bs = Blocks(sec.body)
  BY BlocksAreWhole DEF Ordered
<1>3. /\ Ordered(doc, bs)
      /\ \A j \in 1 .. Len(bs) :
           FirstAt(body) <= FirstAt(bs[j]) /\ FinalAt(bs[j]) <= FinalAt(body)
  BY <1>1, <1>2, BlocksAreWhole
<1>4. PICK ps \in Seq(Seq(Text)) : ps = Packed(bs, TargetTokens, Overlap)
  BY <1>3, PackedAreChunks DEF Chunks
<1>5. Chunks(doc, bs, ps) /\ \A j \in 1 .. Len(bs) : Holds(ps, bs[j])
  BY <1>3, <1>4, PackedAreChunks
<1>6. PICK n \in Nat : n = Len(ps) /\ DOMAIN ps = 1 .. n
  BY LenProperties
<1>7. PICK qs \in Seq(Piece) : qs = PiecesOf(sec)
  BY PiecesOfType
<1>8. qs = [i \in 1 .. n |-> [path |-> sec.path,
                              text |-> Stripped(JoinedBlocks(ps[i])[Len(ps[i])])]]
  <2>1. FenceSafeSplit(sec.body, TargetTokens, Overlap) =
          [i \in 1 .. n |-> JoinedBlocks(ps[i])[Len(ps[i])]]
    BY <1>2, <1>4, <1>6 DEF FenceSafeSplit
  <2> QED BY <1>7, <2>1 DEF PiecesOf
<1>9. Len(qs) = n
  <2>1. DOMAIN qs = 1 .. n
    BY <1>8
  <2> QED BY <2>1, LenProperties
<1>10. ASSUME NEW i \in 1 .. n
       PROVE  /\ ChunkOf(doc, bs, ps[i]) /\ Excerpt(doc, qs[i].text)
              /\ FirstAt(qs[i].text) = FirstAt(ps[i][1])
              /\ Blocks(qs[i].text) = ps[i]
              /\ \A l \in 1 .. Len(ps[i]) : Places(ps[i][l]) \subseteq Places(qs[i].text)
  <2>1. PICK p \in Seq(Text) : p = ps[i]
    BY <1>6, ElementOfSeq
  <2>2. ChunkOf(doc, bs, p)
    BY <1>5, <1>6, <2>1 DEF Chunks
  <2>3. Ordered(doc, p) /\ p # <<>>
    BY <2>2 DEF ChunkOf
  <2>4. PICK t : t = JoinedBlocks(p)[Len(p)]
    OBVIOUS
  <2>5. /\ Excerpt(doc, t) /\ FirstAt(t) = FirstAt(p[1]) /\ Blocks(t) = p
        /\ \A l \in 1 .. Len(p) : Places(p[l]) \subseteq Places(t)
    BY <2>3, <2>4, JoinedText
  <2>6. Stripped(t) = t
    BY <2>5, StrippedExcerpt
  <2>7. qs[i].text = t
    BY <1>8, <2>1, <2>4, <2>6
  <2> QED BY <2>1, <2>2, <2>5, <2>7
<1>11. ASSUME NEW i \in 1 .. n
       PROVE  FirstAt(body) <= FirstAt(qs[i].text) /\ FirstAt(qs[i].text) <= FinalAt(body)
  <2>1. Among(bs, ps[i][1])
    <3>1. ps[i] # <<>> /\ ps[i] \in Seq(Text) /\ \A l \in 1 .. Len(ps[i]) : Among(bs, ps[i][l])
      BY <1>10 DEF ChunkOf, Ordered
    <3>2. 1 \in 1 .. Len(ps[i])
      BY <3>1, EmptySeq, LenProperties
    <3> QED BY <3>1, <3>2
  <2>2. PICK j \in 1 .. Len(bs) : ps[i][1] = bs[j]
    BY <2>1 DEF Among
  <2>3. PICK b : b = bs[j] /\ Whole(doc, b)
    BY <1>3 DEF Ordered
  <2>4. FirstAt(b) \in Nat /\ FinalAt(b) \in Nat /\ FirstAt(b) <= FinalAt(b)
    BY <2>3, WholeEnds
  <2>5. FirstAt(body) <= FirstAt(b) /\ FinalAt(b) <= FinalAt(body)
    BY <1>3, <2>3
  <2>6. FirstAt(body) \in Nat /\ FinalAt(body) \in Nat
    <3>1. Excerpt(doc, body)
      BY <1>1
    <3> QED BY <3>1, ExcerptLines
  <2>7. FirstAt(qs[i].text) = FirstAt(b)
    BY <1>10, <2>2, <2>3
  <2> QED BY <2>4, <2>5, <2>6, <2>7
<1>12. Pieced(doc, qs)
  <2>1. \A i \in 1 .. n : Excerpt(doc, qs[i].text) /\ Bounded(Blocks(qs[i].text))
    BY <1>10 DEF ChunkOf
  <2>2. \A i, j \in 1 .. n : i < j => FirstAt(qs[i].text) <= FirstAt(qs[j].text)
    BY <1>5, <1>6, <1>10 DEF Chunks
  <2> QED BY <1>9, <2>1, <2>2 DEF Pieced
<1>13. ASSUME NEW l \in 1 .. Len(bs) PROVE Keeps(qs, bs[l])
  <2>1. Holds(ps, bs[l])
    BY <1>5
  <2>2. PICK i \in 1 .. n : \E k \in 1 .. Len(ps[i]) : ps[i][k] = bs[l]
    BY <1>6, <2>1 DEF Holds
  <2>3. PICK k \in 1 .. Len(ps[i]) : ps[i][k] = bs[l]
    BY <2>2
  <2>4. Places(bs[l]) \subseteq Places(qs[i].text)
    BY <1>10, <2>3
  <2> QED BY <1>9, <2>4 DEF Keeps
<1> QED BY <1>1, <1>2, <1>7, <1>9, <1>11, <1>12, <1>13

\* What the first sections leave: their pieces, all of them before the other sections.
CutInv(doc, ss, k, pieces) ==
  /\ Pieced(doc, pieces)
  /\ \A i \in 1 .. Len(pieces) : \A j \in k + 1 .. Len(ss) :
       FirstAt(pieces[i].text) <= FirstAt(ss[j].body)
  /\ \A j \in 1 .. k : \A l \in 1 .. Len(Blocks(ss[j].body)) :
       Keeps(pieces, Blocks(ss[j].body)[l])

\* The next section.
LEMMA CutStep ==
  ASSUME NEW doc, Doc(doc), NEW ss, Sections(doc, ss), NEW k \in 0 .. Len(ss) - 1,
         NEW pieces, CutInv(doc, ss, k, pieces)
  PROVE  CutInv(doc, ss, k + 1, pieces \o PiecesOf(ss[k + 1]))
<1>1. ss \in Seq(Section)
  BY DEF Sections
<1>2. PICK n \in Nat : n = Len(ss)
  BY <1>1, LenProperties
<1>3. k + 1 \in 1 .. n /\ k \in Nat /\ k + 1 \in k + 1 .. n
  BY <1>2
<1>4. PICK sec \in Section : sec = ss[k + 1] /\ Excerpt(doc, sec.body)
  BY <1>1, <1>2, <1>3, ElementOfSeq DEF Sections
<1>5. PICK old \in Seq(Piece), qs \in Seq(Piece) : old = pieces /\ qs = PiecesOf(sec)
  BY PiecesOfType DEF CutInv, Pieced
<1>6. PICK a \in Nat, b \in Nat : a = Len(old) /\ b = Len(qs)
  BY LenProperties
<1>7. PICK new \in Seq(Piece) : new = old \o qs
  BY ConcatProperties
<1>8. /\ Len(new) = a + b
      /\ \A i \in 1 .. a + b : \/ i \in 1 .. a /\ new[i] = old[i]
                               \/ i - a \in 1 .. b /\ new[i] = qs[i - a]
      /\ \A i \in 1 .. a : i \in 1 .. a + b /\ new[i] = old[i]
      /\ \A i \in 1 .. b : a + i \in 1 .. a + b /\ new[a + i] = qs[i]
  <2>1. /\ Len(new) = Len(old) + Len(qs)
        /\ \A i \in 1 .. Len(old) + Len(qs) :
             new[i] = IF i <= Len(old) THEN old[i] ELSE qs[i - Len(old)]
    BY <1>7, ConcatProperties
  <2>2. \A i \in 1 .. a + b : new[i] = IF i <= a THEN old[i] ELSE qs[i - a]
    BY <1>6, <2>1
  <2>3. \A i \in 1 .. a + b : (i <= a => i \in 1 .. a) /\ (~(i <= a) => i - a \in 1 .. b)
    BY <1>6
  <2>4. \A i \in 1 .. b : a + i \in 1 .. a + b /\ ~(a + i <= a) /\ (a + i) - a = i
    BY <1>6
  <2>5. \A i \in 1 .. a : i \in 1 .. a + b /\ i <= a
    BY <1>6
  <2>6. \A i \in 1 .. a + b : \/ i \in 1 .. a /\ new[i] = old[i]
                              \/ i - a \in 1 .. b /\ new[i] = qs[i - a]
    BY <2>2, <2>3
  <2>7. \A i \in 1 .. b : a + i \in 1 .. a + b /\ new[a + i] = qs[i]
    BY <2>2, <2>4
  <2>8. \A i \in 1 .. a : i \in 1 .. a + b /\ new[i] = old[i]
    BY <2>2, <2>5
  <2> QED BY <1>6, <2>1, <2>6, <2>7, <2>8
<1>9. /\ Pieced(doc, old)
      /\ \A i \in 1 .. a : \A j \in k + 1 .. n : FirstAt(old[i].text) <= FirstAt(ss[j].body)
      /\ \A j \in 1 .. k : \A l \in 1 .. Len(Blocks(ss[j].body)) :
           Keeps(old, Blocks(ss[j].body)[l])
  BY <1>2, <1>5, <1>6 DEF CutInv
<1>10. /\ Pieced(doc, qs)
       /\ \A i \in 1 .. b : /\ FirstAt(sec.body) <= FirstAt(qs[i].text)
                            /\ FirstAt(qs[i].text) <= FinalAt(sec.body)
       /\ \A l \in 1 .. Len(Blocks(sec.body)) : Keeps(qs, Blocks(sec.body)[l])
  BY <1>4, <1>5, <1>6, PiecesOfSection
<1>11. /\ \A i \in 1 .. a : FirstAt(old[i].text) \in Nat
       /\ \A i \in 1 .. b : FirstAt(qs[i].text) \in Nat
       /\ \A j \in 1 .. n : FirstAt(ss[j].body) \in Nat /\ FinalAt(ss[j].body) \in Nat
  <2>1. ASSUME NEW t, Excerpt(doc, t) PROVE FirstAt(t) \in Nat /\ FinalAt(t) \in Nat
    BY <2>1, ExcerptLines
  <2>2. \A i \in 1 .. a : Excerpt(doc, old[i].text)
    BY <1>6, <1>9 DEF Pieced
  <2>3. \A i \in 1 .. b : Excerpt(doc, qs[i].text)
    BY <1>6, <1>10 DEF Pieced
  <2>4. \A j \in 1 .. n : Excerpt(doc, ss[j].body)
    BY <1>2 DEF Sections
  <2> QED BY <2>1, <2>2, <2>3, <2>4
<1>12. \A i \in 1 .. a + b : Excerpt(doc, new[i].text) /\ Bounded(Blocks(new[i].text))
  BY <1>6, <1>8, <1>9, <1>10 DEF Pieced
<1>13. ASSUME NEW i \in 1 .. a + b, NEW j \in 1 .. a + b, i < j
       PROVE  FirstAt(new[i].text) <= FirstAt(new[j].text)
  <2>1. CASE i \in 1 .. a /\ new[i] = old[i] /\ j \in 1 .. a /\ new[j] = old[j]
    BY <1>6, <1>9, <1>13, <2>1 DEF Pieced
  <2>2. CASE i \in 1 .. a /\ new[i] = old[i] /\ j - a \in 1 .. b /\ new[j] = qs[j - a]
    <3>1. FirstAt(old[i].text) <= FirstAt(sec.body)
      BY <1>3, <1>4, <1>9, <2>2
    <3>2. FirstAt(sec.body) <= FirstAt(qs[j - a].text)
      BY <1>10, <2>2
    <3>3. /\ FirstAt(old[i].text) \in Nat /\ FirstAt(qs[j - a].text) \in Nat
          /\ FirstAt(sec.body) \in Nat
      BY <1>3, <1>4, <1>11, <2>2
    <3> QED BY <2>2, <3>1, <3>2, <3>3
  <2>3. CASE i - a \in 1 .. b /\ new[i] = qs[i - a] /\ j - a \in 1 .. b /\ new[j] = qs[j - a]
    <3>1. i - a < j - a
      BY <1>6, <1>13
    <3> QED BY <1>6, <1>10, <2>3, <3>1 DEF Pieced
  <2>4. ~(i - a \in 1 .. b /\ j \in 1 .. a)
    BY <1>6, <1>13
  <2> QED BY <1>8, <2>1, <2>2, <2>3, <2>4
<1>14. Pieced(doc, new)
  BY <1>8, <1>12, <1>13 DEF Pieced
<1>15. ASSUME NEW i \in 1 .. a + b, NEW j \in (k + 1) + 1 .. n
       PROVE  FirstAt(new[i].text) <= FirstAt(ss[j].body)
  <2>1. j \in k + 1 .. n /\ j \in 1 .. n /\ k + 1 < j
    BY <1>2, <1>3
  <2>2. CASE i \in 1 .. a /\ new[i] = old[i]
    BY <1>9, <2>1, <2>2
  <2>3. CASE i - a \in 1 .. b /\ new[i] = qs[i - a]
    <3>1. FirstAt(qs[i - a].text) <= FinalAt(sec.body)
      BY <1>10, <2>3
    <3>2. FinalAt(sec.body) < FirstAt(ss[j].body)
      BY <1>2, <1>3, <1>4, <2>1 DEF Sections
    <3>3. /\ FirstAt(qs[i - a].text) \in Nat /\ FirstAt(ss[j].body) \in Nat
          /\ FinalAt(sec.body) \in Nat
      BY <1>3, <1>4, <1>11, <2>1, <2>3
    <3> QED BY <2>3, <3>1, <3>2, <3>3
  <2> QED BY <1>8, <2>2, <2>3
<1>16. \A c : Keeps(old, c) \/ Keeps(qs, c) => Keeps(new, c)
  <2>1. ASSUME NEW c, NEW i \in 1 .. a, Places(c) \subseteq Places(old[i].text)
        PROVE  Keeps(new, c)
    BY <1>8, <2>1 DEF Keeps
  <2>2. ASSUME NEW c, NEW i \in 1 .. b, Places(c) \subseteq Places(qs[i].text)
        PROVE  Keeps(new, c)
    <3>1. a + i \in 1 .. a + b /\ Places(c) \subseteq Places(new[a + i].text)
      BY <1>8, <2>2
    <3> QED BY <1>8, <3>1 DEF Keeps
  <2> QED BY <1>6, <2>1, <2>2 DEF Keeps
<1>17. ASSUME NEW j \in 1 .. k + 1, NEW l \in 1 .. Len(Blocks(ss[j].body))
       PROVE  Keeps(new, Blocks(ss[j].body)[l])
  <2>1. CASE j \in 1 .. k
    BY <1>9, <1>16, <2>1
  <2>2. CASE j = k + 1
    BY <1>4, <1>10, <1>16, <2>2
  <2> QED BY <1>3, <2>1, <2>2
<1>18. CutInv(doc, ss, k + 1, new)
  BY <1>2, <1>8, <1>14, <1>15, <1>17 DEF CutInv
<1> QED BY <1>4, <1>5, <1>7, <1>18

\* The pieces of the sections keep each of their blocks whole.
LEMMA PiecesKeepBlocks ==
  ASSUME NEW doc, Doc(doc), NEW ss, Sections(doc, ss)
  PROVE  /\ Pieced(doc, Cut(ss)[Len(ss)])
         /\ \A j \in 1 .. Len(ss) : \A l \in 1 .. Len(Blocks(ss[j].body)) :
              Keeps(Cut(ss)[Len(ss)], Blocks(ss[j].body)[l])
<1>1. ss \in Seq(Section)
  BY DEF Sections
<1>2. PICK n \in Nat : n = Len(ss)
  BY <1>1, LenProperties
<1>3. PICK g : g = Cut(ss)
  OBVIOUS
<1>4. /\ g[0] = <<>>
      /\ \A i \in 1 .. n : g[i] = g[i - 1] \o PiecesOf(ss[i])
  BY <1>1, <1>2, <1>3, CutSteps
<1> DEFINE S == {k \in 0 .. n : CutInv(doc, ss, k, g[k])}
<1>5. 0 \in S
  <2>1. CutInv(doc, ss, 0, <<>>)
    BY EmptySeq DEF CutInv, Pieced
  <2> QED BY <1>4, <2>1
<1>6. ASSUME NEW k \in 0 .. n - 1, k \in S PROVE k + 1 \in S
  <2>1. k + 1 \in 1 .. n /\ (k + 1) - 1 = k /\ k \in 0 .. Len(ss) - 1
    BY <1>2
  <2>2. g[k + 1] = g[k] \o PiecesOf(ss[k + 1])
    BY <1>4, <2>1
  <2>3. CutInv(doc, ss, k, g[k])
    BY <1>6
  <2>4. CutInv(doc, ss, k + 1, g[k + 1])
    BY <2>1, <2>2, <2>3, CutStep
  <2> QED BY <2>1, <2>4
<1> HIDE DEF S
<1>7. CutInv(doc, ss, n, g[n])
  <2>1. \A k \in 0 .. n : k \in S
    BY <1>5, <1>6, RangeInduction
  <2>2. n \in S
    BY <2>1
  <2> QED BY <2>2 DEF S
<1> QED BY <1>2, <1>3, <1>7 DEF CutInv

-----------------------------------------------------------------------------
(* Fenced blocks.                                                          *)

\* A fenced block is within the block its first line is in.
LEMMA FencedIsWithin ==
  ASSUME NEW doc, Doc(doc), NEW o \in Nat, NEW e \in 0 .. Len(doc), Closed(doc, e),
         NEW i \in 1 .. Len(doc), o < i, i <= e, Fences(doc)[i] # 0,
         doc[i].kind # "blank"
  PROVE  FencedFrom(doc, i) \subseteq o + 1 .. e
<1>1. doc \in Text /\ Len(doc) \in Nat /\ DOMAIN doc = 1 .. Len(doc)
  BY LenProperties DEF Doc, Text
<1>2. PICK closed : closed = {j \in DOMAIN doc : j >= i /\ Fences(doc)[j] = 0}
  OBVIOUS
<1>3. PICK full : full = {j \in DOMAIN doc : doc[j].kind # "blank"}
  OBVIOUS
<1>4. PICK last : last = IF closed # {} THEN Min(closed) ELSE Max(full)
  OBVIOUS
<1>5. FencedFrom(doc, i) = i .. last
  BY <1>2, <1>3, <1>4 DEF FencedFrom
<1>6. closed \in SUBSET (0 .. Len(doc)) /\ full \in SUBSET (0 .. Len(doc)) /\ i \in full
  BY <1>1, <1>2, <1>3
<1>7. CASE Fences(doc)[e] = 0
  <2>1. e \in closed
    BY <1>1, <1>2, <1>7
  <2>2. last \in 0 .. Len(doc) /\ last <= e
    <3>1. Min(closed) \in closed /\ \A x \in closed : Min(closed) <= x
      BY <1>1, <1>6, <2>1, Extremes
    <3> QED BY <1>4, <1>6, <2>1, <3>1
  <2> QED BY <1>1, <1>5, <2>2
<1>8. CASE Fences(doc)[e] # 0
  <2>1. \A j \in e + 1 .. Len(doc) : doc[j].kind = "blank"
    <3>1. \A j \in 1 .. Len(doc) : j > e => doc[j].kind = "blank"
      BY <1>8 DEF Closed
    <3>2. \A j \in e + 1 .. Len(doc) : j \in 1 .. Len(doc) /\ j > e
      BY <1>1
    <3> QED BY <3>1, <3>2
  <2>2. \A j \in e .. Len(doc) : Fences(doc)[j] # 0
    <3>1. Len(doc) \in e .. Len(doc)
      BY <1>1
    <3>2. \A j \in e + 1 .. Len(doc) : doc[j].kind # "fence"
      BY <2>1
    <3>3. \A j \in e .. Len(doc) : Fences(doc)[j] = Fences(doc)[e]
      BY <1>1, <3>1, <3>2, FenceQuiet
    <3> QED BY <1>8, <3>3
  <2>3. \A x \in closed : x <= e
    <3>1. ASSUME NEW x \in closed PROVE x <= e
      <4>1. x \in 1 .. Len(doc) /\ Fences(doc)[x] = 0
        BY <1>1, <1>2
      <4>2. x \notin e .. Len(doc)
        BY <2>2, <4>1
      <4> QED BY <1>1, <4>1, <4>2
    <3> QED BY <3>1
  <2>4. \A x \in full : x <= e
    <3>1. ASSUME NEW x \in full PROVE x <= e
      <4>1. x \in 1 .. Len(doc) /\ doc[x].kind # "blank"
        BY <1>1, <1>3
      <4>2. x \notin e + 1 .. Len(doc)
        BY <2>1, <4>1
      <4> QED BY <1>1, <4>1, <4>2
    <3> QED BY <3>1
  <2>5. last \in 0 .. Len(doc) /\ last <= e
    <3>1. CASE closed # {}
      <4>1. Min(closed) \in closed
        BY <1>1, <1>6, <3>1, Extremes
      <4> QED BY <1>4, <1>6, <2>3, <3>1, <4>1
    <3>2. CASE closed = {}
      <4>1. Max(full) \in full
        BY <1>1, <1>6, Extremes
      <4> QED BY <1>4, <1>6, <2>4, <3>2, <4>1
    <3> QED BY <3>1, <3>2
  <2> QED BY <1>1, <1>5, <2>5
<1> QED BY <1>7, <1>8

-----------------------------------------------------------------------------
(* Documents.                                                              *)

\* The chunks of any document whatever: its text is in them, in its order, its fenced
\* blocks are whole and the size cap is kept.
THEOREM DocumentsAreExact ==
  ASSUME NEW doc, Doc(doc)
  PROVE  Exact(doc, ChunkMarkdown(doc))
<1>1. doc \in Text /\ Len(doc) \in Nat /\ DOMAIN doc = 1 .. Len(doc)
  BY LenProperties DEF Doc, Text
<1>2. PICK ss : ss = MergeSmall(SplitSections(doc))
  OBVIOUS
<1>3. Sections(doc, ss) /\ \A k \in Content(doc) : Shows(ss, k)
  BY <1>2, SectionsAreExcerpts, MergedAreExcerpts
<1>4. PICK pieces : pieces = ChunkMarkdown(doc)
  OBVIOUS
<1>5. pieces = Cut(ss)[Len(ss)]
  BY <1>2, <1>4 DEF ChunkMarkdown
<1>6. /\ Pieced(doc, pieces)
      /\ \A j \in 1 .. Len(ss) : \A l \in 1 .. Len(Blocks(ss[j].body)) :
           Keeps(pieces, Blocks(ss[j].body)[l])
  BY <1>3, <1>5, PiecesKeepBlocks
<1>7. PICK n \in Nat : n = Len(pieces) /\ DOMAIN pieces = 1 .. n
  <2>1. pieces \in Seq(Piece)
    BY <1>6 DEF Pieced
  <2> QED BY <2>1, LenProperties
<1>8. ASSUME NEW k \in Content(doc)
      PROVE  \E b : k \in Places(b) /\ Whole(doc, b) /\ Keeps(pieces, b)
  <2>1. PICK j \in 1 .. Len(ss) : k \in Places(ss[j].body)
    BY <1>3 DEF Shows
  <2>2. PICK body : body = ss[j].body /\ Excerpt(doc, body)
    BY <1>3 DEF Sections
  <2>3. doc[k].kind # "blank"
    BY ContentIs
  <2>4. Ordered(doc, Blocks(body)) /\ Covers(Blocks(body), k)
    BY <2>1, <2>2, <2>3, BlocksAreWhole
  <2>5. PICK l \in 1 .. Len(Blocks(body)) : k \in Places(Blocks(body)[l])
    BY <2>4 DEF Covers
  <2>6. Whole(doc, Blocks(body)[l])
    BY <2>4 DEF Ordered
  <2>7. Keeps(pieces, Blocks(body)[l])
    BY <1>6, <2>2
  <2> QED BY <2>5, <2>6, <2>7
<1>9. Content(doc) \subseteq UNION {Places(pieces[i].text) : i \in DOMAIN pieces}
  <2>1. ASSUME NEW k \in Content(doc) PROVE \E i \in 1 .. n : k \in Places(pieces[i].text)
    BY <1>7, <1>8 DEF Keeps
  <2> QED BY <1>7, <2>1
<1>10. ASSUME NEW i \in 1 .. n - 1
       PROVE  Min(Places(pieces[i].text)) <= Min(Places(pieces[i + 1].text))
  <2>1. i \in 1 .. n /\ i + 1 \in 1 .. n /\ i < i + 1
    BY <1>7
  <2>2. FirstAt(pieces[i].text) <= FirstAt(pieces[i + 1].text)
    BY <1>6, <1>7, <2>1 DEF Pieced
  <2>3. Excerpt(doc, pieces[i].text) /\ Excerpt(doc, pieces[i + 1].text)
    BY <1>6, <1>7, <2>1 DEF Pieced
  <2> QED BY <2>2, <2>3, FirstPlace
<1>11. ASSUME NEW block \in Fenced(doc)
       PROVE  \E i \in 1 .. n : block \subseteq Places(pieces[i].text)
  <2>1. PICK i \in 1 .. Len(doc) : /\ block = FencedFrom(doc, i)
                                   /\ Outside(doc, i) /\ Fences(doc)[i] # 0
    BY <1>1 DEF Fenced
  <2>2. Fences(doc)[i - 1] = 0 /\ Fences(doc)[i] # 0
    BY <2>1 DEF Outside
  <2>3. Fences(doc)[i] = FenceAfter(Fences(doc)[i - 1], doc[i])
    BY <1>1, FenceSteps
  <2>4. doc[i].kind = "fence"
    BY <2>2, <2>3 DEF FenceAfter
  <2>5. i \in Content(doc)
    BY <1>1, <2>4 DEF Content
  <2>6. PICK b : i \in Places(b) /\ Whole(doc, b) /\ Keeps(pieces, b)
    BY <1>8, <2>5
  <2>7. PICK o \in Nat : CopyOf(doc, b, o) /\ Closed(doc, o + Len(b))
    BY <2>6 DEF Whole
  <2>8. PICK e \in 0 .. Len(doc) : e = o + Len(b)
    <3>1. Len(b) \in Nat /\ o + Len(b) <= Len(doc)
      BY <2>7, CopyIs
    <3> QED BY <1>1, <3>1
  <2>9. /\ i \in o + 1 .. e
        /\ \A p \in o + 1 .. e : p \in Places(b)
    BY <2>6, <2>7, <2>8, CopyIs
  <2>10. o < i /\ i <= e /\ doc[i].kind # "blank" /\ Closed(doc, e)
    BY <2>4, <2>7, <2>8, <2>9
  <2>11. FencedFrom(doc, i) \subseteq o + 1 .. e
    BY <2>2, <2>10, FencedIsWithin
  <2>12. block \subseteq Places(b)
    BY <2>1, <2>9, <2>11
  <2>13. PICK l \in 1 .. n : Places(b) \subseteq Places(pieces[l].text)
    BY <1>7, <2>6 DEF Keeps
  <2> QED BY <2>12, <2>13
<1>12. \A i \in 1 .. n : Bounded(Blocks(pieces[i].text))
  BY <1>6, <1>7 DEF Pieced
<1>13. Exact(doc, pieces)
  BY <1>7, <1>9, <1>10, <1>11, <1>12 DEF Exact
<1> QED BY <1>4, <1>13

\* The documents the runs enumerate are documents.
LEMMA DocumentIs ==
  ASSUME NEW n \in Nat, NEW kinds \in [1 .. n -> LineKind]
  PROVE  Doc(Document(kinds))
<1>1. \A i \in 1 .. n : kinds[i] \in [kind : {"text", "blank", "heading", "fence"},
                                      mark : Nat, chars : Nat]
  BY ChunkingAssumption
<1>2. PICK doc : doc = Document(kinds)
  OBVIOUS
<1>3. doc = [i \in 1 .. n |-> [at |-> i, kind |-> kinds[i].kind, mark |-> kinds[i].mark,
                               chars |-> kinds[i].chars]]
  BY <1>2 DEF Document
<1>4. doc \in [1 .. n -> Line]
  BY <1>1, <1>3 DEF Line
<1>5. doc \in Seq(Line)
  BY <1>4, SeqDef
<1>6. Len(doc) = n
  BY <1>4, <1>5, LenProperties
<1>7. \A i \in 1 .. n : doc[i].at = i
  BY <1>3
<1> QED BY <1>2, <1>5, <1>6, <1>7 DEF Doc, Text

\* Of whatever kinds and however many lines within the bounds, which are arbitrary.
THEOREM AllDocumentsAreExact == AllExact
<1>1. ASSUME NEW n \in 0 .. MaxLines, NEW kinds \in [1 .. n -> LineKind]
      PROVE  Exact(Document(kinds), ChunkMarkdown(Document(kinds)))
  <2>1. n \in Nat
    BY ChunkingAssumption
  <2> QED BY <2>1, DocumentIs, DocumentsAreExact
<1> QED BY <1>1 DEF AllExact
=============================================================================
