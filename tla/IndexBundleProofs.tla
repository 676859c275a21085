-------------------------- MODULE IndexBundleProofs --------------------------
(***************************************************************************)
(* Invariance proofs for the index on disk, for every corpus and its       *)
(* chunks, every set of embedding models and any number of interrupted     *)
(* ingests.                                                                *)
(***************************************************************************)
EXTENDS IndexBundle, ChunkingProofs

-----------------------------------------------------------------------------
(* Texts: what lines are laid out as, and the first pieces of a text.      *)

\* The first places of a text.
LEMMA FirstPlaces ==
  ASSUME NEW S, NEW t \in Seq(S), NEW j \in 0 .. Len(t)
  PROVE  /\ SubSeq(t, 1, j) \in Seq(S) /\ Len(SubSeq(t, 1, j)) = j
         /\ \A i \in 1 .. j : SubSeq(t, 1, j)[i] = t[i]
<1>1. Len(t) \in Nat
  BY LenProperties
<1>2. PICK a \in 1 .. Len(t) + 1 : a = 1 /\ a <= j + 1
  BY <1>1
<1>3. /\ SubSeq(t, a, j) \in Seq(S)
      /\ Len(SubSeq(t, a, j)) = j - a + 1
      /\ \A i \in 1 .. j - a + 1 : SubSeq(t, a, j)[i] = t[a + i - 1]
  BY <1>2, Stretch
<1>4. j - a + 1 = j /\ \A i \in 1 .. j : a + i - 1 = i
  BY <1>1, <1>2
<1> QED BY <1>2, <1>3, <1>4

\* The one text begins the other.
LEMMA PrefixMeans ==
  ASSUME NEW S, NEW s \in Seq(S), NEW t \in Seq(S)
  PROVE  IsPrefix(s, t) <=> Len(s) <= Len(t) /\ \A i \in 1 .. Len(s) : s[i] = t[i]
<1>1. Len(s) \in Nat /\ Len(t) \in Nat
  BY LenProperties
<1>2. ASSUME Len(s) <= Len(t)
      PROVE  SubSeq(s, 1, Len(s)) = SubSeq(t, 1, Len(s)) <=> \A i \in 1 .. Len(s) : s[i] = t[i]
  <2>1. PICK j \in 0 .. Len(s) : j = Len(s) /\ j \in 0 .. Len(t)
    BY <1>1, <1>2
  <2>2. /\ SubSeq(s, 1, j) \in Seq(S) /\ Len(SubSeq(s, 1, j)) = j
        /\ \A i \in 1 .. j : SubSeq(s, 1, j)[i] = s[i]
    BY FirstPlaces
  <2>3. /\ SubSeq(t, 1, j) \in Seq(S) /\ Len(SubSeq(t, 1, j)) = j
        /\ \A i \in 1 .. j : SubSeq(t, 1, j)[i] = t[i]
    BY <2>1, FirstPlaces
  <2>4. ASSUME \A i \in 1 .. j : s[i] = t[i]
        PROVE  SubSeq(s, 1, j) = SubSeq(t, 1, j)
    BY <2>2, <2>3, <2>4, SeqEqual
  <2>5. ASSUME SubSeq(s, 1, j) = SubSeq(t, 1, j), NEW i \in 1 .. j
        PROVE  s[i] = t[i]
    BY <2>2, <2>3, <2>5
  <2> QED BY <2>1, <2>4, <2>5
<1> QED BY <1>2 DEF IsPrefix

LEMMA PrefixTransitive ==
  ASSUME NEW S, NEW s \in Seq(S), NEW t \in Seq(S), NEW u \in Seq(S),
         IsPrefix(s, t), IsPrefix(t, u)
  PROVE  IsPrefix(s, u)
<1>1. Len(s) <= Len(t) /\ \A i \in 1 .. Len(s) : s[i] = t[i]
  BY PrefixMeans
<1>2. Len(t) <= Len(u) /\ \A i \in 1 .. Len(t) : t[i] = u[i]
  BY PrefixMeans
<1>3. Len(s) \in Nat /\ Len(t) \in Nat /\ Len(u) \in Nat
  BY LenProperties
<1>4. Len(s) <= Len(u) /\ \A i \in 1 .. Len(s) : s[i] = u[i]
  BY <1>1, <1>2, <1>3
<1> QED BY <1>4, PrefixMeans

\* Nothing begins every text, and a text begins itself.
LEMMA TrivialPrefixes ==
  ASSUME NEW S, NEW t \in Seq(S)
  PROVE  <<>> \in Seq(S) /\ IsPrefix(<<>>, t) /\ IsPrefix(t, t)
<1>1. PICK nil \in Seq(S) : nil = <<>> /\ Len(nil) = 0
  BY EmptySeq
<1>2. Len(t) \in Nat
  BY LenProperties
<1>3. IsPrefix(nil, t) <=> Len(nil) <= Len(t) /\ \A i \in 1 .. Len(nil) : nil[i] = t[i]
  BY PrefixMeans
<1>4. IsPrefix(t, t) <=> Len(t) <= Len(t) /\ \A i \in 1 .. Len(t) : t[i] = t[i]
  BY PrefixMeans
<1> QED BY <1>1, <1>2, <1>3, <1>4

LEMMA NothingBegins == IsPrefix(<<>>, <<>>)
<1>1. <<>> \in Seq(Nat)
  BY EmptySeq
<1> QED BY <1>1, TrivialPrefixes

\* The first places of a text begin it.
LEMMA FirstsBegin ==
  ASSUME NEW S, NEW t \in Seq(S), NEW j \in 0 .. Len(t)
  PROVE  IsPrefix(SubSeq(t, 1, j), t)
<1>1. PICK u \in Seq(S) : u = SubSeq(t, 1, j) /\ Len(u) = j /\ \A i \in 1 .. j : u[i] = t[i]
  BY FirstPlaces
<1>2. Len(u) <= Len(t)
  BY <1>1, LenProperties
<1> QED BY <1>1, <1>2, PrefixMeans

\* The lines of a first part are lines of the whole, and stay in one piece.
LEMMA PartOfText ==
  ASSUME NEW S, NEW s \in TextOf(S), NEW t \in TextOf(S), IsPrefix(s, t)
  PROVE  /\ LinesOf(s) \subseteq LinesOf(t)
         /\ Intact(t) => Intact(s)
<1>1. PICK m \in Nat : m = Len(s) /\ DOMAIN s = 1 .. m
  BY LenProperties DEF TextOf
<1>2. PICK n \in Nat : n = Len(t) /\ DOMAIN t = 1 .. n
  BY LenProperties DEF TextOf
<1>3. m <= n /\ \A i \in 1 .. m : s[i] = t[i]
  BY <1>1, <1>2, PrefixMeans DEF TextOf
<1>4. LinesOf(s) \subseteq LinesOf(t)
  BY <1>1, <1>2, <1>3 DEF LinesOf, Firsts
<1>5. ASSUME Intact(t) PROVE Intact(s)
  BY <1>1, <1>2, <1>3, <1>5 DEF Intact
<1> QED BY <1>4, <1>5

\* A text in which every line is whole and begins once: what n lines with these elements
\* are laid out as.
Laid(text, S, pieces, lines, n) ==
  /\ text \in TextOf(S)
  /\ Parses(text, pieces) /\ Intact(text)
  /\ LinesOf(text) = lines
  /\ IsFiniteSet(Firsts(text)) /\ Cardinality(Firsts(text)) = n

\* The pieces of one more line.
LineAt(pieces, x) == [k \in 1 .. pieces[x] |-> <<x, k>>]

LEMMA LineAtIs ==
  ASSUME NEW S, NEW pieces \in [S -> Nat \ {0}], NEW x \in S
  PROVE  /\ LineAt(pieces, x) \in TextOf(S) /\ Len(LineAt(pieces, x)) = pieces[x]
         /\ \A k \in 1 .. pieces[x] : LineAt(pieces, x)[k] = <<x, k>>
<1>1. PICK p \in Nat \ {0} : p = pieces[x]
  OBVIOUS
<1>2. PICK line : line = [k \in 1 .. p |-> <<x, k>>]
  OBVIOUS
<1>3. line \in [1 .. p -> S \X (Nat \ {0})]
  BY <1>2
<1>4. line \in Seq(S \X (Nat \ {0}))
  BY <1>1, <1>3, SeqDef
<1>5. Len(line) = p
  BY <1>1, <1>3, <1>4, LenProperties
<1> QED BY <1>1, <1>2, <1>4, <1>5 DEF LineAt, TextOf

\* One more line behind a text.
LEMMA LaidStep ==
  ASSUME NEW S, NEW pieces \in [S -> Nat \ {0}], NEW text, NEW lines, NEW n \in Nat,
         Laid(text, S, pieces, lines, n), NEW x \in S
  PROVE  Laid(text \o LineAt(pieces, x), S, pieces, lines \cup {x}, n + 1)
<1>1. PICK m \in Nat : m = Len(text) /\ DOMAIN text = 1 .. m
  BY LenProperties DEF Laid, TextOf
<1>2. PICK p \in Nat \ {0} : p = pieces[x]
  OBVIOUS
<1>3. PICK line \in TextOf(S) : /\ line = LineAt(pieces, x) /\ Len(line) = p
                                /\ \A k \in 1 .. p : line[k] = <<x, k>>
  BY <1>2, LineAtIs
<1>4. PICK u : u = text \o line
  OBVIOUS
<1>5. /\ u \in TextOf(S) /\ Len(u) = m + p
      /\ \A i \in 1 .. m + p : u[i] = IF i <= m THEN text[i] ELSE line[i - m]
  <2>1. PICK T : T = S \X (Nat \ {0})
    OBVIOUS
  <2>2. text \in Seq(T) /\ line \in Seq(T)
    BY <2>1 DEF Laid, TextOf
  <2>3. /\ text \o line \in Seq(T)
        /\ Len(text \o line) = Len(text) + Len(line)
        /\ \A i \in 1 .. Len(text) + Len(line) :
             (text \o line)[i] = IF i <= Len(text) THEN text[i] ELSE line[i - Len(text)]
    BY <2>2, ConcatProperties
  <2>4. u \in TextOf(S)
    BY <1>4, <2>1, <2>3 DEF TextOf
  <2> QED BY <1>1, <1>3, <1>4, <2>3, <2>4
<1>6. DOMAIN u = 1 .. m + p
  BY <1>5, LenProperties DEF TextOf
<1>7. \A i \in 1 .. m : i \in 1 .. m + p /\ u[i] = text[i]
  BY <1>2, <1>5
<1>8. ASSUME NEW i \in m + 1 .. m + p PROVE u[i] = <<x, i - m>>
  <2>1. i - m \in 1 .. p /\ i \in 1 .. m + p /\ ~(i <= m)
    BY <1>2
  <2> QED BY <1>3, <1>5, <2>1
<1>9. Parses(u, pieces)
  <2>1. ASSUME NEW i \in 1 .. m
        PROVE  u[i][2] = 1 <=> i = 1 \/ u[i - 1][2] = pieces[u[i - 1][1]]
    <3>1. text[i][2] = 1 <=> i = 1 \/ text[i - 1][2] = pieces[text[i - 1][1]]
      BY <1>1 DEF Laid, Parses
    <3>2. i = 1 \/ i - 1 \in 1 .. m
      OBVIOUS
    <3> QED BY <1>7, <3>1, <3>2
  <2>2. u[m + 1][2] = 1 /\ (m + 1 = 1 \/ u[m + 1 - 1][2] = pieces[u[m + 1 - 1][1]])
    <3>1. m + 1 \in m + 1 .. m + p /\ m + 1 - m = 1
      BY <1>2
    <3>2. u[m + 1] = <<x, m + 1 - m>>
      BY <1>8, <3>1
    <3>3. CASE m # 0
      <4>1. text # <<>> /\ m \in 1 .. m /\ m + 1 - 1 = m
        BY <1>1, <3>3
      <4>2. text[m][2] = pieces[text[m][1]]
        BY <1>1, <4>1 DEF Laid, Parses
      <4> QED BY <1>7, <3>1, <3>2, <4>1, <4>2
    <3> QED BY <3>1, <3>2, <3>3
  <2>3. ASSUME NEW i \in m + 2 .. m + p
        PROVE  u[i][2] # 1 /\ i # 1 /\ u[i - 1][2] # pieces[u[i - 1][1]]
    <3>1. /\ i \in m + 1 .. m + p /\ i - 1 \in m + 1 .. m + p /\ i - 1 \in Int
          /\ i - m # 1 /\ i # 1 /\ i - 1 - m # p
      BY <1>2
    <3>2. u[i] = <<x, i - m>>
      BY <1>8, <3>1
    <3>3. u[i - 1] = <<x, i - 1 - m>>
      BY <1>8, <3>1
    <3> QED BY <1>2, <3>1, <3>2, <3>3
  <2>4. \A i \in 1 .. m + p : i \in 1 .. m \/ i = m + 1 \/ i \in m + 2 .. m + p
    OBVIOUS
  <2>5. u[m + p] = <<x, p>>
    <3>1. m + p \in m + 1 .. m + p /\ m + p - m = p
      BY <1>2
    <3> QED BY <1>8, <3>1
  <2>6. \A i \in 1 .. m + p : u[i][2] = 1 <=> i = 1 \/ u[i - 1][2] = pieces[u[i - 1][1]]
    BY <2>1, <2>2, <2>3, <2>4
  <2> QED BY <1>2, <1>5, <1>6, <2>5, <2>6 DEF Parses
<1>10. Intact(u)
  <2>1. ASSUME NEW i \in 1 .. m, u[i][2] # 1
        PROVE  i > 1 /\ u[i - 1] = <<u[i][1], u[i][2] - 1>>
    <3>1. i > 1 /\ text[i - 1] = <<text[i][1], text[i][2] - 1>>
      BY <1>1, <1>7, <2>1 DEF Laid, Intact
    <3>2. i - 1 \in 1 .. m
      BY <3>1
    <3> QED BY <1>7, <3>1, <3>2
  <2>2. ASSUME NEW i \in m + 1 .. m + p, u[i][2] # 1
        PROVE  i > 1 /\ u[i - 1] = <<u[i][1], u[i][2] - 1>>
    <3>1. u[i] = <<x, i - m>>
      BY <1>8
    <3>2. i - m # 1
      BY <2>2, <3>1
    <3>3. i - 1 \in m + 1 .. m + p /\ i > 1 /\ i - 1 - m = i - m - 1
      BY <3>2
    <3>4. u[i - 1] = <<x, i - 1 - m>>
      BY <1>8, <3>3
    <3> QED BY <3>1, <3>3, <3>4
  <2>3. \A i \in 1 .. m + p : i \in 1 .. m \/ i \in m + 1 .. m + p
    OBVIOUS
  <2> QED BY <1>6, <2>1, <2>2, <2>3 DEF Intact
<1>11. Firsts(u) = Firsts(text) \cup {m + 1}
  <2>1. ASSUME NEW i \in m + 1 .. m + p PROVE u[i][2] = 1 <=> i = m + 1
    <3>1. u[i] = <<x, i - m>> /\ (i - m = 1 <=> i = m + 1)
      BY <1>8
    <3> QED BY <3>1
  <2>2. \A i \in 1 .. m : u[i][2] = 1 <=> text[i][2] = 1
    BY <1>7
  <2>3. \A i \in 1 .. m + p : i \in 1 .. m \/ i \in m + 1 .. m + p
    OBVIOUS
  <2>4. \A i : i \in Firsts(u) <=> i \in 1 .. m + p /\ u[i][2] = 1
    BY <1>6 DEF Firsts
  <2>5. \A i : i \in Firsts(text) <=> i \in 1 .. m /\ text[i][2] = 1
    BY <1>1 DEF Firsts
  <2>6. m + 1 \in m + 1 .. m + p /\ m + 1 \in 1 .. m + p
    BY <1>2
  <2>7. \A i \in Firsts(u) : i \in Firsts(text) \cup {m + 1}
    BY <2>1, <2>2, <2>3, <2>4, <2>5
  <2>8. \A i \in Firsts(text) \cup {m + 1} : i \in Firsts(u)
    BY <1>7, <2>1, <2>2, <2>4, <2>5, <2>6
  <2> QED BY <2>7, <2>8
<1>12. LinesOf(u) = lines \cup {x}
  <2>1. u[m + 1][1] = x
    <3>1. m + 1 \in m + 1 .. m + p
      BY <1>2
    <3>2. u[m + 1] = <<x, m + 1 - m>>
      BY <1>8, <3>1
    <3> QED BY <3>2
  <2>2. \A i \in Firsts(text) : u[i] = text[i]
    BY <1>1, <1>7 DEF Firsts
  <2>3. lines = {text[i][1] : i \in Firsts(text)}
    BY DEF Laid, LinesOf
  <2> QED BY <1>11, <2>1, <2>2, <2>3 DEF LinesOf
<1>13. IsFiniteSet(Firsts(u)) /\ Cardinality(Firsts(u)) = n + 1
  <2>1. IsFiniteSet(Firsts(text)) /\ Cardinality(Firsts(text)) = n
    BY DEF Laid
  <2>2. m + 1 \notin Firsts(text)
    BY <1>1 DEF Firsts
  <2> QED BY <1>11, <2>1, <2>2, FS_AddElement
<1> QED BY <1>3, <1>4, <1>5, <1>9, <1>10, <1>12, <1>13 DEF Laid

\* A text and one more line.
Lengthened(text, pieces, x) == text \o LineAt(pieces, x)

\* The texts that a loop over the lines goes through.
Lengthening(g, S, pieces, lines) ==
  /\ g \in [0 .. Len(lines) -> TextOf(S)]
  /\ g[0] = <<>>
  /\ \A i \in 1 .. Len(lines) : g[i] = g[i - 1] \o LineAt(pieces, lines[i])

\* Contents is the last of such texts.
LEMMA ContentsSteps ==
  ASSUME NEW S, NEW pieces \in [S -> Nat \ {0}], NEW lines \in Seq(S)
  PROVE  \E g : /\ Lengthening(g, S, pieces, lines)
                /\ Contents(lines, pieces) = g[Len(lines)]
<1>0. PICK n \in Nat : n = Len(lines)
  BY LenProperties
<1>1. \A i \in 1 .. n, a \in TextOf(S) : Lengthened(a, pieces, lines[i]) \in TextOf(S)
  <2>1. \A i \in 1 .. n : lines[i] \in S
    BY <1>0, ElementOfSeq
  <2>2. \A i \in 1 .. n : LineAt(pieces, lines[i]) \in TextOf(S)
    BY <2>1, LineAtIs
  <2> QED BY <2>2, ConcatProperties DEF Lengthened, TextOf
<1>2. PICK step : step = [i \in 1 .. n |-> [a \in TextOf(S) |-> Lengthened(a, pieces, lines[i])]]
  OBVIOUS
<1>3. Loop(n, TextOf(S), <<>>, step)
  <2>1. <<>> \in TextOf(S)
    BY EmptySeq DEF TextOf
  <2> QED BY <1>1, <1>2, <2>1 DEF Loop
<1>4. PICK g : Rounds(n, TextOf(S), <<>>, step, g)
  BY <1>3, Recursion
<1>5. g = [i \in 0 .. n |-> IF i = 0 THEN <<>> ELSE Lengthened(g[i - 1], pieces, lines[i])]
  <2>1. \A i \in 1 .. n : i \in 0 .. n /\ i - 1 \in 0 .. n
    OBVIOUS
  <2>2. \A i \in 1 .. n : g[i] = Lengthened(g[i - 1], pieces, lines[i])
    BY <1>2, <1>4, <2>1 DEF Rounds
  <2> QED BY <1>4, <2>2 DEF Rounds
<1>6. PICK f : /\ f = [i \in 0 .. n |-> IF i = 0 THEN <<>>
                                       ELSE Lengthened(f[i - 1], pieces, lines[i])]
               /\ Contents(lines, pieces) = f[n]
  BY <1>0, <1>5 DEF Contents, Lengthened, LineAt
<1>7. f[0] = <<>> /\ \A i \in 1 .. n : f[i] = Lengthened(f[i - 1], pieces, lines[i])
  BY <1>6
<1>8. f \in [0 .. n -> TextOf(S)]
  <2>1. \A k \in 1 .. n : f[k - 1] \in TextOf(S) => f[k] \in TextOf(S)
    BY <1>1, <1>7
  <2>2. f[0] \in TextOf(S)
    BY <1>3, <1>7 DEF Loop
  <2>3. DOMAIN f = 0 .. n /\ f = [i \in DOMAIN f |-> f[i]]
    BY <1>6
  <2> QED BY <2>1, <2>2, <2>3, RoundsTyped
<1>9. Lengthening(f, S, pieces, lines)
  BY <1>0, <1>7, <1>8 DEF Lengthening, Lengthened
<1> QED BY <1>0, <1>6, <1>9

\* The lines that came before a place.
Before(lines, k) == {lines[i] : i \in 1 .. k}

\* The text of some lines has them all, whole and each as often as it occurs.
LEMMA ContentsAreLaid ==
  ASSUME NEW S, NEW pieces \in [S -> Nat \ {0}], NEW lines \in Seq(S)
  PROVE  Laid(Contents(lines, pieces), S, pieces, ToSet(lines), Len(lines))
<1>1. PICK n \in Nat : n = Len(lines) /\ DOMAIN lines = 1 .. n
  BY LenProperties
<1>2. PICK g : /\ Lengthening(g, S, pieces, lines)
               /\ Contents(lines, pieces) = g[Len(lines)]
  BY ContentsSteps
<1>3. /\ g[0] = <<>> /\ \A i \in 1 .. n : g[i] = g[i - 1] \o LineAt(pieces, lines[i])
      /\ Contents(lines, pieces) = g[n]
  BY <1>1, <1>2 DEF Lengthening
<1> DEFINE R == {k \in 0 .. n : Laid(g[k], S, pieces, Before(lines, k), k)}
<1>4. 0 \in R
  <2>1. <<>> \in TextOf(S) /\ DOMAIN <<>> = {}
    BY EmptySeq DEF TextOf
  <2>2. Firsts(<<>>) = {} /\ LinesOf(<<>>) = {} /\ Before(lines, 0) = {}
    BY <2>1 DEF Firsts, LinesOf, Before
  <2>3. Parses(<<>>, pieces) /\ Intact(<<>>)
    BY <2>1 DEF Parses, Intact
  <2>4. Laid(<<>>, S, pieces, Before(lines, 0), 0)
    BY <2>1, <2>2, <2>3, FS_EmptySet DEF Laid
  <2> QED BY <1>3, <2>4
<1>5. ASSUME NEW k \in 0 .. n - 1, k \in R PROVE k + 1 \in R
  <2>1. k + 1 \in 1 .. n /\ (k + 1) - 1 = k /\ k \in Nat /\ k + 1 \in 0 .. n
    BY <1>1
  <2>2. lines[k + 1] \in S
    BY <1>1, <2>1, ElementOfSeq
  <2>3. g[k + 1] = g[k] \o LineAt(pieces, lines[k + 1])
    BY <1>3, <2>1
  <2>4. Laid(g[k], S, pieces, Before(lines, k), k)
    BY <1>5
  <2>5. Laid(g[k + 1], S, pieces, Before(lines, k) \cup {lines[k + 1]}, k + 1)
    <3>1. PICK text : text = g[k]
      OBVIOUS
    <3>2. PICK x \in S : x = lines[k + 1]
      BY <2>2
    <3>3. PICK have : have = Before(lines, k)
      OBVIOUS
    <3>4. Laid(text, S, pieces, have, k)
      BY <2>4, <3>1, <3>3
    <3>5. Laid(text \o LineAt(pieces, x), S, pieces, have \cup {x}, k + 1)
      BY <2>1, <3>4, LaidStep
    <3> QED BY <2>3, <3>1, <3>2, <3>3, <3>5
  <2>6. Before(lines, k + 1) = Before(lines, k) \cup {lines[k + 1]}
    BY <2>1 DEF Before
  <2> QED BY <2>1, <2>5, <2>6
<1> HIDE DEF R
<1>6. n \in R
  <2>1. \A k \in 0 .. n : k \in R
    BY <1>4, <1>5, RangeInduction
  <2> QED BY <2>1
<1>7. Before(lines, n) = ToSet(lines)
  BY <1>1 DEF Before, ToSet
<1> QED BY <1>1, <1>3, <1>6, <1>7 DEF R

\* A flush adds to what the file holds of what it is to hold.
LEMMA FlushedContinues ==
  ASSUME NEW S, NEW text \in TextOf(S), NEW file \in FileOf(S),
         NEW f \in Flushed(file, text), IsPrefix(file.text, text)
  PROVE  /\ f \in FileOf(S) /\ f.there
         /\ IsPrefix(f.text, text) /\ IsPrefix(file.text, f.text)
<1>1. PICK T : T = S \X (Nat \ {0})
  OBVIOUS
<1>2. PICK s \in Seq(T) : s = file.text
  BY <1>1 DEF FileOf, TextOf
<1>3. text \in Seq(T) /\ Len(text) \in Nat /\ Len(s) \in Nat
  BY <1>1, <1>2, LenProperties DEF TextOf
<1>4. PICK j \in Len(s) + 1 .. Len(text) : f = [there |-> TRUE, text |-> SubSeq(text, 1, j)]
  BY <1>2 DEF Flushed
<1>5. j \in 0 .. Len(text)
  BY <1>3, <1>4
<1>6. PICK u \in Seq(T) : u = SubSeq(text, 1, j) /\ Len(u) = j /\ \A i \in 1 .. j : u[i] = text[i]
  BY <1>3, <1>5, FirstPlaces
<1>7. IsPrefix(u, text)
  BY <1>3, <1>5, <1>6, FirstsBegin
<1>8. IsPrefix(s, u)
  <2>1. Len(s) <= Len(text) /\ \A i \in 1 .. Len(s) : s[i] = text[i]
    BY <1>2, <1>3, PrefixMeans
  <2>2. Len(s) <= Len(u) /\ \A i \in 1 .. Len(s) : s[i] = u[i]
    BY <1>3, <1>4, <1>6, <2>1
  <2> QED BY <2>2, PrefixMeans
<1>9. f \in FileOf(S) /\ f.there /\ f.text = u
  BY <1>1, <1>4, <1>6 DEF FileOf, TextOf
<1> QED BY <1>2, <1>7, <1>8, <1>9

\* A read adds to what was read of a file the next of what it holds.
LEMMA MoreIsRead ==
  ASSUME NEW S, NEW s \in TextOf(S), NEW file \in FileOf(S), NEW t \in More(s, file)
  PROVE  /\ t \in TextOf(S)
         /\ IsPrefix(s, file.text) => IsPrefix(t, file.text)
<1>1. PICK T : T = S \X (Nat \ {0})
  OBVIOUS
<1>2. PICK text \in Seq(T) : text = file.text
  BY <1>1 DEF FileOf, TextOf
<1>3. s \in Seq(T) /\ Len(text) \in Nat
  BY <1>1, <1>2, LenProperties DEF TextOf
<1>4. PICK lo \in Nat : lo = Len(s)
  BY <1>3, LenProperties
<1>5. PICK hi \in lo + 1 .. Len(text) : t = s \o SubSeq(text, lo + 1, hi)
  BY <1>2, <1>4 DEF More
<1>6. lo \in 0 .. Len(text) /\ hi \in lo .. Len(text) /\ hi - lo \in Nat
  BY <1>3, <1>5
<1>7. PICK u \in Seq(T) : /\ u = SubSeq(text, lo + 1, hi) /\ Len(u) = hi - lo
                         /\ \A i \in 1 .. hi - lo : u[i] = text[lo + i]
  <2>1. /\ SubSeq(text, lo + 1, hi) \in Seq(T)
        /\ Len(SubSeq(text, lo + 1, hi)) = hi - lo
        /\ \A i \in 1 .. hi - lo : SubSeq(text, lo + 1, hi)[i] = text[lo + i]
    BY <1>6, StretchAfter
  <2> QED BY <2>1
<1>8. /\ t \in Seq(T) /\ Len(t) = lo + (hi - lo)
      /\ \A i \in 1 .. lo + (hi - lo) : t[i] = IF i <= lo THEN s[i] ELSE u[i - lo]
  BY <1>3, <1>4, <1>5, <1>7, ConcatProperties
<1>9. ASSUME IsPrefix(s, text) PROVE IsPrefix(t, text)
  <2>1. \A i \in 1 .. lo : s[i] = text[i]
    BY <1>3, <1>4, <1>9, PrefixMeans
  <2>2. ASSUME NEW i \in 1 .. hi PROVE t[i] = text[i]
    <3>1. i \in 1 .. lo + (hi - lo)
      BY <1>5
    <3>2. CASE i <= lo
      BY <1>8, <2>1, <3>1, <3>2
    <3>3. CASE ~(i <= lo)
      <4>1. i - lo \in 1 .. hi - lo /\ lo + (i - lo) = i
        BY <1>5, <3>3
      <4> QED BY <1>7, <1>8, <3>1, <3>3, <4>1
    <3> QED BY <3>2, <3>3
  <2>3. Len(t) = hi /\ hi <= Len(text)
    BY <1>3, <1>5, <1>8
  <2> QED BY <1>8, <2>2, <2>3, PrefixMeans
<1> QED BY <1>1, <1>2, <1>8, <1>9 DEF TextOf

-----------------------------------------------------------------------------
(* What an ingest writes.                                                  *)

\* Every row is by the model m.
ByModel(rows, m) == \A r \in rows : r[2] = m

\* build_index makes one row for each chunk of its corpus; if the rows it reuses are
\* by its own model, so are all.
LEMMA VectorsAreWhole ==
  ASSUME NEW b \in Build, NEW rows \in SUBSET VectorRow
  PROVE  /\ Vectors(b, rows) \in Seq(VectorRow)
         /\ Len(Vectors(b, rows)) = Len(ChunksOf[b.corpus])
         /\ ToSet(ChunksOf[b.corpus]) \subseteq ChunksIn(ToSet(Vectors(b, rows)))
         /\ ByModel(rows, b.model) => ByModel(ToSet(Vectors(b, rows)), b.model)
<1>1. PICK chunks : chunks = ChunksOf[b.corpus]
  OBVIOUS
<1>2. chunks \in Seq(Chunk) /\ b.model \in Model
  BY <1>1, IndexBundleAssumption DEF Build
<1>3. DOMAIN chunks = 1 .. Len(chunks) /\ Len(chunks) \in Nat
  BY <1>2, LenProperties
<1>4. IsFiniteSet(DOMAIN chunks) /\ Cardinality(DOMAIN chunks) = Len(chunks)
  <2>1. IsFiniteSet(1 .. Len(chunks))
    BY <1>3, FS_Interval
  <2>2. Cardinality(1 .. Len(chunks)) = Len(chunks)
    <3>1. PICK n \in Nat : n = Len(chunks)
      BY <1>3
    <3>2. Cardinality(1 .. n) = IF 1 > n THEN 0 ELSE n - 1 + 1
      BY FS_Interval
    <3> QED BY <3>1, <3>2
  <2> QED BY <1>3, <2>1, <2>2
<1>5. StrictOrder(DOMAIN chunks, KeptFirst(chunks, rows))
  <2>1. \A i, j \in DOMAIN chunks : <<i, j>> \in KeptFirst(chunks, rows) <=>
          \/ chunks[i] \in ChunksIn(rows) /\ chunks[j] \notin ChunksIn(rows)
          \/ /\ chunks[i] \in ChunksIn(rows) <=> chunks[j] \in ChunksIn(rows)
             /\ i < j
    BY DEF KeptFirst
  <2> QED BY <1>3, <2>1 DEF StrictOrder
<1>6. PICK order : order = Sorted(DOMAIN chunks, KeptFirst(chunks, rows))
  OBVIOUS
<1>7. /\ order \in Seq(DOMAIN chunks)
      /\ Len(order) = Len(chunks)
      /\ Elems(order) = DOMAIN chunks
  BY <1>4, <1>5, <1>6, SortedIsPermutation
<1>8. DOMAIN order = 1 .. Len(chunks) /\ \A i \in DOMAIN order : order[i] \in DOMAIN chunks
  BY <1>7, LenProperties, ElementOfSeq
<1>9. \A i \in DOMAIN order : chunks[order[i]] \in Chunk
  BY <1>2, <1>8, ElementOfSeq
<1>10. ASSUME NEW c \in Chunk
       PROVE  /\ VectorOf(b, rows, c) \in VectorRow
              /\ VectorOf(b, rows, c)[1] = c
              /\ ByModel(rows, b.model) => VectorOf(b, rows, c)[2] = b.model
  <2>1. CASE c \in ChunksIn(rows)
    <3>1. Row(rows, c) \in rows /\ Row(rows, c)[1] = c
      BY <2>1 DEF Row, ChunksIn
    <3> QED BY <2>1, <3>1 DEF VectorOf, ByModel
  <2>2. CASE c \notin ChunksIn(rows)
    BY <1>2, <2>2 DEF VectorOf, VectorRow
  <2> QED BY <2>1, <2>2
<1>11. PICK made : made = Vectors(b, rows)
  OBVIOUS
<1>12. made = [i \in DOMAIN order |-> VectorOf(b, rows, chunks[order[i]])]
  BY <1>1, <1>6, <1>11 DEF Vectors
<1>13. DOMAIN made = 1 .. Len(chunks)
       /\ \A i \in DOMAIN order : made[i] = VectorOf(b, rows, chunks[order[i]])
  BY <1>8, <1>12
<1>14. made \in [1 .. Len(chunks) -> VectorRow]
  BY <1>8, <1>9, <1>10, <1>12
<1>15. made \in Seq(VectorRow) /\ Len(made) = Len(chunks)
  BY <1>3, <1>14
<1>16. ASSUME NEW c \in ToSet(chunks)
       PROVE  c \in ChunksIn(ToSet(made))
  <2>1. PICK i \in DOMAIN chunks : chunks[i] = c
    BY DEF ToSet
  <2>2. PICK k \in DOMAIN order : order[k] = i
    BY <1>7 DEF Elems
  <2>3. made[k][1] = c
    BY <1>9, <1>10, <1>13, <2>1, <2>2
  <2>4. made[k] \in ToSet(made)
    BY <1>8, <1>13 DEF ToSet
  <2> QED BY <2>3, <2>4 DEF ChunksIn
<1>17. ASSUME ByModel(rows, b.model)
       PROVE  ByModel(ToSet(made), b.model)
  BY <1>8, <1>9, <1>10, <1>13, <1>17 DEF ByModel, ToSet
<1> QED BY <1>1, <1>11, <1>15, <1>16, <1>17

\* The text of chunks.jsonl, for one state of the corpus.
LEMMA ChunkTextIs ==
  ASSUME NEW c \in Corpus
  PROVE  /\ ChunkText(c) \in TextOf(Chunk) /\ Parses(ChunkText(c), ChunkPieces)
         /\ LinesOf(ChunkText(c)) = ToSet(ChunksOf[c])
<1>1. ChunksOf[c] \in Seq(Chunk)
  BY IndexBundleAssumption
<1>2. Laid(ChunkText(c), Chunk, ChunkPieces, ToSet(ChunksOf[c]), Len(ChunksOf[c]))
  BY <1>1, IndexBundleAssumption, ContentsAreLaid DEF ChunkText
<1> QED BY <1>2 DEF Laid

\* The text of vectors.jsonl.
LEMMA RowTextIs ==
  ASSUME plan \in Seq(VectorRow)
  PROVE  /\ RowText \in TextOf(VectorRow) /\ Parses(RowText, RowPieces) /\ Intact(RowText)
         /\ LinesOf(RowText) = ToSet(plan)
         /\ Cardinality(Firsts(RowText)) = Len(plan)
<1>1. Laid(RowText, VectorRow, RowPieces, ToSet(plan), Len(plan))
  BY IndexBundleAssumption, ContentsAreLaid DEF RowText
<1> QED BY <1>1 DEF Laid

-----------------------------------------------------------------------------
(* The inductive invariant.                                                *)

\* A text begins what is written for some state of the corpus.
Begins(text) == \E c \in Corpus : IsPrefix(text, ChunkText(c))

OnDisk ==
  /\ chunkFile.there => Begins(chunkFile.text)
  /\ Intact(vectorFile.text)

\* A process has read the first of a file that no ingest emptied under it.
BeingRead ==
  /\ reader = "idle" => seen.chunks = <<>>
  /\ reader \in {"idle", "chunks"} => seen.vectors = <<>>
  /\ reader = "chunks" =>
       /\ chunkFile.there
       /\ "chunks" \notin replaced => IsPrefix(seen.chunks, chunkFile.text)
  /\ reader = "vectors" /\ "vectors" \notin replaced =>
       IsPrefix(seen.vectors, vectorFile.text)

\* So what it takes away from it is as good as the file was.
HasRead ==
  /\ reader \in {"vectors", "meta", "loaded"} /\ "chunks" \notin replaced =>
       Begins(seen.chunks)
  /\ reader \in {"meta", "loaded"} /\ "vectors" \notin replaced => Intact(seen.vectors)

\* A process serves what it read only if it could be read.
Judged == reader = "loaded" => ~Unreadable(seen.chunks, seen.vectors, seen.meta)

\* An ingest under way has one row for each chunk of its corpus.
Planned ==
  pc # "idle" =>
    /\ build \in Build
    /\ Len(plan) = Len(ChunksOf[build.corpus])
    /\ ToSet(ChunksOf[build.corpus]) \subseteq ChunksIn(ToSet(plan))

\* What it has written so far.
Written ==
  /\ pc = "chunks" => chunkFile.there /\ IsPrefix(chunkFile.text, ChunkText(build.corpus))
  /\ pc \in {"open_vectors", "vectors", "open_meta", "meta"} =>
       chunkFile.there /\ chunkFile.text = ChunkText(build.corpus)
  /\ pc = "vectors" => vectorFile.there /\ IsPrefix(vectorFile.text, RowText)
  /\ pc \in {"open_meta", "meta"} => vectorFile.there /\ vectorFile.text = RowText

\* The files are those of the last ingest to end until the next one opens the first.
Ended == last # None => pc \in {"idle", "open_chunks"} /\ EndedIngestIsWhole

\* The rows on disk are by the model of meta until an ingest opens their file, and
\* afterwards by the model of that ingest.
Embedded ==
  crashes = 0 =>
    /\ pc # "idle" => ByModel(ToSet(plan), build.model)
    /\ pc \in {"vectors", "open_meta", "meta"} =>
         ByModel(LinesOf(vectorFile.text), build.model)
    /\ metaFile \in Build /\ pc \in {"idle", "open_chunks", "chunks", "open_vectors"} =>
         ByModel(LinesOf(vectorFile.text), metaFile.model)

IInv == /\ TypeOK /\ OnDisk /\ BeingRead /\ HasRead /\ Judged
        /\ Planned /\ Written /\ Ended /\ Embedded

\* The ingest leaves the reader alone, and the reader the ingest and its files.
Ingesting == Begin \/ OpenChunks \/ WriteChunks \/ OpenVectors \/ WriteVectors
             \/ OpenMeta \/ WriteMeta \/ Crash

Starting == OpenIndex \/ ReadChunks \/ CloseChunks \/ ReadVectors \/ CloseVectors
            \/ ReadMeta \/ StartFails \/ Leave

LEMMA Apart ==
  ASSUME [Next]_vars
  PROVE  /\ Ingesting \/ Starting \/ UNCHANGED vars
         /\ Ingesting => UNCHANGED <<reader, seen>>
         /\ ~Ingesting => UNCHANGED <<disk, ingest>>
<1>1. Ingesting \/ Starting \/ UNCHANGED vars
  BY DEF Next, Ingesting, Starting
<1>2. Ingesting => UNCHANGED <<reader, seen>>
  BY DEF Ingesting, Begin, OpenChunks, WriteChunks, OpenVectors, WriteVectors, OpenMeta,
         WriteMeta, Crash, starts
<1>3. Starting => UNCHANGED <<disk, ingest>>
  BY DEF Starting, OpenIndex, ReadChunks, CloseChunks, ReadVectors, CloseVectors, ReadMeta,
         StartFails, Leave, Ends
<1>4. UNCHANGED vars => UNCHANGED <<disk, ingest>>
  BY DEF vars
<1> QED BY <1>1, <1>2, <1>3, <1>4

LEMMA AbsentFiles == \A S : Absent \in FileOf(S)
<1>1. \A S : <<>> \in TextOf(S)
  BY EmptySeq DEF TextOf
<1> QED BY <1>1 DEF Absent, FileOf

LEMMA OpenedFiles == \A S : Opened \in FileOf(S)
<1>1. \A S : <<>> \in TextOf(S)
  BY EmptySeq DEF TextOf
<1> QED BY <1>1 DEF Opened, FileOf

LEMMA NothingIsTyped ==
  Nothing \in [chunks : TextOf(Chunk), vectors : TextOf(VectorRow), meta : Metas]
<1>1. \A S : <<>> \in TextOf(S)
  BY EmptySeq DEF TextOf
<1> QED BY <1>1 DEF Nothing, Metas

LEMMA NothingIsIntact == Intact(<<>>)
<1>1. DOMAIN <<>> = {}
  BY EmptySeq
<1> QED BY <1>1 DEF Intact

\* None and Torn are the meta of no ingest.
LEMMA BuildIsNoMark == None \notin Build /\ Torn \notin Build
<1>1. None.corpus \notin Corpus /\ Torn.corpus \notin Corpus
  BY IndexBundleAssumption DEF None, Torn
<1> QED BY <1>1 DEF Build

\* The rows on disk are rows.
LEMMA LinesAreRows ==
  ASSUME NEW S, NEW text \in TextOf(S)
  PROVE  LinesOf(text) \subseteq S
<1>1. DOMAIN text = 1 .. Len(text) /\ \A i \in DOMAIN text : text[i] \in S \X (Nat \ {0})
  BY LenProperties, ElementOfSeq DEF TextOf
<1> QED BY <1>1 DEF LinesOf, Firsts

LEMMA ReusableRows ==
  ASSUME TypeOK, NEW model
  PROVE  Reusable(model) \in SUBSET VectorRow
<1>1. LinesOf(vectorFile.text) \subseteq VectorRow
  BY LinesAreRows DEF TypeOK, FileOf
<1> QED BY <1>1 DEF Reusable

THEOREM InitIInv == Init => IInv
<1> SUFFICES ASSUME Init PROVE IInv
  OBVIOUS
<1>1. TypeOK
  <2>1. /\ chunkFile \in FileOf(Chunk) /\ vectorFile \in FileOf(VectorRow)
        /\ metaFile \in Metas /\ plan \in Seq(VectorRow)
    BY AbsentFiles DEF Init, Metas
  <2> QED BY <2>1, NothingIsTyped, IndexBundleAssumption DEF Init, TypeOK
<1>2. OnDisk /\ BeingRead /\ HasRead
  BY NothingIsIntact DEF Init, Absent, Nothing, OnDisk, BeingRead, HasRead
<1>3. Embedded
  BY BuildIsNoMark DEF Init, Embedded
<1> QED BY <1>1, <1>2, <1>3 DEF Init, IInv, Judged, Planned, Written, Ended

\* What Begin plans.
LEMMA BeginPlans ==
  ASSUME TypeOK, Begin
  PROVE  /\ build' \in Build
         /\ plan' \in Seq(VectorRow)
         /\ Len(plan') = Len(ChunksOf[build'.corpus])
         /\ ToSet(ChunksOf[build'.corpus]) \subseteq ChunksIn(ToSet(plan'))
         /\ ByModel(Reusable(build'.model), build'.model) =>
              ByModel(ToSet(plan'), build'.model)
<1>1. PICK b \in Build : b = build' /\ plan' = Vectors(b, Reusable(b.model))
  BY DEF Begin
<1>2. Reusable(b.model) \in SUBSET VectorRow
  BY ReusableRows
<1> QED BY <1>1, <1>2, VectorsAreWhole

\* What the flushes of an ingest leave on disk.
LEMMA ChunksFlushed ==
  ASSUME TypeOK, Planned, Written, WriteChunks
  PROVE  /\ build.corpus \in Corpus
         /\ chunkFile' \in FileOf(Chunk) /\ chunkFile'.there
         /\ IsPrefix(chunkFile'.text, ChunkText(build.corpus))
         /\ IsPrefix(chunkFile.text, chunkFile'.text)
<1>1. build.corpus \in Corpus
  BY DEF WriteChunks, Planned, Build
<1>2. PICK text \in TextOf(Chunk) : text = ChunkText(build.corpus)
  BY <1>1, ChunkTextIs
<1>3. /\ chunkFile' \in Flushed(chunkFile, text) /\ IsPrefix(chunkFile.text, text)
      /\ chunkFile \in FileOf(Chunk)
  BY <1>2 DEF WriteChunks, Written, TypeOK
<1> QED BY <1>1, <1>2, <1>3, FlushedContinues

LEMMA VectorsFlushed ==
  ASSUME TypeOK, Written, WriteVectors
  PROVE  /\ vectorFile' \in FileOf(VectorRow) /\ vectorFile'.there
         /\ IsPrefix(vectorFile'.text, RowText)
         /\ IsPrefix(vectorFile.text, vectorFile'.text)
         /\ RowText' = RowText
<1>1. PICK text \in TextOf(VectorRow) : text = RowText
  BY RowTextIs DEF TypeOK
<1>2. /\ vectorFile' \in Flushed(vectorFile, text) /\ IsPrefix(vectorFile.text, text)
      /\ vectorFile \in FileOf(VectorRow)
  BY <1>1 DEF WriteVectors, Written, TypeOK
<1>3. RowText' = RowText
  BY DEF RowText, WriteVectors
<1> QED BY <1>1, <1>2, <1>3, FlushedContinues

\* What the reads of a process take from a file.
LEMMA ChunksRead ==
  ASSUME TypeOK, ReadChunks
  PROVE  /\ seen' = [seen EXCEPT !.chunks = seen'.chunks]
         /\ seen'.chunks \in TextOf(Chunk)
         /\ IsPrefix(seen.chunks, chunkFile.text) => IsPrefix(seen'.chunks, chunkFile.text)
<1>1. PICK text \in More(seen.chunks, chunkFile) : seen' = [seen EXCEPT !.chunks = text]
  BY DEF ReadChunks
<1>2. seen.chunks \in TextOf(Chunk) /\ chunkFile \in FileOf(Chunk) /\ seen'.chunks = text
  BY <1>1 DEF TypeOK
<1> QED BY <1>1, <1>2, MoreIsRead

LEMMA VectorsRead ==
  ASSUME TypeOK, ReadVectors
  PROVE  /\ seen' = [seen EXCEPT !.vectors = seen'.vectors]
         /\ seen'.vectors \in TextOf(VectorRow)
         /\ IsPrefix(seen.vectors, vectorFile.text) =>
              IsPrefix(seen'.vectors, vectorFile.text)
<1>1. PICK text \in More(seen.vectors, vectorFile) : seen' = [seen EXCEPT !.vectors = text]
  BY DEF ReadVectors
<1>2. /\ seen.vectors \in TextOf(VectorRow) /\ vectorFile \in FileOf(VectorRow)
      /\ seen'.vectors = text
  BY <1>1 DEF TypeOK
<1> QED BY <1>1, <1>2, MoreIsRead

LEMMA TypeStep == TypeOK /\ Planned /\ Written /\ [Next]_vars => TypeOK'
<1> SUFFICES ASSUME TypeOK, Planned, Written, [Next]_vars PROVE TypeOK'
  OBVIOUS
<1>1. CASE Begin
  <2>1. embedded' \subseteq Chunk
    <3>1. \A c \in Corpus : ToSet(ChunksOf[c]) \subseteq Chunk
      <4>1. \A c \in Corpus : ChunksOf[c] \in Seq(Chunk)
        BY IndexBundleAssumption
      <4>2. \A c \in Corpus : \A i \in DOMAIN ChunksOf[c] : ChunksOf[c][i] \in Chunk
        BY <4>1, ElementOfSeq, LenProperties
      <4> QED BY <4>2 DEF ToSet
    <3>2. build' \in Build /\ build'.corpus \in Corpus
      BY <1>1, BeginPlans DEF Build
    <3> QED BY <1>1, <3>1, <3>2 DEF Begin
  <2>2. build' \in Build /\ plan' \in Seq(VectorRow)
    BY <1>1, BeginPlans
  <2> QED BY <1>1, <2>1, <2>2 DEF Begin, TypeOK, disk, starts
<1>2. CASE OpenChunks
  <2>1. chunkFile' \in FileOf(Chunk)
    BY <1>2, OpenedFiles DEF OpenChunks
  <2> QED BY <1>2, <2>1 DEF OpenChunks, Truncate, TypeOK
<1>3. CASE OpenVectors
  <2>1. vectorFile' \in FileOf(VectorRow)
    BY <1>3, OpenedFiles DEF OpenVectors
  <2> QED BY <1>3, <2>1 DEF OpenVectors, Truncate, TypeOK
<1>4. CASE OpenMeta
  BY <1>4 DEF OpenMeta, TypeOK, Metas, starts
<1>5. CASE WriteMeta
  BY <1>5 DEF WriteMeta, Gone, TypeOK, Metas, starts
<1>6. CASE Crash
  <2>1. crashes' \in 0 .. MaxCrashes
    BY <1>6, IndexBundleAssumption DEF Crash, TypeOK
  <2> QED BY <1>6, <2>1 DEF Crash, Gone, TypeOK, disk, starts
<1>7. CASE OpenIndex \/ CloseChunks \/ CloseVectors
  BY <1>7 DEF OpenIndex, CloseChunks, CloseVectors, TypeOK, disk, ingest
<1>8. CASE ReadChunks
  <2>1. seen' \in [chunks : TextOf(Chunk), vectors : TextOf(VectorRow), meta : Metas]
    BY <1>8, ChunksRead DEF TypeOK
  <2> QED BY <1>8, <2>1 DEF ReadChunks, TypeOK, disk, ingest
<1>9. CASE ReadVectors
  <2>1. seen' \in [chunks : TextOf(Chunk), vectors : TextOf(VectorRow), meta : Metas]
    BY <1>9, VectorsRead DEF TypeOK
  <2> QED BY <1>9, <2>1 DEF ReadVectors, TypeOK, disk, ingest
<1>10. CASE ReadMeta
  BY <1>10 DEF ReadMeta, TypeOK, disk, ingest
<1>11. CASE StartFails \/ Leave
  BY <1>11, NothingIsTyped DEF StartFails, Leave, Ends, TypeOK, disk, ingest
<1>12. CASE UNCHANGED vars
  BY <1>12 DEF vars, disk, ingest, starts, TypeOK
<1>13. CASE WriteChunks
  BY <1>13, ChunksFlushed DEF WriteChunks, TypeOK, starts
<1>14. CASE WriteVectors
  BY <1>14, VectorsFlushed DEF WriteVectors, TypeOK, starts
<1> QED BY <1>1, <1>2, <1>3, <1>4, <1>5, <1>6, <1>7, <1>8, <1>9, <1>10, <1>11, <1>12,
           <1>13, <1>14 DEF Next

\* Whatever begins a text that begins what is written for some corpus does so too.
LEMMA BeginsBegin ==
  ASSUME NEW s \in TextOf(Chunk), NEW t \in TextOf(Chunk), IsPrefix(s, t), Begins(t)
  PROVE  Begins(s)
<1>1. PICK c \in Corpus : IsPrefix(t, ChunkText(c))
  BY DEF Begins
<1>2. ChunkText(c) \in TextOf(Chunk)
  BY ChunkTextIs
<1>3. IsPrefix(s, ChunkText(c))
  BY <1>1, <1>2, PrefixTransitive DEF TextOf
<1> QED BY <1>3 DEF Begins

LEMMA OnDiskStep == IInv /\ [Next]_vars => OnDisk'
<1> SUFFICES ASSUME IInv, [Next]_vars PROVE OnDisk'
  OBVIOUS
<1> USE DEF IInv
<1>1. CASE UNCHANGED <<chunkFile, vectorFile>>
  BY <1>1 DEF OnDisk, Begins
<1>2. CASE OpenChunks
  <2>1. build.corpus \in Corpus
    BY <1>2 DEF OpenChunks, Planned, Build
  <2>2. IsPrefix(<<>>, ChunkText(build.corpus))
    BY <2>1, ChunkTextIs, TrivialPrefixes DEF TextOf
  <2> QED BY <1>2, <2>1, <2>2 DEF OpenChunks, Opened, OnDisk, Begins
<1>3. CASE WriteChunks
  BY <1>3, ChunksFlushed DEF WriteChunks, OnDisk, Begins
<1>4. CASE OpenVectors
  BY <1>4, NothingIsIntact DEF OpenVectors, Opened, OnDisk, Begins
<1>5. CASE WriteVectors
  <2>1. /\ vectorFile'.text \in TextOf(VectorRow) /\ IsPrefix(vectorFile'.text, RowText)
        /\ RowText \in TextOf(VectorRow) /\ Intact(RowText)
    BY <1>5, VectorsFlushed, RowTextIs DEF TypeOK, FileOf
  <2>2. Intact(vectorFile'.text)
    BY <2>1, PartOfText
  <2> QED BY <1>5, <2>2 DEF WriteVectors, OnDisk, Begins
<1>6. CASE Begin \/ OpenMeta \/ WriteMeta \/ Crash
  BY <1>1, <1>6 DEF Begin, OpenMeta, WriteMeta, Crash, disk
<1>7. CASE ~Ingesting
  BY <1>1, <1>7, Apart DEF disk
<1> QED BY <1>2, <1>3, <1>4, <1>5, <1>6, <1>7 DEF Ingesting

LEMMA BeingReadStep == IInv /\ [Next]_vars => BeingRead'
<1> SUFFICES ASSUME IInv, [Next]_vars PROVE BeingRead'
  OBVIOUS
<1> USE DEF IInv
<1>1. CASE UNCHANGED <<chunkFile, vectorFile, starts>>
  BY <1>1 DEF BeingRead, starts
<1>2. CASE Begin \/ OpenMeta \/ WriteMeta \/ Crash \/ UNCHANGED vars
  BY <1>1, <1>2 DEF Begin, OpenMeta, WriteMeta, Crash, disk, vars
<1>3. CASE OpenChunks
  <2>1. UNCHANGED <<reader, seen, vectorFile>> /\ chunkFile' = Opened
    BY <1>3 DEF OpenChunks
  <2>2. replaced' = IF reader = "chunks" /\ seen.chunks # <<>> THEN replaced \cup {"chunks"}
                    ELSE replaced
    BY <1>3 DEF OpenChunks, Truncate
  <2>3. IsPrefix(<<>>, <<>>)
    BY NothingBegins
  <2> QED BY <2>1, <2>2, <2>3 DEF Opened, BeingRead
<1>4. CASE WriteChunks
  <2>1. /\ chunkFile'.there /\ IsPrefix(chunkFile.text, chunkFile'.text)
        /\ chunkFile.text \in TextOf(Chunk) /\ chunkFile'.text \in TextOf(Chunk)
        /\ seen.chunks \in TextOf(Chunk)
    BY <1>4, ChunksFlushed DEF TypeOK, FileOf
  <2>2. IsPrefix(seen.chunks, chunkFile.text) => IsPrefix(seen.chunks, chunkFile'.text)
    BY <2>1, PrefixTransitive DEF TextOf
  <2> QED BY <1>4, <2>1, <2>2 DEF WriteChunks, starts, BeingRead
<1>5. CASE OpenVectors
  <2>1. UNCHANGED <<reader, seen, chunkFile>> /\ vectorFile' = Opened
    BY <1>5 DEF OpenVectors
  <2>2. replaced' = IF reader = "vectors" /\ seen.vectors # <<>>
                    THEN replaced \cup {"vectors"} ELSE replaced
    BY <1>5 DEF OpenVectors, Truncate
  <2>3. IsPrefix(<<>>, <<>>)
    BY NothingBegins
  <2> QED BY <2>1, <2>2, <2>3 DEF Opened, BeingRead
<1>6. CASE WriteVectors
  <2>1. /\ IsPrefix(vectorFile.text, vectorFile'.text)
        /\ vectorFile.text \in TextOf(VectorRow) /\ vectorFile'.text \in TextOf(VectorRow)
        /\ seen.vectors \in TextOf(VectorRow)
    BY <1>6, VectorsFlushed DEF TypeOK, FileOf
  <2>2. IsPrefix(seen.vectors, vectorFile.text) => IsPrefix(seen.vectors, vectorFile'.text)
    BY <2>1, PrefixTransitive DEF TextOf
  <2> QED BY <1>6, <2>1, <2>2 DEF WriteVectors, starts, BeingRead
<1>7. CASE OpenIndex
  <2>1. IsPrefix(<<>>, chunkFile.text)
    BY TrivialPrefixes DEF TypeOK, FileOf, TextOf
  <2> QED BY <1>7, <2>1 DEF OpenIndex, disk, BeingRead
<1>8. CASE ReadChunks
  BY <1>8, ChunksRead DEF ReadChunks, disk, TypeOK, BeingRead
<1>9. CASE CloseChunks
  <2>1. IsPrefix(<<>>, vectorFile.text)
    BY TrivialPrefixes DEF TypeOK, FileOf, TextOf
  <2> QED BY <1>9, <2>1 DEF CloseChunks, disk, BeingRead
<1>10. CASE ReadVectors
  BY <1>10, VectorsRead DEF ReadVectors, disk, TypeOK, BeingRead
<1>11. CASE CloseVectors \/ ReadMeta
  BY <1>11 DEF CloseVectors, ReadMeta, BeingRead
<1>12. CASE StartFails \/ Leave
  BY <1>12 DEF StartFails, Leave, Ends, Nothing, BeingRead
<1> QED BY <1>2, <1>3, <1>4, <1>5, <1>6, <1>7, <1>8, <1>9, <1>10, <1>11, <1>12 DEF Next

LEMMA HasReadStep == IInv /\ [Next]_vars => HasRead'
<1> SUFFICES ASSUME IInv, [Next]_vars PROVE HasRead'
  OBVIOUS
<1> USE DEF IInv
<1>1. CASE UNCHANGED starts
  BY <1>1 DEF HasRead, Begins, starts
<1>2. CASE OpenChunks \/ OpenVectors
  <2>1. UNCHANGED <<reader, seen>> /\ replaced \subseteq replaced'
    BY <1>2 DEF OpenChunks, OpenVectors, Truncate
  <2> QED BY <2>1 DEF HasRead, Begins
<1>3. CASE Begin \/ WriteChunks \/ WriteVectors \/ OpenMeta \/ WriteMeta \/ Crash \/ UNCHANGED vars
  BY <1>1, <1>3 DEF Begin, WriteChunks, WriteVectors, OpenMeta, WriteMeta, Crash, vars
<1>4. CASE OpenIndex \/ ReadChunks
  BY <1>4 DEF OpenIndex, ReadChunks, HasRead
<1>5. CASE CloseChunks
  <2>1. /\ reader = "chunks" /\ reader' = "vectors" /\ UNCHANGED <<seen, replaced>>
        /\ seen.chunks \in TextOf(Chunk) /\ chunkFile.text \in TextOf(Chunk)
    BY <1>5 DEF CloseChunks, TypeOK, FileOf
  <2>2. "chunks" \notin replaced => Begins(seen.chunks)
    BY <2>1, BeginsBegin DEF BeingRead, OnDisk
  <2> QED BY <2>1, <2>2 DEF HasRead, Begins
<1>6. CASE ReadVectors
  <2>1. /\ reader = "vectors" /\ UNCHANGED <<reader, replaced>>
        /\ seen'.chunks = seen.chunks
    BY <1>6, VectorsRead DEF ReadVectors, TypeOK
  <2> QED BY <2>1 DEF HasRead, Begins
<1>7. CASE CloseVectors
  <2>1. /\ reader = "vectors" /\ reader' = "meta" /\ UNCHANGED <<seen, replaced>>
        /\ seen.vectors \in TextOf(VectorRow) /\ vectorFile.text \in TextOf(VectorRow)
    BY <1>7 DEF CloseVectors, TypeOK, FileOf
  <2>2. "vectors" \notin replaced => Intact(seen.vectors)
    BY <2>1, PartOfText DEF BeingRead, OnDisk
  <2> QED BY <2>1, <2>2 DEF HasRead, Begins
<1>8. CASE ReadMeta
  <2>1. /\ reader = "meta" /\ reader' = "loaded" /\ UNCHANGED replaced
        /\ seen'.chunks = seen.chunks /\ seen'.vectors = seen.vectors
    BY <1>8 DEF ReadMeta, TypeOK
  <2> QED BY <2>1 DEF HasRead, Begins
<1>9. CASE StartFails \/ Leave
  BY <1>9 DEF StartFails, Leave, Ends, HasRead
<1> QED BY <1>2, <1>3, <1>4, <1>5, <1>6, <1>7, <1>8, <1>9 DEF Next

LEMMA JudgedStep == IInv /\ [Next]_vars => Judged'
<1> SUFFICES ASSUME IInv, [Next]_vars PROVE Judged'
  OBVIOUS
<1> USE DEF IInv
<1>1. CASE ReadMeta
  <2>1. seen'.chunks = seen.chunks /\ seen'.vectors = seen.vectors /\ seen'.meta = metaFile
    BY <1>1 DEF ReadMeta, TypeOK
  <2> QED BY <1>1, <2>1 DEF ReadMeta, Judged
<1>2. CASE OpenIndex \/ ReadChunks \/ CloseChunks \/ ReadVectors \/ CloseVectors
           \/ StartFails \/ Leave
  BY <1>2 DEF OpenIndex, ReadChunks, CloseChunks, ReadVectors, CloseVectors, StartFails,
              Leave, Ends, Judged
<1>3. CASE UNCHANGED <<reader, seen>>
  BY <1>3 DEF Judged
<1>4. CASE Ingesting \/ UNCHANGED vars
  BY <1>3, <1>4, Apart DEF vars, starts
<1> QED BY <1>1, <1>2, <1>4, Apart DEF Starting

LEMMA PlannedStep == IInv /\ [Next]_vars => Planned'
<1> SUFFICES ASSUME IInv, [Next]_vars PROVE Planned'
  OBVIOUS
<1> USE DEF IInv
<1>1. CASE Begin
  BY <1>1, BeginPlans DEF Planned
<1>2. CASE OpenChunks \/ WriteChunks \/ OpenVectors \/ WriteVectors \/ OpenMeta
  <2>1. pc # "idle" /\ UNCHANGED <<build, plan>>
    BY <1>2 DEF OpenChunks, WriteChunks, OpenVectors, WriteVectors, OpenMeta
  <2> QED BY <2>1 DEF Planned
<1>3. CASE WriteMeta \/ Crash
  BY <1>3 DEF WriteMeta, Crash, Planned
<1>4. CASE ~Ingesting
  BY <1>4, Apart DEF ingest, Planned
<1> QED BY <1>1, <1>2, <1>3, <1>4 DEF Ingesting

LEMMA WrittenStep == IInv /\ [Next]_vars => Written'
<1> SUFFICES ASSUME IInv, [Next]_vars PROVE Written'
  OBVIOUS
<1> USE DEF IInv
<1>1. CASE Begin
  BY <1>1 DEF Begin, Written
<1>2. CASE OpenChunks
  <2>1. build.corpus \in Corpus
    BY <1>2 DEF OpenChunks, Planned, Build
  <2>2. IsPrefix(<<>>, ChunkText(build.corpus))
    BY <2>1, ChunkTextIs, TrivialPrefixes DEF TextOf
  <2> QED BY <1>2, <2>2 DEF OpenChunks, Written, Opened
<1>3. CASE WriteChunks
  BY <1>3, ChunksFlushed DEF WriteChunks, Written
<1>4. CASE OpenVectors
  <2>1. IsPrefix(<<>>, RowText)
    BY RowTextIs, TrivialPrefixes DEF TextOf, TypeOK
  <2>2. RowText' = RowText
    BY <1>4 DEF OpenVectors, RowText
  <2> QED BY <1>4, <2>1, <2>2 DEF OpenVectors, Written, Opened
<1>5. CASE WriteVectors
  BY <1>5, VectorsFlushed DEF WriteVectors, Written
<1>6. CASE OpenMeta
  BY <1>6 DEF OpenMeta, Written, RowText
<1>7. CASE WriteMeta \/ Crash
  BY <1>7 DEF WriteMeta, Crash, Written
<1>8. CASE ~Ingesting
  BY <1>8, Apart DEF disk, ingest, Written, RowText
<1> QED BY <1>1, <1>2, <1>3, <1>4, <1>5, <1>6, <1>7, <1>8 DEF Ingesting

LEMMA EndedStep == IInv /\ [Next]_vars => Ended'
<1> SUFFICES ASSUME IInv, [Next]_vars PROVE Ended'
  OBVIOUS
<1> USE DEF IInv
<1>1. CASE UNCHANGED <<disk, last>> /\ pc' \in {"idle", "open_chunks"}
  BY <1>1 DEF Ended, EndedIngestIsWhole, disk
<1>2. CASE Begin
  BY <1>1, <1>2 DEF Begin
<1>3. CASE Crash
  BY <1>1, <1>3 DEF Crash
<1>4. CASE OpenChunks
  BY <1>4 DEF OpenChunks, Ended
<1>5. CASE WriteChunks \/ OpenVectors \/ WriteVectors \/ OpenMeta
  BY <1>5 DEF WriteChunks, OpenVectors, WriteVectors, OpenMeta, Ended
<1>6. CASE WriteMeta
  <2>1. /\ pc = "meta" /\ pc' = "idle" /\ metaFile' = build /\ last' = build
        /\ chunkFile' = chunkFile /\ vectorFile' = vectorFile
    BY <1>6 DEF WriteMeta
  <2>2. build \in Build /\ build.corpus \in Corpus /\ build # None /\ build # Torn
    BY <2>1, BuildIsNoMark DEF Planned, Build
  <2>3. chunkFile.text = ChunkText(build.corpus) /\ vectorFile.text = RowText
    BY <2>1 DEF Written
  <2>4. /\ Parses(chunkFile.text, ChunkPieces) /\ Parses(vectorFile.text, RowPieces)
        /\ LinesOf(chunkFile.text) = ToSet(ChunksOf[build.corpus])
        /\ LinesOf(vectorFile.text) = ToSet(plan)
        /\ Cardinality(Firsts(vectorFile.text)) = Len(plan)
    BY <2>2, <2>3, ChunkTextIs, RowTextIs DEF TypeOK
  <2>5. /\ ToSet(ChunksOf[build.corpus]) \subseteq ChunksIn(ToSet(plan))
        /\ Len(plan) = Len(ChunksOf[build.corpus])
    BY <2>1 DEF Planned
  <2>6. ~Unreadable(chunkFile.text, vectorFile.text, build)
    BY <2>2, <2>4, <2>5 DEF Unreadable
  <2> QED BY <2>1, <2>3, <2>4, <2>5, <2>6 DEF Ended, EndedIngestIsWhole
<1>7. CASE ~Ingesting
  BY <1>7, Apart DEF disk, ingest, Ended, EndedIngestIsWhole
<1> QED BY <1>2, <1>3, <1>4, <1>5, <1>6, <1>7 DEF Ingesting

\* What an ingest reuses is by the model it embeds with.
LEMMA ReusesItsModel ==
  ASSUME IInv, pc = "idle", crashes = 0, NEW model
  PROVE  ByModel(Reusable(model), model)
<1>1. PICK bad \in BOOLEAN : bad <=> Unreadable(chunkFile.text, vectorFile.text, metaFile)
  OBVIOUS
<1>2. CASE bad \/ metaFile.model # model
  BY <1>1, <1>2 DEF Reusable, ByModel
<1>3. CASE ~bad /\ metaFile.model = model
  <2>1. metaFile \in Build
    BY <1>1, <1>3 DEF Unreadable, IInv, TypeOK, Metas
  <2>2. ByModel(LinesOf(vectorFile.text), metaFile.model)
    BY <2>1 DEF IInv, Embedded
  <2> QED BY <1>1, <1>3, <2>2 DEF Reusable
<1> QED BY <1>2, <1>3

LEMMA EmbeddedStep == IInv /\ [Next]_vars => Embedded'
<1> SUFFICES ASSUME IInv, [Next]_vars, crashes' = 0 PROVE Embedded'
  BY DEF Embedded
<1>1. CASE Begin
  <2>1. ByModel(Reusable(build'.model), build'.model)
    BY <1>1, ReusesItsModel DEF Begin
  <2>2. ByModel(ToSet(plan'), build'.model)
    BY <1>1, <2>1, BeginPlans DEF IInv
  <2>3. metaFile \in Build => ByModel(LinesOf(vectorFile.text), metaFile.model)
    BY <1>1 DEF Begin, IInv, Embedded
  <2> QED BY <1>1, <2>2, <2>3 DEF Begin, Embedded, disk
<1>2. CASE OpenChunks \/ WriteChunks
  <2>1. /\ pc \in {"open_chunks", "chunks"} /\ pc' \in {"chunks", "open_vectors"}
        /\ UNCHANGED <<vectorFile, metaFile, build, plan, crashes>>
    BY <1>2 DEF OpenChunks, WriteChunks
  <2> QED BY <2>1 DEF Embedded, IInv
<1>3. CASE OpenVectors
  <2>1. LinesOf(vectorFile'.text) = {}
    <3>1. vectorFile'.text = <<>> /\ DOMAIN <<>> = {}
      BY <1>3, EmptySeq DEF OpenVectors, Opened
    <3> QED BY <3>1 DEF LinesOf, Firsts
  <2>2. ByModel(LinesOf(vectorFile'.text), build'.model)
    BY <2>1 DEF ByModel
  <2> QED BY <1>3, <2>2 DEF OpenVectors, Embedded, IInv
<1>4. CASE WriteVectors
  <2>1. ByModel(ToSet(plan), build.model) /\ UNCHANGED <<build, plan>> /\ pc = "vectors"
    BY <1>4 DEF WriteVectors, IInv, Embedded
  <2>2. /\ vectorFile'.text \in TextOf(VectorRow) /\ IsPrefix(vectorFile'.text, RowText)
        /\ RowText \in TextOf(VectorRow) /\ LinesOf(RowText) = ToSet(plan)
    BY <1>4, VectorsFlushed, RowTextIs DEF IInv, TypeOK, FileOf
  <2>3. LinesOf(vectorFile'.text) \subseteq ToSet(plan)
    BY <2>2, PartOfText
  <2>4. ByModel(LinesOf(vectorFile'.text), build'.model)
    BY <2>1, <2>3 DEF ByModel
  <2>5. pc' \in {"vectors", "open_meta"}
    BY <1>4 DEF WriteVectors
  <2> QED BY <2>1, <2>4, <2>5 DEF Embedded
<1>5. CASE OpenMeta
  BY <1>5 DEF OpenMeta, Embedded, IInv
<1>6. CASE WriteMeta
  BY <1>6 DEF WriteMeta, Embedded, IInv
<1>7. CASE Crash
  <2>1. crashes' = crashes + 1 /\ crashes \in Nat
    BY <1>7, IndexBundleAssumption DEF Crash, IInv, TypeOK
  <2> QED BY <2>1
<1>8. CASE ~Ingesting
  BY <1>8, Apart DEF disk, ingest, Embedded, IInv
<1> QED BY <1>1, <1>2, <1>3, <1>4, <1>5, <1>6, <1>7, <1>8 DEF Ingesting

THEOREM StepIInv == IInv /\ [Next]_vars => IInv'
<1>1. IInv => TypeOK /\ Planned /\ Written
  BY DEF IInv
<1> QED BY <1>1, TypeStep, OnDiskStep, BeingReadStep, HasReadStep, JudgedStep, PlannedStep,
           WrittenStep, EndedStep, EmbeddedStep DEF IInv

-----------------------------------------------------------------------------
(* What holds in every state.                                              *)

LEMMA Invariance == Spec => []IInv
BY InitIInv, StepIInv, PTL DEF Spec

\* The variables keep their types.
THEOREM TypeCorrect == Spec => []TypeOK
<1>1. IInv => TypeOK
  BY DEF IInv
<1> QED BY <1>1, Invariance, PTL

\* However ingests were interrupted, and however the reads of a process and the flushes
\* of an ingest alternate, inside the files too (chunks.py:156-166, 216-224), an index
\* that loads has a vector for each of its chunks.  Unless an ingest emptied the file
\* while the process was inside it, its chunks are the first of one state of the corpus,
\* and no vector is put together of two.
THEOREM LoadedIndexCanBeSearched == Spec => []LoadedCanBeSearched
<1>1. IInv => LoadedCanBeSearched
  <2> SUFFICES ASSUME IInv, reader = "loaded" PROVE LoadedCanBeSearched
    BY DEF LoadedCanBeSearched
  <2>1. LinesOf(seen.chunks) \subseteq ChunksIn(LinesOf(seen.vectors))
    BY DEF IInv, Judged, Unreadable
  <2> QED BY <2>1 DEF IInv, HasRead, Begins, LoadedCanBeSearched
<1> QED BY <1>1, Invariance, PTL

\* An ingest that ends leaves a whole index, whatever was on disk when it began
\* (ingest.py:156-163).
THEOREM EveryEndedIngestIsWhole == Spec => []EndedIngestIsWhole
<1>1. IInv => EndedIngestIsWhole
  BY DEF IInv, Ended, EndedIngestIsWhole
<1> QED BY <1>1, Invariance, PTL

\* Without an interrupted ingest the vectors of an index are by the model its meta
\* names, over any number of ingests and models (ingest.py:72-82).
THEOREM EveryVectorIsByItsModel == Spec => []VectorsAreByTheirModel
<1>1. IInv => VectorsAreByTheirModel
  <2> SUFFICES ASSUME IInv, last # None, crashes = 0
               PROVE  ByModel(LinesOf(vectorFile.text), last.model)
    BY DEF VectorsAreByTheirModel, ByModel
  <2>1. pc \in {"idle", "open_chunks"} /\ metaFile = last /\ last \in Build
    BY DEF IInv, Ended, EndedIngestIsWhole, TypeOK
  <2> QED BY <2>1 DEF IInv, Embedded
<1> QED BY <1>1, Invariance, PTL

\* An ingest of the corpus and with the model of the last one to end embeds nothing
\* (ingest.py:3-5).
THEOREM NothingIsEmbeddedTwice == Spec => ReusesEverything
<1>1. ASSUME IInv, [Next]_vars, pc = "idle", pc' = "open_chunks", build' = last
      PROVE  embedded' = {}
  <2>1. Begin
    <3>1. Ingesting
      BY <1>1, Apart DEF ingest
    <3> QED BY <1>1, <3>1 DEF Ingesting, OpenChunks, WriteChunks, OpenVectors, WriteVectors,
                              OpenMeta, WriteMeta, Crash
  <2>2. PICK b \in Build :
          /\ b = last /\ b # None /\ build' = b
          /\ embedded' = ToSet(ChunksOf[b.corpus]) \ ChunksIn(Reusable(b.model))
    BY <1>1, <2>1, BuildIsNoMark DEF Begin
  <2>3. /\ ~Unreadable(chunkFile.text, vectorFile.text, metaFile)
        /\ chunkFile.text = ChunkText(b.corpus)
        /\ metaFile = b
    BY <1>1, <2>2 DEF IInv, Ended, EndedIngestIsWhole
  <2>4. Reusable(b.model) = LinesOf(vectorFile.text)
    BY <2>3 DEF Reusable
  <2>5. b.corpus \in Corpus
    BY <2>2 DEF Build
  <2>6. LinesOf(chunkFile.text) = ToSet(ChunksOf[b.corpus])
    BY <2>3, <2>5, ChunkTextIs
  <2>7. ToSet(ChunksOf[b.corpus]) \subseteq ChunksIn(LinesOf(vectorFile.text))
    BY <2>3, <2>6 DEF Unreadable
  <2> QED BY <2>2, <2>4, <2>7
<1>2. IInv /\ [Next]_vars =>
        [pc = "idle" /\ pc' = "open_chunks" /\ build' = last => embedded' = {}]_vars
  BY <1>1
<1> QED BY <1>2, Invariance, PTL DEF Spec, ReusesEverything

\* However the lines of a document alternate, the chunks an ingest writes lose none of its
\* text, follow it, keep fenced blocks whole and keep the size cap where that allows it
\* (ingest.py:42, rules 1 and 2 of chunking.py).
THEOREM ChunksOfIngestsAreExact == Spec => []ChunksAreExact
<1>1. ChunksAreExact
  BY AllDocumentsAreExact DEF ChunksAreExact
<1> QED BY <1>1, PTL
=============================================================================
