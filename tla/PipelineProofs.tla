--------------------------- MODULE PipelineProofs ---------------------------
(***************************************************************************)
(* Invariance proofs for one run of the pipeline, for every corpus, every  *)
(* set of requests and scores and every cut-off: first who may be a        *)
(* candidate and in which order, then what the caller is told, that the    *)
(* trace is complete, answers that no gate checked are marked, and each    *)
(* candidate is accounted for.                                             *)
(***************************************************************************)
EXTENDS Pipeline, SortingProofs, FunctionTheorems

-----------------------------------------------------------------------------
(* The corpus.                                                             *)

\* A search sees exactly the chunks that ensure_candidate lets in.
LEMMA ScopeIsPermitted == ASSUME NEW t PROVE Scope(t) = Permitted(t)
BY DEF Scope, Permitted

\* Expansion never leaves the owner of the chunk it started from.
LEMMA NeighboursStayHome ==
  ASSUME NEW t, NEW c \in Permitted(t), NEW span \in Nat
  PROVE  Neighbours(c, span) \subseteq Permitted(t)
BY DEF Neighbours, DocKey, Permitted

\* A ranking by score leaves no tie: chunk ids are distinct.
LEMMA ByScoreIsStrict ==
  ASSUME NEW S \in SUBSET Chunk, NEW score, \A c \in S : score[c] \in Int
  PROVE  StrictOrder(S, ByScore(score))
<1>1. S \subseteq Int
  BY CorpusAssumption
<1>2. \A c, d \in S : <<c, d>> \in ByScore(score) <=>
                        \/ score[c] > score[d]
                        \/ score[c] = score[d] /\ c < d
  BY DEF ByScore
<1> QED BY <1>1, <1>2 DEF StrictOrder

-----------------------------------------------------------------------------
(* What the operators of the stages return.                                *)

LEMMA StageNames ==
  /\ StageName = {"rewrite", "embed", "retrieve_dense", "retrieve_sparse",
                  "fuse", "gate", "rerank", "expand", "generate"}
  /\ \A name \in StageName :
       After(name) \in StageName \cup {"emit_fused", "finalize", "trace"}
<1>1. \A i \in 1 .. 9 : i = 1 \/ i = 2 \/ i = 3 \/ i = 4 \/ i = 5 \/ i = 6
                       \/ i = 7 \/ i = 8 \/ i = 9
  OBVIOUS
<1>2. StageName = {"rewrite", "embed", "retrieve_dense", "retrieve_sparse",
                   "fuse", "gate", "rerank", "expand", "generate"}
  BY <1>1 DEF StageName, STAGE_ORDER
<1> QED BY <1>2 DEF After

LEMMA AfterEach ==
  /\ After("rewrite") = "embed" /\ After("embed") = "retrieve_dense"
  /\ After("retrieve_dense") = "retrieve_sparse" /\ After("retrieve_sparse") = "fuse"
  /\ After("fuse") = "gate" /\ After("gate") = "emit_fused"
  /\ After("rerank") = "expand" /\ After("expand") = "finalize"
  /\ After("generate") = "trace"
BY DEF After

\* A list of permitted hits is admitted as it is.
LEMMA AllAdmitted ==
  ASSUME NEW hits \in Seq(Permitted(tenant))
  PROVE  Admitted(hits) = hits
<1>1. \A i \in DOMAIN hits : \A j \in 1 .. i : hits[j] \in Permitted(tenant)
  OBVIOUS
<1>2. {i \in DOMAIN hits : \A j \in 1 .. i : hits[j] \in Permitted(tenant)} = DOMAIN hits
  BY <1>1
<1>3. hits = [i \in DOMAIN hits |-> hits[i]]
  BY LenProperties
<1> QED BY <1>2, <1>3 DEF Admitted

\* A search returns chunks of the scope of its tenant.
LEMMA SearchStaysInScope ==
  ASSUME NEW t, NEW score, \A c \in Scope(t) : score[c] \in Int, NEW k \in Nat
  PROVE  Search(t, score, k) \in Seq(Scope(t))
<1> DEFINE S == {c \in Scope(t) : score[c] > 0}
<1>1. S \subseteq Chunk /\ S \subseteq Scope(t) /\ IsFiniteSet(S)
  BY CorpusAssumption, FS_Subset DEF Scope
<1>2. StrictOrder(S, ByScore(score))
  BY <1>1, ByScoreIsStrict
<1>3. Sorted(S, ByScore(score)) \in Seq(S)
  BY <1>1, <1>2, SortedIsPermutation
<1>4. Sorted(S, ByScore(score)) \in Seq(Scope(t))
  BY <1>1, <1>3, SeqMonotonic
<1> QED BY <1>4, PrefixOfSeq DEF Search

LEMMA ServerStaysInScope ==
  ASSUME NEW t, NEW score, NEW k \in Nat, NEW hits \in ServerHits(t, score, k)
  PROVE  hits \in Seq(Scope(t))
<1>1. Cardinality(Scope(t)) \in Nat
  BY CorpusAssumption, FS_Subset, FS_CardinalityType DEF Scope
<1>2. PICK n \in Nat : hits \in [1 .. n -> Scope(t)]
  BY <1>1 DEF ServerHits
<1> QED BY <1>2, SeqDef

\* Whatever a search may return.
LEMMA HitsStayInScope ==
  ASSUME NEW score \in [Scope(tenant) -> Nat],
         NEW hits \in {Search(tenant, score, TopK)} \cup ServerHits(tenant, score, TopK)
  PROVE  hits \in Seq(Scope(tenant))
<1>1. TopK \in Nat /\ \A c \in Scope(tenant) : score[c] \in Int
  BY PipelineAssumption
<1>2. CASE hits = Search(tenant, score, TopK)
  BY <1>1, <1>2, SearchStaysInScope
<1>3. CASE hits \in ServerHits(tenant, score, TopK)
  BY <1>1, <1>3, ServerStaysInScope
<1> QED BY <1>2, <1>3

\* Every admitted hit is one the boundary check lets in.
LEMMA HitsAreAdmitted ==
  ASSUME NEW hits \in Seq(Scope(tenant))
  PROVE  /\ Admitted(hits) = hits
         /\ hits \in Seq(Permitted(tenant))
         /\ hits \in Seq(Chunk)
         /\ Elems(hits) \subseteq Permitted(tenant)
<1>1. hits \in Seq(Permitted(tenant))
  BY ScopeIsPermitted
<1>2. Permitted(tenant) \subseteq Chunk
  BY DEF Permitted
<1>3. hits \in Seq(Chunk) /\ Elems(hits) \subseteq Permitted(tenant)
  BY <1>1, <1>2, SeqMonotonic, ElemsOfSeq
<1>4. Admitted(hits) = hits
  BY <1>1, AllAdmitted
<1> QED BY <1>1, <1>3, <1>4

LEMMA RankInType ==
  ASSUME NEW order \in Seq(Chunk), NEW c
  PROVE  /\ RankIn(order, c) \in Nat \ {0}
         /\ c \in Elems(order) => RankIn(order, c) \in DOMAIN order
                                  /\ order[RankIn(order, c)] = c
<1>1. CASE c \in Elems(order)
  <2>1. \E i \in DOMAIN order : order[i] = c
    BY <1>1 DEF Elems
  <2>2. RankIn(order, c) \in DOMAIN order /\ order[RankIn(order, c)] = c
    BY <1>1, <2>1 DEF RankIn
  <2> QED BY <2>2, LenProperties
<1>2. CASE c \notin Elems(order)
  BY <1>2 DEF RankIn
<1> QED BY <1>1, <1>2

LEMMA FusedScoreType ==
  ASSUME TypeOK, NEW c \in Chunk
  PROVE  FusedScore(c) \in Nat
<1>1. \A x \in Nat \ {0} : Scale \div x \in Nat
  BY DEF Scale
<1>2. ASSUME NEW order \in Seq(Chunk)
      PROVE  /\ Reciprocal(RrfK, order, c) \in Nat
             /\ Scale \div (1 + RankIn(order, c)) \in Nat
  <2>1. RrfK + RankIn(order, c) \in Nat \ {0} /\ 1 + RankIn(order, c) \in Nat \ {0}
    BY RankInType, PipelineAssumption
  <2> QED BY <1>1, <2>1 DEF Reciprocal
<1>3. lexical_score[c] + semantic_score[c] \in Nat
  BY DEF TypeOK
<1>4. lexical_order \in Seq(Chunk) /\ semantic_order \in Seq(Chunk)
  BY DEF TypeOK
<1>5. /\ Reciprocal(RrfK, lexical_order, c) + Reciprocal(RrfK, semantic_order, c) \in Nat
      /\ Scale \div (1 + RankIn(lexical_order, c)) \in Nat
      /\ Scale \div (1 + RankIn(semantic_order, c)) \in Nat
  <2>1. Reciprocal(RrfK, lexical_order, c) \in Nat /\ Reciprocal(RrfK, semantic_order, c) \in Nat
    BY <1>2, <1>4
  <2> QED BY <1>2, <1>4, <2>1
<1> QED BY <1>3, <1>5 DEF FusedScore

LEMMA ByRerankIsStrict ==
  ASSUME TypeOK, NEW S \in SUBSET Chunk, NEW score \in [Chunk -> Nat \cup {Unscored}]
  PROVE  StrictOrder(S, ByRerank(score))
<1> DEFINE by == ByScore(fused_score)
<1>1. \A c \in S : score[c] \in Int
  BY DEF Unscored
<1>2. StrictOrder(S, by)
  <2>1. \A c \in S : fused_score[c] \in Int
    BY DEF TypeOK
  <2> QED BY <2>1, ByScoreIsStrict
<1>3. \A c, d \in S : <<c, d>> \in ByRerank(score) <=>
                        \/ score[c] > score[d]
                        \/ score[c] = score[d] /\ <<c, d>> \in by
  BY DEF ByRerank
<1> HIDE DEF by
<1> QED BY <1>1, <1>2, <1>3 DEF StrictOrder

\* A non-empty finite set of integers has a least one.
LEMMA LeastInteger ==
  ASSUME NEW T \in SUBSET Int, IsFiniteSet(T), T # {}
  PROVE  \E i \in T : \A j \in T : i <= j
<1> DEFINE less == {p \in T \X T : p[1] < p[2]}
           sorted == Sorted(T, less)
<1>1. StrictOrder(T, less)
  BY DEF StrictOrder
<1>2. /\ sorted \in Seq(T)
      /\ Elems(sorted) = T
      /\ \A i, j \in DOMAIN sorted : i < j => <<sorted[i], sorted[j]>> \in less
  BY <1>1, SortedIsPermutation
<1>3. 1 \in DOMAIN sorted /\ \A j \in DOMAIN sorted : j = 1 \/ 1 < j
  <2> HIDE DEF sorted
  <2> QED BY <1>2, LenProperties DEF Elems
<1>4. \A j \in T : \E k \in DOMAIN sorted : sorted[k] = j
  BY <1>2 DEF Elems
<1>5. sorted[1] \in T
  BY <1>2, <1>3 DEF Elems
<1> HIDE DEF sorted
<1>6. ASSUME NEW j \in T PROVE sorted[1] <= j
  <2>1. PICK k \in DOMAIN sorted : sorted[k] = j
    BY <1>4
  <2>2. CASE k = 1
    BY <1>5, <2>1, <2>2
  <2>3. CASE 1 < k
    <3>1. <<sorted[1], j>> \in less
      BY <1>2, <1>3, <2>1, <2>3
    <3>2. sorted[1] < j
      BY <3>1
    <3>3. sorted[1] \in Int /\ j \in Int
      BY <1>5
    <3> QED BY <3>2, <3>3
  <2> QED BY <1>3, <2>2, <2>3
<1> QED BY <1>5, <1>6

\* Every chunk a winner brings has a first winner that brings it.
LEMMA BroughtByFirst ==
  ASSUME TypeOK, NEW c, \E w \in Elems(fused_order) : c \in Brought(w)
  PROVE  /\ BroughtBy(c) \in DOMAIN fused_order
         /\ BroughtBy(c) \in Int
         /\ c \in Brought(fused_order[BroughtBy(c)])
         /\ \A j \in 1 .. BroughtBy(c) - 1 : c \notin Brought(fused_order[j])
<1> DEFINE T == {i \in DOMAIN fused_order : c \in Brought(fused_order[i])}
<1>1. fused_order \in Seq(Chunk) /\ DOMAIN fused_order = 1 .. Len(fused_order)
      /\ Len(fused_order) \in Nat
  BY LenProperties DEF TypeOK
<1>2. T # {}
  BY DEF Elems
<1>3. T \in SUBSET (1 .. Len(fused_order)) /\ IsFiniteSet(1 .. Len(fused_order))
  BY <1>1, FS_Interval
<1>4. T \subseteq Int /\ IsFiniteSet(T)
  <2>1. IsFiniteSet(T)
    <3> HIDE DEF T
    <3> QED BY <1>3, FS_Subset
  <2> QED BY <1>1, <2>1
<1>5. \E i \in T : \A j \in T : i <= j
  <2> HIDE DEF T
  <2> QED BY <1>2, <1>4, LeastInteger
<1>6. \E i \in DOMAIN fused_order :
        /\ c \in Brought(fused_order[i])
        /\ \A j \in 1 .. i - 1 : c \notin Brought(fused_order[j])
  BY <1>1, <1>5
<1>7. /\ BroughtBy(c) \in DOMAIN fused_order /\ c \in Brought(fused_order[BroughtBy(c)])
      /\ \A j \in 1 .. BroughtBy(c) - 1 : c \notin Brought(fused_order[j])
  BY <1>6 DEF BroughtBy
<1> QED BY <1>1, <1>7

Reached == UNION {Brought(w) : w \in Elems(fused_order)}

\* The context order leaves no tie: two neighbours of one winner are in its document
\* at different positions.
LEMMA ByWinnerIsStrict ==
  ASSUME TypeOK
  PROVE  Reached \subseteq Chunk /\ StrictOrder(Reached, ByWinner(Reached))
<1> DEFINE rank(c) == BroughtBy(c)
           won(c)  == fused_order[rank(c)] = c
<1>1. Elems(fused_order) \subseteq Chunk
  BY ElemsOfSeq DEF TypeOK
<1>2. Reached \subseteq Chunk
  BY <1>1 DEF Reached, Brought, Neighbours
<1>3. ASSUME NEW c \in Reached
      PROVE  /\ rank(c) \in DOMAIN fused_order /\ rank(c) \in Int
             /\ c \in Brought(fused_order[rank(c)])
  BY BroughtByFirst DEF Reached
<1>4. \A c, d \in Reached : <<c, d>> \in ByWinner(Reached) <=>
        \/ rank(c) < rank(d)
        \/ rank(c) = rank(d) /\ won(c) /\ ~won(d)
        \/ rank(c) = rank(d) /\ won(c) = won(d) /\ Ordinal[c] < Ordinal[d]
  BY DEF ByWinner
<1>5. \A c \in Reached : Ordinal[c] \in Int
  BY <1>2, CorpusAssumption
<1>6. ASSUME NEW c \in Reached, NEW d \in Reached, rank(c) = rank(d),
             won(c) = won(d), Ordinal[c] = Ordinal[d]
      PROVE  c = d
  <2>1. CASE won(c)
    BY <1>6, <2>1
  <2>2. CASE ~won(c)
    <3> DEFINE w == fused_order[rank(c)]
    <3>1. c \in Neighbours(w, Span) /\ d \in Neighbours(w, Span)
      BY <1>3, <1>6, <2>2 DEF Brought
    <3>2. DocKey(c) = DocKey(d)
      BY <3>1 DEF Neighbours
    <3> QED BY <1>2, <1>6, <3>2, CorpusAssumption DEF DocKey
  <2> QED BY <2>1, <2>2
<1> HIDE DEF rank, won
<1>7. \A c \in Reached : rank(c) \in Int /\ won(c) \in BOOLEAN
  BY <1>3 DEF won
<1>8. StrictOrder(Reached, ByWinner(Reached))
  <2>1. \A c \in Reached : <<c, c>> \notin ByWinner(Reached)
    BY <1>4, <1>5, <1>7
  <2>2. \A c, d \in Reached :
          c # d => <<c, d>> \in ByWinner(Reached) \/ <<d, c>> \in ByWinner(Reached)
    BY <1>4, <1>5, <1>6, <1>7
  <2>3. \A c, d, e \in Reached :
          <<c, d>> \in ByWinner(Reached) /\ <<d, e>> \in ByWinner(Reached)
            => <<c, e>> \in ByWinner(Reached)
    BY <1>4, <1>5, <1>7
  <2> QED BY <2>1, <2>2, <2>3 DEF StrictOrder
<1> QED BY <1>2, <1>8

\* The context is made of candidates that a winner brought along.
LEMMA SelectedType ==
  ASSUME TypeOK
  PROVE  /\ Selected \in Seq(Chunk)
         /\ Elems(Selected) \subseteq Elems(fused_order) \cup candidates
<1>1. Reached \subseteq Chunk /\ StrictOrder(Reached, ByWinner(Reached))
  BY ByWinnerIsStrict
<1>2. IsFiniteSet(Reached)
  BY <1>1, CorpusAssumption, FS_Subset
<1>3. Sorted(Reached, ByWinner(Reached)) \in Seq(Reached)
  BY <1>1, <1>2, SortedIsPermutation
<1>4. cfg.max_context_chunks \in Nat
  BY PipelineAssumption DEF TypeOK, Config
<1>5. Selected \in Seq(Reached)
  BY <1>3, <1>4, PrefixOfSeq DEF Selected, Reached
<1>6. Selected \in Seq(Chunk) /\ Elems(Selected) \subseteq Reached
  BY <1>1, <1>5, SeqMonotonic, ElemsOfSeq
<1>7. Reached \subseteq Elems(fused_order) \cup candidates
  BY DEF Reached, Brought
<1> QED BY <1>6, <1>7

-----------------------------------------------------------------------------
(* What a stage leaves behind.                                             *)

Step == StageName \cup {"emit_fused", "finalize", "trace", "failed", "done", "raised"}

LEMMA ReportType ==
  ASSUME TypeOK, NEW name \in StageName, NEW outcome \in {"ran", "skipped", "error"},
         NEW reason \in SkipReason \cup Exception \cup {None}, NEW emitted \in Seq(Event),
         Report(name, outcome, reason, emitted)
  PROVE  /\ records' \in Seq(Record)
         /\ events' \in Seq(Event)
         /\ Elems(records') =
              Elems(records) \cup {[name |-> name, outcome |-> outcome, reason |-> reason]}
<1> DEFINE r == [name |-> name, outcome |-> outcome, reason |-> reason]
           e == [type |-> "stage", of |-> name]
<1>1. r \in Record
  BY DEF Record
<1>2. e \in Event
  BY DEF Event
<1>3. records \in Seq(Record) /\ events \in Seq(Event)
  BY DEF TypeOK
<1>4. records' = Append(records, r) /\ events' = events \o emitted \o <<e>>
  BY DEF Report
<1>5. records' \in Seq(Record) /\ Elems(records') = Elems(records) \cup {r}
  BY <1>1, <1>3, <1>4, AppendProperties, ElemsOfAppend
<1>6. events' \in Seq(Event)
  BY <1>2, <1>3, <1>4, ConcatProperties
<1> QED BY <1>5, <1>6

LEMMA SkipType ==
  ASSUME TypeOK, NEW name \in StageName, NEW reason \in SkipReason, Skip(name, reason)
  PROVE  /\ pc' \in Step /\ records' \in Seq(Record) /\ events' \in Seq(Event)
         /\ Elems(records') = Elems(records) \cup
              {[name |-> name, outcome |-> "skipped", reason |-> reason]}
<1>1. <<>> \in Seq(Event)
  BY EmptySeq
<1> QED BY <1>1, ReportType, StageNames DEF Skip, Step

LEMMA RanType ==
  ASSUME TypeOK, NEW name \in StageName, NEW emitted \in Seq(Event), Ran(name, emitted)
  PROVE  /\ pc' \in Step /\ records' \in Seq(Record) /\ events' \in Seq(Event)
         /\ Elems(records') = Elems(records) \cup
              {[name |-> name, outcome |-> "ran", reason |-> None]}
BY ReportType, StageNames DEF Ran, Step

\* The stages that emit no event of their own.
LEMMA RanQuietly ==
  ASSUME TypeOK, NEW name \in StageName, Ran(name, <<>>)
  PROVE  /\ pc' \in Step /\ records' \in Seq(Record) /\ events' \in Seq(Event)
         /\ Elems(records') = Elems(records) \cup
              {[name |-> name, outcome |-> "ran", reason |-> None]}
<1>1. <<>> \in Seq(Event)
  BY EmptySeq
<1> QED BY <1>1, RanType

LEMMA RaisedType ==
  ASSUME TypeOK, NEW name \in StageName, NEW error \in Exception, Raised(name, error)
  PROVE  /\ pc' \in Step /\ records' \in Seq(Record) /\ events' \in Seq(Event)
         /\ Elems(records') = Elems(records) \cup
              {[name |-> name, outcome |-> "error", reason |-> error]}
<1>1. <<>> \in Seq(Event)
  BY EmptySeq
<1> QED BY <1>1, ReportType DEF Raised, Step

-----------------------------------------------------------------------------
(* Type correctness.                                                       *)

LEMMA InitType == Init => TypeOK
<1> SUFFICES ASSUME Init PROVE TypeOK
  OBVIOUS
<1>1. [cfg |-> cfg, tenant |-> tenant, history |-> history, generate |-> generate]
        \in Requests
  <2>1. PICK r \in Requests : /\ cfg = r.cfg /\ tenant = r.tenant
                              /\ history = r.history /\ generate = r.generate
    BY DEF Init
  <2>2. r = [cfg |-> r.cfg, tenant |-> r.tenant, history |-> r.history,
             generate |-> r.generate]
    BY PipelineAssumption
  <2> QED BY <2>1, <2>2
<1>2. /\ <<>> \in Seq(Chunk) /\ <<>> \in Seq(Record) /\ <<>> \in Seq(Event)
  BY EmptySeq
<1> QED BY <1>1, <1>2, StageNames DEF Init, TypeOK, None, Unscored

\* The stages that change at most a flag or the gate's reading.
LEMMA RewriteType == TypeOK /\ Rewrite => TypeOK'
<1> SUFFICES ASSUME TypeOK, Rewrite PROVE TypeOK'
  OBVIOUS
<1>1. /\ pc' \in Step /\ records' \in Seq(Record) /\ events' \in Seq(Event)
      /\ rewritten' \in BOOLEAN
  <2>1. CASE RewriteSkip # None /\ Skip("rewrite", RewriteSkip) /\ UNCHANGED rewritten
    <3>1. RewriteSkip \in SkipReason
      BY <2>1 DEF RewriteSkip, SkipReason
    <3> QED BY <2>1, <3>1, SkipType, StageNames DEF TypeOK
  <2>2. CASE Ran("rewrite", <<>>) /\ rewritten' \in BOOLEAN
    BY <2>2, RanQuietly, StageNames
  <2>3. CASE Raised("rewrite", "ProviderError") /\ UNCHANGED rewritten
    BY <2>3, RaisedType, StageNames DEF Exception, TypeOK
  <2> QED BY <2>1, <2>2, <2>3 DEF Rewrite
<1> QED BY <1>1 DEF Rewrite, TypeOK, Step, request, dense, sparse, fused, gated, labels

LEMMA EmbedType == TypeOK /\ Embed => TypeOK'
<1> SUFFICES ASSUME TypeOK, Embed PROVE TypeOK'
  OBVIOUS
<1>1. /\ pc' \in Step /\ records' \in Seq(Record) /\ events' \in Seq(Event)
      /\ embedded' \in BOOLEAN
  <2>1. CASE Skip("embed", "ablated") /\ UNCHANGED embedded
    BY <2>1, SkipType, StageNames DEF TypeOK, SkipReason
  <2>2. CASE Ran("embed", <<>>) /\ embedded' = TRUE
    BY <2>2, RanQuietly, StageNames
  <2>3. CASE Raised("embed", "ProviderError") /\ UNCHANGED embedded
    BY <2>3, RaisedType, StageNames DEF Exception, TypeOK
  <2> QED BY <2>1, <2>2, <2>3 DEF Embed
<1> QED BY <1>1 DEF Embed, TypeOK, Step, request, dense, sparse, fused, gated, labels

\* What a leg that searched leaves: all its hits, and nobody else's.
LEMMA LegType ==
  ASSUME TypeOK, NEW score \in [Scope(tenant) -> Nat], NEW hits \in Seq(Scope(tenant)),
         NEW name \in StageName, NEW leg \in {"semantic", "lexical"},
         Retrieved(name, leg, hits)
  PROVE  LET seen == Elems(Admitted(hits))
         IN  /\ Admitted(hits) \in Seq(Chunk)
             /\ seen \subseteq Permitted(tenant)
             /\ seen \subseteq Chunk
             /\ [c \in Chunk |-> IF c \in seen THEN score[c] ELSE 0] \in [Chunk -> Nat]
             /\ pc' \in Step /\ records' \in Seq(Record) /\ events' \in Seq(Event)
             /\ Elems(records') = Elems(records) \cup
                  {[name |-> name, outcome |-> "ran", reason |-> None]}
<1> DEFINE e == [type |-> "candidates", of |-> leg]
<1>1. /\ Admitted(hits) = hits /\ hits \in Seq(Chunk)
      /\ Elems(hits) \subseteq Permitted(tenant)
  BY HitsAreAdmitted
<1>2. Elems(hits) \subseteq Chunk /\ Elems(hits) \subseteq Scope(tenant)
  BY <1>1, ScopeIsPermitted DEF Permitted
<1>3. Ran(name, <<e>>)
  BY <1>1 DEF Retrieved
<1>4. <<e>> \in Seq(Event)
  BY DEF Event
<1>5. [c \in Chunk |-> IF c \in Elems(hits) THEN score[c] ELSE 0] \in [Chunk -> Nat]
  BY <1>2
<1>6. /\ pc' \in Step /\ records' \in Seq(Record) /\ events' \in Seq(Event)
      /\ Elems(records') = Elems(records) \cup
           {[name |-> name, outcome |-> "ran", reason |-> None]}
  BY <1>3, <1>4, RanType
<1> QED BY <1>1, <1>2, <1>5, <1>6

LEMMA RetrieveDenseType == TypeOK /\ RetrieveDense => TypeOK'
<1> SUFFICES ASSUME TypeOK, RetrieveDense PROVE TypeOK'
  OBVIOUS
<1> DEFINE Typed ==
             /\ pc' \in Step /\ records' \in Seq(Record) /\ events' \in Seq(Event)
             /\ candidates' \subseteq Chunk
             /\ semantic_order' \in Seq(Chunk) /\ semantic_score' \in [Chunk -> Nat]
<1>1. Typed
  <2>1. CASE /\ DenseSkip # None
             /\ Skip("retrieve_dense", DenseSkip)
             /\ UNCHANGED <<candidates, dense>>
    <3>1. DenseSkip \in SkipReason
      BY <2>1 DEF DenseSkip, SkipReason
    <3> QED BY <2>1, <3>1, SkipType, StageNames DEF TypeOK, dense
  <2>2. ASSUME NEW score \in [Scope(tenant) -> SemanticScores],
               NEW hits \in {Search(tenant, score, TopK)}
                              \cup ServerHits(tenant, score, TopK),
               LET seen == Elems(Admitted(hits))
               IN  /\ candidates' = candidates \cup seen
                   /\ semantic_order' = Admitted(hits)
                   /\ semantic_score' = [c \in Chunk |-> IF c \in seen THEN score[c] ELSE 0]
                   /\ Retrieved("retrieve_dense", "semantic", hits)
        PROVE  Typed
    <3>1. score \in [Scope(tenant) -> Nat]
      BY PipelineAssumption
    <3>2. hits \in Seq(Scope(tenant))
      BY <3>1, HitsStayInScope
    <3> QED BY <2>2, <3>1, <3>2, LegType, StageNames DEF TypeOK
  <2>3. CASE Raised("retrieve_dense", "ProviderError") /\ UNCHANGED <<candidates, dense>>
    BY <2>3, RaisedType, StageNames DEF Exception, TypeOK, dense
  <2> QED BY <2>1, <2>2, <2>3 DEF RetrieveDense
<1> QED BY <1>1 DEF RetrieveDense, TypeOK, Step, request, query, sparse, fused, gated, labels

LEMMA RetrieveSparseType == TypeOK /\ RetrieveSparse => TypeOK'
<1> SUFFICES ASSUME TypeOK, RetrieveSparse PROVE TypeOK'
  OBVIOUS
<1> DEFINE Typed ==
             /\ pc' \in Step /\ records' \in Seq(Record) /\ events' \in Seq(Event)
             /\ candidates' \subseteq Chunk
             /\ lexical_order' \in Seq(Chunk) /\ lexical_score' \in [Chunk -> Nat]
<1>1. Typed
  <2>1. CASE Skip("retrieve_sparse", "ablated") /\ UNCHANGED <<candidates, sparse>>
    BY <2>1, SkipType, StageNames DEF TypeOK, sparse, SkipReason
  <2>2. ASSUME NEW score \in [Scope(tenant) -> LexicalScores],
               LET hits == Search(tenant, score, TopK)
                   seen == Elems(Admitted(hits))
               IN  /\ candidates' = candidates \cup seen
                   /\ lexical_order' = Admitted(hits)
                   /\ lexical_score' = [c \in Chunk |-> IF c \in seen THEN score[c] ELSE 0]
                   /\ Retrieved("retrieve_sparse", "lexical", hits)
        PROVE  Typed
    <3>1. score \in [Scope(tenant) -> Nat]
      BY PipelineAssumption
    <3>2. Search(tenant, score, TopK) \in Seq(Scope(tenant))
      BY <3>1, HitsStayInScope
    <3> QED BY <2>2, <3>1, <3>2, LegType, StageNames DEF TypeOK
  <2>3. CASE Raised("retrieve_sparse", "ValueError") /\ UNCHANGED <<candidates, sparse>>
    BY <2>3, RaisedType, StageNames DEF Exception, TypeOK, sparse
  <2> QED BY <2>1, <2>2, <2>3 DEF RetrieveSparse
<1> QED BY <1>1 DEF RetrieveSparse, TypeOK, Step, request, query, dense, fused, gated, labels

\* A ranking of candidates is a permutation of them.
LEMMA FuseRanks ==
  ASSUME TypeOK, NEW score \in [Chunk -> Nat]
  PROVE  LET order == Sorted(candidates, ByScore(score))
         IN  /\ order \in Seq(Chunk)
             /\ Elems(order) = candidates
             /\ Len(order) = Cardinality(candidates)
<1>1. candidates \in SUBSET Chunk /\ IsFiniteSet(candidates)
  BY CorpusAssumption, FS_Subset DEF TypeOK
<1>2. StrictOrder(candidates, ByScore(score))
  BY <1>1, ByScoreIsStrict
<1> QED BY <1>1, <1>2, SortedIsPermutation, SeqMonotonic

LEMMA FuseType == TypeOK /\ Fuse => TypeOK'
<1> SUFFICES ASSUME TypeOK, Fuse PROVE TypeOK'
  OBVIOUS
<1>1. /\ pc' \in Step /\ records' \in Seq(Record) /\ events' \in Seq(Event)
      /\ fused_order' \in Seq(Chunk) /\ fused_score' \in [Chunk -> Nat]
  <2>1. CASE Skip("fuse", "no_candidates") /\ UNCHANGED fused
    BY <2>1, SkipType, StageNames DEF TypeOK, fused, SkipReason
  <2>2. CASE /\ fused_score' = [c \in Chunk |-> IF c \in candidates THEN FusedScore(c) ELSE 0]
             /\ fused_order' = Sorted(candidates, ByScore(fused_score'))
             /\ Ran("fuse", <<>>)
    <3>1. fused_score' \in [Chunk -> Nat]
      BY <2>2, FusedScoreType
    <3>2. fused_order' \in Seq(Chunk)
      BY <2>2, <3>1, FuseRanks
    <3> QED BY <2>2, <3>1, <3>2, RanQuietly, StageNames
  <2> QED BY <2>1, <2>2 DEF Fuse
<1> QED BY <1>1 DEF Fuse, TypeOK, Step, request, query, dense, sparse, gated, labels

LEMMA GateType == TypeOK /\ Gate => TypeOK'
<1> SUFFICES ASSUME TypeOK, Gate PROVE TypeOK'
  OBVIOUS
<1> DEFINE Typed ==
             /\ pc' \in Step /\ records' \in Seq(Record) /\ events' \in Seq(Event)
             /\ gate_signal' \in Signal \cup {None} /\ gate_passed' \in BOOLEAN
             /\ rejected_by' \in [Chunk -> {None, "gate", "top_k"}]
             /\ answer' \in {None, "refused", "grounded", "ungrounded"}
<1>1. Typed
  <2>1. CASE /\ GateSkip # None
             /\ Skip("gate", GateSkip)
             /\ UNCHANGED <<gated, rejected_by, answer>>
    <3>1. GateSkip \in SkipReason
      BY <2>1 DEF GateSkip, SkipReason
    <3> QED BY <2>1, <3>1, SkipType, StageNames DEF TypeOK, gated
  <2>2. CASE /\ gate_signal' = cfg.reads
             /\ gate_passed' = (Top(cfg.reads, 1) >= cfg.threshold)
             /\ rejected_by' = IF gate_passed' THEN rejected_by
                               ELSE [c \in Chunk |-> IF c \in candidates THEN "gate"
                                                     ELSE rejected_by[c]]
             /\ answer' = IF gate_passed' THEN answer ELSE "refused"
             /\ Ran("gate", <<>>)
    <3>1. cfg.reads \in Signal
      BY PipelineAssumption DEF TypeOK, Config
    <3>2. /\ rejected_by' \in [Chunk -> {None, "gate", "top_k"}]
          /\ answer' \in {None, "refused", "grounded", "ungrounded"}
      BY <2>2 DEF TypeOK
    <3>3. gate_passed' \in BOOLEAN
      BY <2>2
    <3> QED BY <2>2, <3>1, <3>2, <3>3, RanQuietly, StageNames
  <2> QED BY <2>1, <2>2 DEF Gate
<1> QED BY <1>1 DEF Gate, TypeOK, Step, request, query, dense, sparse, fused

LEMMA EmitFusedType == TypeOK /\ EmitFused => TypeOK'
<1> SUFFICES ASSUME TypeOK, EmitFused PROVE TypeOK'
  OBVIOUS
<1>1. [type |-> "fused", of |-> gate_signal] \in Event
  BY DEF TypeOK, Event
<1>2. events' \in Seq(Event)
  BY <1>1, AppendProperties DEF EmitFused, TypeOK
<1>3. pc' \in Step
  BY StageNames DEF EmitFused, Step
<1> QED BY <1>2, <1>3 DEF EmitFused, TypeOK, Step, request, query, dense, sparse, fused,
                          gated, labels

\* Reranking permutes the ranking, whatever the reranker says.
LEMMA RerankRanks ==
  ASSUME TypeOK, NEW score \in [Chunk -> Nat \cup {Unscored}]
  PROVE  /\ Reranked(score) \in Seq(Chunk)
         /\ Elems(Reranked(score)) = Elems(fused_order)
         /\ Len(Reranked(score)) = Cardinality(Elems(fused_order))
         /\ \A i, j \in DOMAIN Reranked(score) :
              i < j => <<Reranked(score)[i], Reranked(score)[j]>> \in ByRerank(score)
<1>1. Elems(fused_order) \in SUBSET Chunk /\ IsFiniteSet(Elems(fused_order))
  BY ElemsOfSeq, CorpusAssumption, FS_Subset DEF TypeOK
<1>2. StrictOrder(Elems(fused_order), ByRerank(score))
  BY <1>1, ByRerankIsStrict
<1> QED BY <1>1, <1>2, SortedIsPermutation, SeqMonotonic DEF Reranked

LEMMA RerankType == TypeOK /\ Rerank => TypeOK'
<1> SUFFICES ASSUME TypeOK, Rerank PROVE TypeOK'
  OBVIOUS
<1> DEFINE Reason == {None, "fused_top_k", "rerank_promoted", "neighbor_expansion"}
           Typed ==
             /\ pc' \in Step /\ records' \in Seq(Record) /\ events' \in Seq(Event)
             /\ fused_order' \in Seq(Chunk)
             /\ rerank_score' \in [Chunk -> Nat \cup {Unscored}]
             /\ inclusion_reason' \in [Chunk -> Reason]
<1>1. Typed
  <2>1. CASE /\ RerankSkip # None
             /\ Skip("rerank", RerankSkip)
             /\ UNCHANGED <<fused_order, rerank_score, inclusion_reason>>
    <3>1. RerankSkip \in SkipReason
      BY <2>1 DEF RerankSkip, SkipReason
    <3> QED BY <2>1, <3>1, SkipType, StageNames DEF TypeOK
  <2>2. ASSUME NEW scored \in SUBSET Elems(Prefix(fused_order, TopN)),
               NEW reply \in [scored -> RerankScores],
               rerank_score' = [c \in Chunk |-> IF c \in scored THEN reply[c]
                                                ELSE rerank_score[c]],
               fused_order' = Reranked(rerank_score'),
               inclusion_reason' =
                 [c \in Chunk |->
                    IF c \in scored /\ RankIn(fused_order', c) < RankIn(fused_order, c)
                    THEN "rerank_promoted" ELSE inclusion_reason[c]],
               Ran("rerank", <<>>)
        PROVE  Typed
    <3>1. rerank_score' \in [Chunk -> Nat \cup {Unscored}]
      BY <2>2, PipelineAssumption DEF TypeOK
    <3>2. fused_order' \in Seq(Chunk)
      BY <2>2, <3>1, RerankRanks
    <3>3. inclusion_reason' \in [Chunk -> Reason]
      BY <2>2 DEF TypeOK
    <3> QED BY <2>2, <3>1, <3>2, <3>3, RanQuietly, StageNames
  <2>3. CASE /\ Raised("rerank", "ProviderError")
             /\ UNCHANGED <<fused_order, rerank_score, inclusion_reason>>
    BY <2>3, RaisedType, StageNames DEF Exception, TypeOK
  <2> QED BY <2>1, <2>2, <2>3 DEF Rerank
<1> QED BY <1>1 DEF Rerank, TypeOK, Step, request, query, dense, sparse, gated

LEMMA ExpandType == TypeOK /\ Expand => TypeOK'
<1> SUFFICES ASSUME TypeOK, Expand PROVE TypeOK'
  OBVIOUS
<1> DEFINE Reason == {None, "fused_top_k", "rerank_promoted", "neighbor_expansion"}
           new == Expansion \ candidates
           admitted == new \cap Permitted(tenant)
           Typed ==
             /\ pc' \in Step /\ records' \in Seq(Record) /\ events' \in Seq(Event)
             /\ candidates' \subseteq Chunk
             /\ inclusion_reason' \in [Chunk -> Reason]
             /\ rejected_by' = rejected_by
<1>1. Typed
  <2>1. CASE ExpandSkip # None /\ Skip("expand", ExpandSkip) /\ UNCHANGED <<candidates, labels>>
    <3>1. ExpandSkip \in SkipReason
      BY <2>1 DEF ExpandSkip, SkipReason
    <3> QED BY <2>1, <3>1, SkipType, StageNames DEF TypeOK, labels
  <2>2. CASE /\ candidates' = candidates \cup admitted
             /\ inclusion_reason' = [c \in Chunk |-> IF c \in admitted
                                                     THEN "neighbor_expansion"
                                                     ELSE inclusion_reason[c]]
             /\ IF admitted = new THEN Ran("expand", <<>>)
                ELSE Raised("expand", "PermissionError")
             /\ UNCHANGED rejected_by
    <3>1. candidates' \subseteq Chunk
      BY <2>2 DEF TypeOK, Permitted
    <3>2. inclusion_reason' \in [Chunk -> Reason]
      BY <2>2 DEF TypeOK
    <3>3. /\ pc' \in Step /\ records' \in Seq(Record) /\ events' \in Seq(Event)
      <4>1. CASE Ran("expand", <<>>)
        BY <4>1, RanQuietly, StageNames
      <4>2. CASE Raised("expand", "PermissionError")
        BY <4>2, RaisedType, StageNames DEF Exception
      <4> QED BY <2>2, <4>1, <4>2
    <3> QED BY <2>2, <3>1, <3>2, <3>3
  <2> QED BY <2>1, <2>2 DEF Expand
<1> QED BY <1>1 DEF Expand, TypeOK, Step, request, query, dense, sparse, fused, gated

LEMMA FinalizeType == TypeOK /\ Finalize => TypeOK'
<1> SUFFICES ASSUME TypeOK, Finalize PROVE TypeOK'
  OBVIOUS
<1> DEFINE Reason == {None, "fused_top_k", "rerank_promoted", "neighbor_expansion"}
<1>1. pc' \in Step
  BY StageNames DEF Finalize, Step
<1>2. /\ context_ids' \in Seq(Chunk)
      /\ rejected_by' \in [Chunk -> {None, "gate", "top_k"}]
      /\ inclusion_reason' \in [Chunk -> Reason]
  <2>1. CASE UNCHANGED <<context_ids, labels>>
    BY <2>1 DEF TypeOK, labels
  <2>2. CASE /\ context_ids' = Selected
             /\ LET chosen == Elems(context_ids')
                IN  /\ rejected_by' = Rejections(chosen)
                    /\ inclusion_reason' = [c \in Chunk |->
                         IF c \in chosen /\ inclusion_reason[c] = None THEN "fused_top_k"
                         ELSE inclusion_reason[c]]
    BY <2>2, SelectedType DEF TypeOK, Rejections
  <2> QED BY <2>1, <2>2 DEF Finalize
<1> QED BY <1>1, <1>2 DEF Finalize, TypeOK, Step, request, query, dense, sparse, fused,
                          gated, reported

LEMMA GenerateType == TypeOK /\ Generate => TypeOK'
<1> SUFFICES ASSUME TypeOK, Generate PROVE TypeOK'
  OBVIOUS
<1>1. /\ pc' \in Step /\ records' \in Seq(Record) /\ events' \in Seq(Event)
      /\ answer' \in {None, "refused", "grounded", "ungrounded"}
  <2>1. CASE Skip("generate", "already_refused") /\ UNCHANGED answer
    BY <2>1, SkipType, StageNames DEF TypeOK, SkipReason
  <2>2. CASE Ran("generate", <<>>) /\ answer' \in Replies
    BY <2>2, RanQuietly, StageNames DEF Replies
  <2>3. CASE Raised("generate", "ProviderError") /\ UNCHANGED answer
    BY <2>3, RaisedType, StageNames DEF Exception, TypeOK
  <2> QED BY <2>1, <2>2, <2>3 DEF Generate
<1> QED BY <1>1 DEF Generate, TypeOK, Step, request, query, dense, sparse, fused, gated,
                    labels

\* The two ends of a run differ only in their event.
LEMMA EndType == TypeOK /\ (Done \/ Fail) => TypeOK'
<1> SUFFICES ASSUME TypeOK, Done \/ Fail PROVE TypeOK'
  OBVIOUS
<1>1. PICK type \in {"done", "error"} : events' = Append(events, [type |-> type, of |-> None])
  BY DEF Done, Fail
<1>2. [type |-> type, of |-> None] \in Event
  BY DEF Event
<1>3. events' \in Seq(Event)
  BY <1>1, <1>2, AppendProperties DEF TypeOK
<1>4. pc' \in Step
  BY DEF Done, Fail, Step
<1> QED BY <1>3, <1>4 DEF Done, Fail, TypeOK, Step, request, query, dense, sparse, fused,
                          gated, labels

\* The variables of a run keep their types, whatever the models score and reply:
\* in particular every ranking stays a list of chunks through the three sorts of
\* fuse.py, rerank.py and expand.py.
THEOREM TypeInvariant == Spec => []TypeOK
<1>1. TypeOK /\ [Next]_vars => TypeOK'
  <2>1. TypeOK /\ UNCHANGED vars => TypeOK'
    BY DEF TypeOK, vars, request, query, dense, sparse, fused, gated, labels, reported
  <2> QED BY <2>1, RewriteType, EmbedType, RetrieveDenseType, RetrieveSparseType,
             FuseType, GateType, EmitFusedType, RerankType, ExpandType, FinalizeType,
             GenerateType, EndType DEF Next
<1> QED BY <1>1, InitType, PTL DEF Spec

-----------------------------------------------------------------------------
(* The tenant boundary.                                                    *)

\* The strengthening: whatever is ranked or in the context is a candidate, so that
\* expansion starts from permitted chunks.
RankedAreCandidates ==
  /\ Elems(semantic_order) \cup Elems(lexical_order) \subseteq candidates
  /\ Elems(fused_order) \subseteq candidates
  /\ Elems(context_ids) \subseteq candidates

TenantInv == TypeOK /\ RankedAreCandidates /\ TenantBoundary

LEMMA InitTenant == Init => RankedAreCandidates /\ TenantBoundary
<1>1. Elems(<<>>) = {}
  BY DEF Elems
<1> QED BY <1>1 DEF Init, RankedAreCandidates, TenantBoundary

LEMMA NoReason == None # "PermissionError"
BY DEF None

\* The stages that touch no candidate and no order.
LEMMA QuietTenant ==
  ASSUME TenantInv,
         UNCHANGED <<tenant, candidates, dense, sparse, fused, context_ids>>,
         \A r \in Elems(records') : r \in Elems(records) \/ r.reason # "PermissionError"
  PROVE  RankedAreCandidates' /\ TenantBoundary'
BY DEF TenantInv, RankedAreCandidates, TenantBoundary, dense, sparse, fused

LEMMA RewriteTenant == TenantInv /\ Rewrite => RankedAreCandidates' /\ TenantBoundary'
<1> SUFFICES ASSUME TenantInv, Rewrite PROVE RankedAreCandidates' /\ TenantBoundary'
  OBVIOUS
<1>1. TypeOK
  BY DEF TenantInv
<1>2. \A r \in Elems(records') : r \in Elems(records) \/ r.reason # "PermissionError"
  <2>1. CASE RewriteSkip # None /\ Skip("rewrite", RewriteSkip)
    <3>1. RewriteSkip \in SkipReason
      BY <2>1 DEF RewriteSkip, SkipReason
    <3> QED BY <1>1, <2>1, <3>1, SkipType, StageNames DEF SkipReason
  <2>2. CASE Ran("rewrite", <<>>)
    BY <1>1, <2>2, RanQuietly, NoReason, StageNames
  <2>3. CASE Raised("rewrite", "ProviderError")
    BY <1>1, <2>3, RaisedType, StageNames DEF Exception
  <2> QED BY <2>1, <2>2, <2>3 DEF Rewrite
<1> QED BY <1>2, QuietTenant DEF Rewrite, request

LEMMA EmbedTenant == TenantInv /\ Embed => RankedAreCandidates' /\ TenantBoundary'
<1> SUFFICES ASSUME TenantInv, Embed PROVE RankedAreCandidates' /\ TenantBoundary'
  OBVIOUS
<1>1. TypeOK
  BY DEF TenantInv
<1>2. \A r \in Elems(records') : r \in Elems(records) \/ r.reason # "PermissionError"
  <2>1. CASE Skip("embed", "ablated")
    BY <1>1, <2>1, SkipType, StageNames DEF SkipReason
  <2>2. CASE Ran("embed", <<>>)
    BY <1>1, <2>2, RanQuietly, NoReason, StageNames
  <2>3. CASE Raised("embed", "ProviderError")
    BY <1>1, <2>3, RaisedType, StageNames DEF Exception
  <2> QED BY <2>1, <2>2, <2>3 DEF Embed
<1> QED BY <1>2, QuietTenant DEF Embed, request

LEMMA GateTenant == TenantInv /\ Gate => RankedAreCandidates' /\ TenantBoundary'
<1> SUFFICES ASSUME TenantInv, Gate PROVE RankedAreCandidates' /\ TenantBoundary'
  OBVIOUS
<1>1. TypeOK
  BY DEF TenantInv
<1>2. \A r \in Elems(records') : r \in Elems(records) \/ r.reason # "PermissionError"
  <2>1. CASE GateSkip # None /\ Skip("gate", GateSkip)
    <3>1. GateSkip \in SkipReason
      BY <2>1 DEF GateSkip, SkipReason
    <3> QED BY <1>1, <2>1, <3>1, SkipType, StageNames DEF SkipReason
  <2>2. CASE Ran("gate", <<>>)
    BY <1>1, <2>2, RanQuietly, NoReason, StageNames
  <2> QED BY <2>1, <2>2 DEF Gate
<1> QED BY <1>2, QuietTenant DEF Gate, request

LEMMA GenerateTenant == TenantInv /\ Generate => RankedAreCandidates' /\ TenantBoundary'
<1> SUFFICES ASSUME TenantInv, Generate PROVE RankedAreCandidates' /\ TenantBoundary'
  OBVIOUS
<1>1. TypeOK
  BY DEF TenantInv
<1>2. \A r \in Elems(records') : r \in Elems(records) \/ r.reason # "PermissionError"
  <2>1. CASE Skip("generate", "already_refused")
    BY <1>1, <2>1, SkipType, StageNames DEF SkipReason
  <2>2. CASE Ran("generate", <<>>)
    BY <1>1, <2>2, RanQuietly, NoReason, StageNames
  <2>3. CASE Raised("generate", "ProviderError")
    BY <1>1, <2>3, RaisedType, StageNames DEF Exception
  <2> QED BY <2>1, <2>2, <2>3 DEF Generate
<1> QED BY <1>2, QuietTenant DEF Generate, request

LEMMA RetrieveDenseTenant ==
  TenantInv /\ RetrieveDense => RankedAreCandidates' /\ TenantBoundary'
<1> SUFFICES ASSUME TenantInv, RetrieveDense PROVE RankedAreCandidates' /\ TenantBoundary'
  OBVIOUS
<1>1. TypeOK
  BY DEF TenantInv
<1> DEFINE Held ==
             /\ candidates \subseteq candidates' /\ candidates' \subseteq Permitted(tenant)
             /\ Elems(semantic_order') \subseteq candidates'
             /\ \A r \in Elems(records') : r \in Elems(records) \/ r.reason # "PermissionError"
<1>2. Held
  <2>1. CASE /\ DenseSkip # None
             /\ Skip("retrieve_dense", DenseSkip)
             /\ UNCHANGED <<candidates, dense>>
    <3>1. DenseSkip \in SkipReason
      BY <2>1 DEF DenseSkip, SkipReason
    <3> QED BY <1>1, <2>1, <3>1, SkipType, StageNames
            DEF SkipReason, dense, TenantInv, RankedAreCandidates, TenantBoundary
  <2>2. ASSUME NEW score \in [Scope(tenant) -> SemanticScores],
               NEW hits \in {Search(tenant, score, TopK)}
                              \cup ServerHits(tenant, score, TopK),
               LET seen == Elems(Admitted(hits))
               IN  /\ candidates' = candidates \cup seen
                   /\ semantic_order' = Admitted(hits)
                   /\ Retrieved("retrieve_dense", "semantic", hits)
        PROVE  Held
    <3>1. score \in [Scope(tenant) -> Nat]
      BY PipelineAssumption
    <3>2. hits \in Seq(Scope(tenant))
      BY <3>1, HitsStayInScope
    <3> QED BY <1>1, <2>2, <3>1, <3>2, LegType, StageNames
            DEF None, TenantInv, RankedAreCandidates, TenantBoundary
  <2>3. CASE Raised("retrieve_dense", "ProviderError") /\ UNCHANGED <<candidates, dense>>
    BY <1>1, <2>3, RaisedType, StageNames
       DEF Exception, dense, TenantInv, RankedAreCandidates, TenantBoundary
  <2> QED BY <2>1, <2>2, <2>3 DEF RetrieveDense
<1> QED BY <1>2 DEF RetrieveDense, request, sparse, fused, TenantInv, RankedAreCandidates,
                    TenantBoundary

LEMMA RetrieveSparseTenant ==
  TenantInv /\ RetrieveSparse => RankedAreCandidates' /\ TenantBoundary'
<1> SUFFICES ASSUME TenantInv, RetrieveSparse PROVE RankedAreCandidates' /\ TenantBoundary'
  OBVIOUS
<1>1. TypeOK
  BY DEF TenantInv
<1> DEFINE Held ==
             /\ candidates \subseteq candidates' /\ candidates' \subseteq Permitted(tenant)
             /\ Elems(lexical_order') \subseteq candidates'
             /\ \A r \in Elems(records') : r \in Elems(records) \/ r.reason # "PermissionError"
<1>2. Held
  <2>1. CASE Skip("retrieve_sparse", "ablated") /\ UNCHANGED <<candidates, sparse>>
    BY <1>1, <2>1, SkipType, StageNames
       DEF SkipReason, sparse, TenantInv, RankedAreCandidates, TenantBoundary
  <2>2. ASSUME NEW score \in [Scope(tenant) -> LexicalScores],
               LET hits == Search(tenant, score, TopK)
                   seen == Elems(Admitted(hits))
               IN  /\ candidates' = candidates \cup seen
                   /\ lexical_order' = Admitted(hits)
                   /\ Retrieved("retrieve_sparse", "lexical", hits)
        PROVE  Held
    <3>1. score \in [Scope(tenant) -> Nat]
      BY PipelineAssumption
    <3>2. Search(tenant, score, TopK) \in Seq(Scope(tenant))
      BY <3>1, HitsStayInScope
    <3> QED BY <1>1, <2>2, <3>1, <3>2, LegType, StageNames
            DEF None, TenantInv, RankedAreCandidates, TenantBoundary
  <2>3. CASE Raised("retrieve_sparse", "ValueError") /\ UNCHANGED <<candidates, sparse>>
    BY <1>1, <2>3, RaisedType, StageNames
       DEF Exception, sparse, TenantInv, RankedAreCandidates, TenantBoundary
  <2> QED BY <2>1, <2>2, <2>3 DEF RetrieveSparse
<1> QED BY <1>2 DEF RetrieveSparse, request, dense, fused, TenantInv, RankedAreCandidates,
                    TenantBoundary

LEMMA FuseTenant == TenantInv /\ Fuse => RankedAreCandidates' /\ TenantBoundary'
<1> SUFFICES ASSUME TenantInv, Fuse PROVE RankedAreCandidates' /\ TenantBoundary'
  OBVIOUS
<1>1. TypeOK
  BY DEF TenantInv
<1>2. /\ Elems(fused_order') \subseteq candidates
      /\ \A r \in Elems(records') : r \in Elems(records) \/ r.reason # "PermissionError"
  <2>1. CASE Skip("fuse", "no_candidates") /\ UNCHANGED fused
    BY <1>1, <2>1, SkipType, StageNames
       DEF SkipReason, fused, TenantInv, RankedAreCandidates
  <2>2. CASE /\ fused_score' = [c \in Chunk |-> IF c \in candidates THEN FusedScore(c) ELSE 0]
             /\ fused_order' = Sorted(candidates, ByScore(fused_score'))
             /\ Ran("fuse", <<>>)
    <3>1. fused_score' \in [Chunk -> Nat]
      BY <1>1, <2>2, FusedScoreType
    <3>2. Elems(fused_order') = candidates
      BY <1>1, <2>2, <3>1, FuseRanks
    <3> QED BY <1>1, <2>2, <3>2, RanQuietly, NoReason, StageNames
  <2> QED BY <2>1, <2>2 DEF Fuse
<1> QED BY <1>2 DEF Fuse, request, dense, sparse, TenantInv, RankedAreCandidates,
                    TenantBoundary

LEMMA RerankTenant == TenantInv /\ Rerank => RankedAreCandidates' /\ TenantBoundary'
<1> SUFFICES ASSUME TenantInv, Rerank PROVE RankedAreCandidates' /\ TenantBoundary'
  OBVIOUS
<1>1. TypeOK
  BY DEF TenantInv
<1> DEFINE Held ==
             /\ Elems(fused_order') = Elems(fused_order)
             /\ \A r \in Elems(records') : r \in Elems(records) \/ r.reason # "PermissionError"
<1>2. Held
  <2>1. CASE /\ RerankSkip # None
             /\ Skip("rerank", RerankSkip)
             /\ UNCHANGED <<fused_order, rerank_score, inclusion_reason>>
    <3>1. RerankSkip \in SkipReason
      BY <2>1 DEF RerankSkip, SkipReason
    <3> QED BY <1>1, <2>1, <3>1, SkipType, StageNames DEF SkipReason
  <2>2. ASSUME NEW scored \in SUBSET Elems(Prefix(fused_order, TopN)),
               NEW reply \in [scored -> RerankScores],
               rerank_score' = [c \in Chunk |-> IF c \in scored THEN reply[c]
                                                ELSE rerank_score[c]],
               fused_order' = Reranked(rerank_score'),
               Ran("rerank", <<>>)
        PROVE  Held
    <3>1. rerank_score' \in [Chunk -> Nat \cup {Unscored}]
      BY <1>1, <2>2, PipelineAssumption DEF TypeOK
    <3>2. Elems(fused_order') = Elems(fused_order)
      BY <1>1, <2>2, <3>1, RerankRanks
    <3> QED BY <1>1, <2>2, <3>2, RanQuietly, NoReason, StageNames
  <2>3. CASE /\ Raised("rerank", "ProviderError")
             /\ UNCHANGED <<fused_order, rerank_score, inclusion_reason>>
    BY <1>1, <2>3, RaisedType, StageNames DEF Exception
  <2> QED BY <2>1, <2>2, <2>3 DEF Rerank
<1> QED BY <1>2 DEF Rerank, request, dense, sparse, TenantInv, RankedAreCandidates,
                    TenantBoundary

\* Expansion starts from candidates, and Neighbours stays with their owner, so the
\* check of ensure_candidate lets everything in.
LEMMA ExpandTenant == TenantInv /\ Expand => RankedAreCandidates' /\ TenantBoundary'
<1> SUFFICES ASSUME TenantInv, Expand PROVE RankedAreCandidates' /\ TenantBoundary'
  OBVIOUS
<1>1. TypeOK
  BY DEF TenantInv
<1> DEFINE new == Expansion \ candidates
           admitted == new \cap Permitted(tenant)
<1>2. /\ candidates \subseteq candidates' /\ candidates' \subseteq Permitted(tenant)
      /\ \A r \in Elems(records') : r \in Elems(records) \/ r.reason # "PermissionError"
  <2>1. CASE ExpandSkip # None /\ Skip("expand", ExpandSkip) /\ UNCHANGED <<candidates, labels>>
    <3>1. ExpandSkip \in SkipReason
      BY <2>1 DEF ExpandSkip, SkipReason
    <3> QED BY <1>1, <2>1, <3>1, SkipType, StageNames
            DEF SkipReason, TenantInv, TenantBoundary
  <2>2. CASE /\ candidates' = candidates \cup admitted
             /\ IF admitted = new THEN Ran("expand", <<>>)
                ELSE Raised("expand", "PermissionError")
    <3>1. fused_order \in Seq(Chunk) /\ cfg.max_context_chunks \in Nat
      BY <1>1, PipelineAssumption DEF TypeOK, Config
    <3>2. Elems(Prefix(fused_order, cfg.max_context_chunks)) \subseteq Permitted(tenant)
      BY <3>1, PrefixOfSeq DEF TenantInv, RankedAreCandidates, TenantBoundary
    <3>3. Expansion \subseteq Permitted(tenant)
      BY <3>2, NeighboursStayHome, PipelineAssumption DEF Expansion
    <3>4. Ran("expand", <<>>)
      BY <2>2, <3>3
    <3> QED BY <1>1, <2>2, <3>4, RanQuietly, NoReason, StageNames
            DEF TenantInv, TenantBoundary
  <2> QED BY <2>1, <2>2 DEF Expand
<1> QED BY <1>2 DEF Expand, request, dense, sparse, fused, TenantInv, RankedAreCandidates,
                    TenantBoundary

LEMMA FinalizeTenant == TenantInv /\ Finalize => RankedAreCandidates' /\ TenantBoundary'
<1> SUFFICES ASSUME TenantInv, Finalize PROVE RankedAreCandidates' /\ TenantBoundary'
  OBVIOUS
<1>1. TypeOK
  BY DEF TenantInv
<1>2. Elems(context_ids') \subseteq candidates
  <2>1. CASE UNCHANGED context_ids
    BY <2>1 DEF TenantInv, RankedAreCandidates
  <2>2. CASE context_ids' = Selected
    BY <1>1, <2>2, SelectedType DEF TenantInv, RankedAreCandidates
  <2> QED BY <2>1, <2>2 DEF Finalize, labels
<1> QED BY <1>2 DEF Finalize, request, dense, sparse, fused, reported, TenantInv,
                    RankedAreCandidates, TenantBoundary

LEMMA QuietEndTenant ==
  TenantInv /\ (EmitFused \/ Done \/ Fail) => RankedAreCandidates' /\ TenantBoundary'
<1> SUFFICES ASSUME TenantInv, EmitFused \/ Done \/ Fail
             PROVE  RankedAreCandidates' /\ TenantBoundary'
  OBVIOUS
<1>1. UNCHANGED <<tenant, candidates, dense, sparse, fused, context_ids, records>>
  BY DEF EmitFused, Done, Fail, request
<1> QED BY <1>1, QuietTenant

LEMMA TenantInductive == Spec => []TenantInv
<1>1. Init => TenantInv
  BY InitType, InitTenant DEF TenantInv
<1>2. TenantInv /\ [Next]_vars => RankedAreCandidates' /\ TenantBoundary'
  <2>1. TenantInv /\ UNCHANGED vars => RankedAreCandidates' /\ TenantBoundary'
    BY DEF TenantInv, RankedAreCandidates, TenantBoundary, vars, request, dense, sparse,
           fused, reported
  <2> QED BY <2>1, RewriteTenant, EmbedTenant, RetrieveDenseTenant, RetrieveSparseTenant,
             FuseTenant, GateTenant, RerankTenant, ExpandTenant, FinalizeTenant,
             GenerateTenant, QuietEndTenant DEF Next
<1>3. TypeOK' /\ RankedAreCandidates' /\ TenantBoundary' => TenantInv'
  BY DEF TenantInv
<1>4. Spec => []TypeOK
  BY TypeInvariant
<1> QED BY <1>1, <1>2, <1>3, <1>4, PTL DEF Spec

\* Tenant isolation, for every index and every set of tenants: no path of a run,
\* by query or by document id, brings in a chunk of a third tenant.
THEOREM TenantIsolation == Spec => []TenantBoundary
<1>1. TenantInv => TenantBoundary
  BY DEF TenantInv
<1> QED BY <1>1, TenantInductive, PTL

-----------------------------------------------------------------------------
(* A refusal is final.                                                     *)

BeforeGate == {"rewrite", "embed", "retrieve_dense", "retrieve_sparse", "fuse", "gate"}
Costly     == {"rerank", "expand", "generate"}

\* Nothing is decided before the gate has run, ...
Undecided ==
  pc \in BeforeGate =>
    /\ answer = None /\ gate_passed /\ context_ids = <<>>
    /\ \A r \in Elems(records) : r.name \notin Costly

\* ... and once it has refused, only skips and the end of the run remain.
OnlySkipsRemain ==
  ~gate_passed =>
    /\ answer = "refused" /\ context_ids = <<>>
    /\ \A c \in candidates : rejected_by[c] = "gate"
    /\ \A r \in Elems(records) : r.name \in Costly => r.outcome = "skipped"
    /\ pc \in {"emit_fused", "rerank", "expand", "finalize", "generate", "trace", "done"}
    /\ pc = "done" => trace.answer = "refused"

RefusalInv == TypeOK /\ Undecided /\ OnlySkipsRemain

LEMMA InitRefusal == Init => Undecided /\ OnlySkipsRemain
<1>1. Elems(<<>>) = {}
  BY DEF Elems
<1> QED BY <1>1 DEF Init, Undecided, OnlySkipsRemain

\* A stage before the gate leaves a record of its own, and either the next stage
\* before the gate or the failure of the run.
LEMMA EarlyStage ==
  ASSUME TypeOK, NEW name \in {"rewrite", "embed", "retrieve_dense", "retrieve_sparse", "fuse"},
         \/ \E reason \in SkipReason : Skip(name, reason)
         \/ \E emitted \in Seq(Event) : Ran(name, emitted)
         \/ \E error \in Exception : Raised(name, error)
  PROVE  /\ pc' \in (BeforeGate \ {"rewrite"}) \cup {"failed"}
         /\ \A r \in Elems(records') : r \in Elems(records) \/ r.name \notin Costly
<1>1. name \in StageName /\ name \notin Costly
  BY StageNames DEF Costly
<1>2. After(name) \in BeforeGate \ {"rewrite"}
  BY AfterEach DEF BeforeGate
<1>3. CASE \E reason \in SkipReason : Skip(name, reason)
  BY <1>1, <1>2, <1>3, SkipType DEF Skip
<1>4. CASE \E emitted \in Seq(Event) : Ran(name, emitted)
  BY <1>1, <1>2, <1>4, RanType DEF Ran
<1>5. CASE \E error \in Exception : Raised(name, error)
  BY <1>1, <1>5, RaisedType DEF Raised
<1> QED BY <1>3, <1>4, <1>5

\* The steps that lead to the gate decide nothing.
LEMMA EarlyRefusal ==
  RefusalInv /\ (Rewrite \/ Embed \/ RetrieveDense \/ RetrieveSparse \/ Fuse)
    => Undecided' /\ OnlySkipsRemain'
<1> SUFFICES ASSUME RefusalInv, Rewrite \/ Embed \/ RetrieveDense \/ RetrieveSparse \/ Fuse
             PROVE  Undecided' /\ OnlySkipsRemain'
  OBVIOUS
<1>1. TypeOK
  BY DEF RefusalInv
<1>2. <<>> \in Seq(Event)
  BY EmptySeq
<1>3. \A leg \in {"semantic", "lexical"} : <<[type |-> "candidates", of |-> leg]>> \in Seq(Event)
  BY DEF Event
<1> DEFINE Early ==
             /\ pc \in BeforeGate
             /\ pc' \in (BeforeGate \ {"rewrite"}) \cup {"failed"}
             /\ \A r \in Elems(records') : r \in Elems(records) \/ r.name \notin Costly
             /\ UNCHANGED <<answer, gate_passed, context_ids>>
<1>4. ASSUME Rewrite PROVE Early
  <2>1. RewriteSkip # None => RewriteSkip \in SkipReason
    BY DEF RewriteSkip, SkipReason
  <2>2. \/ \E reason \in SkipReason : Skip("rewrite", reason)
        \/ \E emitted \in Seq(Event) : Ran("rewrite", emitted)
        \/ \E error \in Exception : Raised("rewrite", error)
    BY <1>2, <1>4, <2>1 DEF Rewrite, Exception
  <2> QED BY <1>1, <1>4, <2>2, EarlyStage DEF Rewrite, gated, BeforeGate
<1>5. ASSUME Embed PROVE Early
  <2>1. \/ \E reason \in SkipReason : Skip("embed", reason)
        \/ \E emitted \in Seq(Event) : Ran("embed", emitted)
        \/ \E error \in Exception : Raised("embed", error)
    BY <1>2, <1>5 DEF Embed, Exception, SkipReason
  <2> QED BY <1>1, <1>5, <2>1, EarlyStage DEF Embed, gated, BeforeGate
<1>6. ASSUME RetrieveDense PROVE Early
  <2>1. DenseSkip # None => DenseSkip \in SkipReason
    BY DEF DenseSkip, SkipReason
  <2>2. \/ \E reason \in SkipReason : Skip("retrieve_dense", reason)
        \/ \E emitted \in Seq(Event) : Ran("retrieve_dense", emitted)
        \/ \E error \in Exception : Raised("retrieve_dense", error)
    BY <1>3, <1>6, <2>1 DEF RetrieveDense, Retrieved, Exception
  <2> QED BY <1>1, <1>6, <2>2, EarlyStage DEF RetrieveDense, gated, BeforeGate
<1>7. ASSUME RetrieveSparse PROVE Early
  <2>1. \/ \E reason \in SkipReason : Skip("retrieve_sparse", reason)
        \/ \E emitted \in Seq(Event) : Ran("retrieve_sparse", emitted)
        \/ \E error \in Exception : Raised("retrieve_sparse", error)
    BY <1>3, <1>7 DEF RetrieveSparse, Retrieved, Exception, SkipReason
  <2> QED BY <1>1, <1>7, <2>1, EarlyStage DEF RetrieveSparse, gated, BeforeGate
<1>8. ASSUME Fuse PROVE Early
  <2>1. \/ \E reason \in SkipReason : Skip("fuse", reason)
        \/ \E emitted \in Seq(Event) : Ran("fuse", emitted)
        \/ \E error \in Exception : Raised("fuse", error)
    BY <1>2, <1>8 DEF Fuse, SkipReason
  <2> QED BY <1>1, <1>8, <2>1, EarlyStage DEF Fuse, gated, BeforeGate
<1>9. Early
  BY <1>4, <1>5, <1>6, <1>7, <1>8
<1> QED BY <1>9 DEF RefusalInv, Undecided, OnlySkipsRemain

LEMMA GateRefusal == RefusalInv /\ Gate => Undecided' /\ OnlySkipsRemain'
<1> SUFFICES ASSUME RefusalInv, Gate PROVE Undecided' /\ OnlySkipsRemain'
  OBVIOUS
<1>1. TypeOK /\ pc \in BeforeGate
  BY DEF RefusalInv, Gate, BeforeGate
<1>2. /\ answer = None /\ gate_passed /\ context_ids' = <<>>
      /\ \A r \in Elems(records) : r.name \notin Costly
  BY <1>1 DEF RefusalInv, Undecided, Gate
<1>3. After("gate") = "emit_fused" /\ "gate" \in StageName /\ "gate" \notin Costly
  BY StageNames, AfterEach DEF Costly
<1>4. CASE GateSkip # None /\ Skip("gate", GateSkip) /\ UNCHANGED gated
  BY <1>2, <1>3, <1>4 DEF Skip, gated, Undecided, OnlySkipsRemain, BeforeGate
<1>5. CASE /\ rejected_by' = IF gate_passed' THEN rejected_by
                             ELSE [c \in Chunk |-> IF c \in candidates THEN "gate"
                                                   ELSE rejected_by[c]]
           /\ answer' = IF gate_passed' THEN answer ELSE "refused"
           /\ Ran("gate", <<>>)
  <2>1. /\ pc' = "emit_fused"
        /\ \A r \in Elems(records') : r.name \notin Costly
    BY <1>1, <1>2, <1>3, <1>5, RanQuietly DEF Ran
  <2>2. ~gate_passed' => \A c \in candidates' : rejected_by'[c] = "gate"
    BY <1>1, <1>5 DEF Gate, TypeOK
  <2> QED BY <1>2, <1>5, <2>1, <2>2 DEF Undecided, OnlySkipsRemain, BeforeGate
<1> QED BY <1>4, <1>5 DEF Gate

\* A costly stage skips itself once the gate has refused.
LEMMA LateSkip ==
  ASSUME TypeOK, NEW name \in Costly, NEW reason \in SkipReason, Skip(name, reason)
  PROVE  /\ pc' \in {"expand", "finalize", "trace"}
         /\ \A r \in Elems(records') : r \in Elems(records) \/ r.outcome = "skipped"
<1>1. name \in StageName /\ After(name) \in {"expand", "finalize", "trace"}
  BY StageNames, AfterEach DEF Costly
<1> QED BY <1>1, SkipType DEF Skip

\* A costly stage of a run the gate let through is no refusal.
LEMMA LatePassed ==
  ASSUME gate_passed' = TRUE, pc' \notin BeforeGate
  PROVE  Undecided' /\ OnlySkipsRemain'
BY DEF Undecided, OnlySkipsRemain

LEMMA LateStep ==
  (Rerank \/ Expand \/ Generate) => pc' \notin BeforeGate
BY AfterEach DEF Rerank, Expand, Generate, Skip, Ran, Raised, BeforeGate

LEMMA CostlyRefusal ==
  RefusalInv /\ (Rerank \/ Expand \/ Generate) => Undecided' /\ OnlySkipsRemain'
<1> SUFFICES ASSUME RefusalInv, Rerank \/ Expand \/ Generate
             PROVE  Undecided' /\ OnlySkipsRemain'
  OBVIOUS
<1>1. TypeOK /\ gate_passed \in BOOLEAN /\ gate_passed' = gate_passed
  BY DEF RefusalInv, TypeOK, Rerank, Expand, Generate, gated
<1>2. pc' \notin BeforeGate
  BY LateStep
<1>3. CASE gate_passed
  BY <1>1, <1>2, <1>3, LatePassed
<1>4. CASE ~gate_passed
  <2> DEFINE Skipped ==
               /\ pc' \in {"expand", "finalize", "trace"}
               /\ \A r \in Elems(records') : r \in Elems(records) \/ r.outcome = "skipped"
               /\ UNCHANGED <<answer, context_ids, candidates, rejected_by>>
  <2>1. answer = "refused" /\ answer # None
    BY <1>4 DEF RefusalInv, OnlySkipsRemain, None
  <2>2. ASSUME Rerank PROVE Skipped
    <3>1. RerankSkip \in SkipReason /\ RerankSkip # None
      BY <1>4 DEF RerankSkip, SkipReason, None
    <3> QED BY <1>1, <2>2, <3>1, LateSkip DEF Rerank, Costly
  <2>3. ASSUME Expand PROVE Skipped
    <3>1. ExpandSkip \in SkipReason /\ ExpandSkip # None
      BY <1>4 DEF ExpandSkip, SkipReason, None
    <3> QED BY <1>1, <2>3, <3>1, LateSkip DEF Expand, Costly, labels
  <2>4. ASSUME Generate PROVE Skipped
    BY <1>1, <2>1, <2>4, LateSkip DEF Generate, Costly, labels, SkipReason
  <2>5. Skipped
    BY <2>2, <2>3, <2>4
  <2> QED BY <1>1, <1>2, <1>4, <2>5 DEF RefusalInv, OnlySkipsRemain, Undecided
<1> QED BY <1>1, <1>3, <1>4

LEMMA EndRefusal ==
  RefusalInv /\ (EmitFused \/ Finalize \/ Done \/ Fail) => Undecided' /\ OnlySkipsRemain'
<1> SUFFICES ASSUME RefusalInv, EmitFused \/ Finalize \/ Done \/ Fail
             PROVE  Undecided' /\ OnlySkipsRemain'
  OBVIOUS
<1>1. /\ gate_passed' = gate_passed /\ answer' = answer /\ candidates' = candidates
      /\ records' = records
      /\ pc' \notin BeforeGate
      /\ pc # "failed" => pc' \in {"rerank", "generate", "trace", "done"}
  BY DEF EmitFused, Finalize, Done, Fail, gated, reported, BeforeGate
<1>2. ~gate_passed => UNCHANGED <<context_ids, rejected_by>>
  BY DEF EmitFused, Finalize, Done, Fail, labels
<1>3. pc' = "done" /\ answer = "refused" => trace'.answer = "refused"
  BY DEF EmitFused, Finalize, Done, Fail, BuildTrace, None
<1> QED BY <1>1, <1>2, <1>3 DEF RefusalInv, Undecided, OnlySkipsRemain

LEMMA RefusalInductive == Spec => []RefusalInv
<1>1. Init => RefusalInv
  BY InitType, InitRefusal DEF RefusalInv
<1>2. RefusalInv /\ [Next]_vars => Undecided' /\ OnlySkipsRemain'
  <2>1. RefusalInv /\ UNCHANGED vars => Undecided' /\ OnlySkipsRemain'
    BY DEF RefusalInv, Undecided, OnlySkipsRemain, vars, gated, labels, reported
  <2> QED BY <2>1, EarlyRefusal, GateRefusal, CostlyRefusal, EndRefusal DEF Next
<1>3. TypeOK' /\ Undecided' /\ OnlySkipsRemain' => RefusalInv'
  BY DEF RefusalInv
<1>4. Spec => []TypeOK
  BY TypeInvariant
<1> QED BY <1>1, <1>2, <1>3, <1>4, PTL DEF Spec

\* Once the gate has refused, no later stage runs, nothing reaches the context, and
\* the run ends with a trace that says refused, for every request and corpus.
THEOREM RefusalStays == Spec => []RefusalIsFinal
<1>1. RefusalInv => RefusalIsFinal
  BY DEF RefusalInv, OnlySkipsRemain, RefusalIsFinal, Refused, Finished, Costly
<1> QED BY <1>1, RefusalInductive, PTL

-----------------------------------------------------------------------------
(* Rankings are complete, and put what was scored first.                   *)

\* Before the fusion the candidates are what the legs returned, a leg that has not
\* run has returned nothing, and nobody has a rerank score before the reranker.
LegsKept ==
  /\ pc \in {"rewrite", "embed", "retrieve_dense"} => semantic_order = <<>>
  /\ pc \in {"rewrite", "embed", "retrieve_dense", "retrieve_sparse"} => lexical_order = <<>>
  /\ pc \in {"rewrite", "embed", "retrieve_dense", "retrieve_sparse", "fuse"} =>
       /\ candidates = Elems(semantic_order) \cup Elems(lexical_order)
       /\ fused_order = <<>>
  /\ pc \in BeforeGate \cup {"emit_fused", "rerank"} =>
       \A c \in Chunk : rerank_score[c] = Unscored

RankInv == TypeOK /\ LegsKept /\ RankingComplete /\ ScoredBeforeUnscored

LEMMA NoElems == Elems(<<>>) = {}
BY DEF Elems

LEMMA InitRank == Init => LegsKept /\ RankingComplete /\ ScoredBeforeUnscored
BY NoElems DEF Init, LegsKept, RankingComplete, ScoredBeforeUnscored

\* Where each stage may lead.
LEMMA Successors ==
  /\ Rewrite => pc = "rewrite" /\ pc' \in {"embed", "failed"}
  /\ Embed => pc = "embed" /\ pc' \in {"retrieve_dense", "failed"}
  /\ RetrieveDense => pc = "retrieve_dense" /\ pc' \in {"retrieve_sparse", "failed"}
  /\ RetrieveSparse => pc = "retrieve_sparse" /\ pc' \in {"fuse", "failed"}
  /\ Fuse => pc = "fuse" /\ pc' = "gate"
  /\ Gate => pc = "gate" /\ pc' = "emit_fused"
  /\ Rerank => pc = "rerank" /\ pc' \in {"expand", "failed"}
  /\ Expand => pc = "expand" /\ pc' \in {"finalize", "failed"}
  /\ Generate => pc = "generate" /\ pc' \in {"trace", "failed"}
<1> USE AfterEach DEF Skip, Ran, Raised, Retrieved
<1>1. Rewrite => pc = "rewrite" /\ pc' \in {"embed", "failed"}
  BY DEF Rewrite
<1>2. Embed => pc = "embed" /\ pc' \in {"retrieve_dense", "failed"}
  BY DEF Embed
<1>3. RetrieveDense => pc = "retrieve_dense" /\ pc' \in {"retrieve_sparse", "failed"}
  BY DEF RetrieveDense
<1>4. RetrieveSparse => pc = "retrieve_sparse" /\ pc' \in {"fuse", "failed"}
  BY DEF RetrieveSparse
<1>5. Fuse => pc = "fuse" /\ pc' = "gate"
  BY DEF Fuse
<1>6. Gate => pc = "gate" /\ pc' = "emit_fused"
  BY DEF Gate
<1>7. Rerank => pc = "rerank" /\ pc' \in {"expand", "failed"}
  BY DEF Rerank
<1>8. Expand => pc = "expand" /\ pc' \in {"finalize", "failed"}
  BY DEF Expand
<1>9. Generate => pc = "generate" /\ pc' \in {"trace", "failed"}
  BY DEF Generate
<1> QED BY <1>1, <1>2, <1>3, <1>4, <1>5, <1>6, <1>7, <1>8, <1>9

\* The steps that keep every order and every rerank score.
LEMMA QuietRank ==
  RankInv /\ (Rewrite \/ Embed \/ Gate \/ EmitFused \/ Expand \/ Finalize \/ Generate
                \/ Done \/ Fail)
    => LegsKept' /\ RankingComplete' /\ ScoredBeforeUnscored'
<1> SUFFICES ASSUME RankInv,
                    Rewrite \/ Embed \/ Gate \/ EmitFused \/ Expand \/ Finalize
                      \/ Generate \/ Done \/ Fail
             PROVE  LegsKept' /\ RankingComplete' /\ ScoredBeforeUnscored'
  OBVIOUS
<1>1. UNCHANGED <<semantic_order, lexical_order, fused_order, rerank_score>>
  BY DEF Rewrite, Embed, Gate, EmitFused, Expand, Finalize, Generate, Done, Fail,
         dense, sparse, fused
<1>2. \/ pc = "rewrite" /\ pc' \in {"embed", "failed"} /\ candidates' = candidates
      \/ pc = "embed" /\ pc' \in {"retrieve_dense", "failed"} /\ candidates' = candidates
      \/ pc = "gate" /\ pc' = "emit_fused"
      \/ pc = "emit_fused" /\ pc' = "rerank"
      \/ pc = "expand" /\ pc' \in {"finalize", "failed"}
      \/ pc = "finalize" /\ pc' \in {"generate", "trace"}
      \/ pc = "generate" /\ pc' \in {"trace", "failed"}
      \/ pc = "trace" /\ pc' = "done"
      \/ pc = "failed" /\ pc' = "raised"
  BY Successors DEF Rewrite, Embed, EmitFused, Finalize, Done, Fail
<1> QED BY <1>1, <1>2 DEF RankInv, LegsKept, RankingComplete, ScoredBeforeUnscored, BeforeGate

LEMMA RetrieveDenseRank ==
  RankInv /\ RetrieveDense => LegsKept' /\ RankingComplete' /\ ScoredBeforeUnscored'
<1> SUFFICES ASSUME RankInv, RetrieveDense
             PROVE  LegsKept' /\ RankingComplete' /\ ScoredBeforeUnscored'
  OBVIOUS
<1>1. /\ pc = "retrieve_dense" /\ pc' \in {"retrieve_sparse", "failed"}
      /\ UNCHANGED <<lexical_order, fused_order, rerank_score>>
  BY Successors DEF RetrieveDense, sparse, fused
<1>2. candidates' = candidates \cup Elems(semantic_order')
  BY <1>1, NoElems DEF RetrieveDense, dense, RankInv, LegsKept
<1> QED BY <1>1, <1>2, NoElems
        DEF RankInv, LegsKept, RankingComplete, ScoredBeforeUnscored, BeforeGate

LEMMA RetrieveSparseRank ==
  RankInv /\ RetrieveSparse => LegsKept' /\ RankingComplete' /\ ScoredBeforeUnscored'
<1> SUFFICES ASSUME RankInv, RetrieveSparse
             PROVE  LegsKept' /\ RankingComplete' /\ ScoredBeforeUnscored'
  OBVIOUS
<1>1. /\ pc = "retrieve_sparse" /\ pc' \in {"fuse", "failed"}
      /\ UNCHANGED <<semantic_order, fused_order, rerank_score>>
  BY Successors DEF RetrieveSparse, dense, fused
<1>2. candidates' = candidates \cup Elems(lexical_order')
  BY <1>1, NoElems DEF RetrieveSparse, sparse, RankInv, LegsKept
<1> QED BY <1>1, <1>2, NoElems
        DEF RankInv, LegsKept, RankingComplete, ScoredBeforeUnscored, BeforeGate

LEMMA FuseRank ==
  RankInv /\ Fuse => LegsKept' /\ RankingComplete' /\ ScoredBeforeUnscored'
<1> SUFFICES ASSUME RankInv, Fuse
             PROVE  LegsKept' /\ RankingComplete' /\ ScoredBeforeUnscored'
  OBVIOUS
<1>1. /\ TypeOK /\ pc = "fuse" /\ pc' = "gate"
      /\ UNCHANGED <<semantic_order, lexical_order, rerank_score>>
      /\ candidates = Elems(semantic_order) \cup Elems(lexical_order)
      /\ \A c \in Chunk : rerank_score[c] = Unscored
  BY Successors DEF Fuse, dense, sparse, RankInv, LegsKept, BeforeGate
<1>2. /\ fused_order' \in Seq(Chunk)
      /\ Elems(fused_order') = candidates
      /\ Len(fused_order') = Cardinality(candidates)
  <2>1. CASE candidates = {} /\ UNCHANGED fused
    BY <1>1, <2>1, NoElems, FS_EmptySet, EmptySeq DEF fused, RankInv, LegsKept
  <2>2. CASE /\ fused_score' = [c \in Chunk |-> IF c \in candidates THEN FusedScore(c) ELSE 0]
             /\ fused_order' = Sorted(candidates, ByScore(fused_score'))
    <3>1. fused_score' \in [Chunk -> Nat]
      BY <1>1, <2>2, FusedScoreType
    <3> QED BY <1>1, <2>2, <3>1, FuseRanks
  <2> QED BY <2>1, <2>2 DEF Fuse
<1>3. \A i \in DOMAIN fused_order' : rerank_score'[fused_order'[i]] = Unscored
  BY <1>1, <1>2
<1> QED BY <1>1, <1>2, <1>3 DEF LegsKept, RankingComplete, ScoredBeforeUnscored, BeforeGate

LEMMA RerankRank ==
  RankInv /\ Rerank => LegsKept' /\ RankingComplete' /\ ScoredBeforeUnscored'
<1> SUFFICES ASSUME RankInv, Rerank
             PROVE  LegsKept' /\ RankingComplete' /\ ScoredBeforeUnscored'
  OBVIOUS
<1>1. /\ TypeOK /\ pc = "rerank" /\ pc' \in {"expand", "failed"}
      /\ UNCHANGED <<semantic_order, lexical_order>>
      /\ Elems(fused_order) = Elems(semantic_order) \cup Elems(lexical_order)
      /\ Len(fused_order) = Cardinality(Elems(fused_order))
  BY Successors DEF Rerank, dense, sparse, RankInv, RankingComplete
<1>2. CASE UNCHANGED <<fused_order, rerank_score>>
  BY <1>1, <1>2 DEF RankInv, LegsKept, RankingComplete, ScoredBeforeUnscored, BeforeGate
<1>3. ASSUME NEW scored \in SUBSET Elems(Prefix(fused_order, TopN)),
             NEW reply \in [scored -> RerankScores],
             rerank_score' = [c \in Chunk |-> IF c \in scored THEN reply[c]
                                              ELSE rerank_score[c]],
             fused_order' = Reranked(rerank_score')
      PROVE  LegsKept' /\ RankingComplete' /\ ScoredBeforeUnscored'
  <2>1. rerank_score' \in [Chunk -> Nat \cup {Unscored}]
    BY <1>1, <1>3, PipelineAssumption DEF TypeOK
  <2>2. /\ fused_order' \in Seq(Chunk)
        /\ Elems(fused_order') = Elems(fused_order)
        /\ Len(fused_order') = Cardinality(Elems(fused_order))
        /\ \A i, j \in DOMAIN fused_order' :
             i < j => <<fused_order'[i], fused_order'[j]>> \in ByRerank(rerank_score')
    BY <1>1, <1>3, <2>1, RerankRanks
  <2>3. ASSUME NEW i \in DOMAIN fused_order', NEW j \in DOMAIN fused_order',
               rerank_score'[fused_order'[i]] = Unscored,
               rerank_score'[fused_order'[j]] # Unscored
        PROVE  j < i
    <3>1. i \in Nat /\ j \in Nat /\ fused_order'[i] \in Chunk /\ fused_order'[j] \in Chunk
      BY <2>2
    <3>2. rerank_score'[fused_order'[j]] \in Nat
      BY <2>1, <2>3, <3>1
    <3>3. <<fused_order'[i], fused_order'[j]>> \notin ByRerank(rerank_score')
      BY <2>3, <3>2 DEF ByRerank, Unscored
    <3>4. ~(i < j)
      BY <2>2, <3>3
    <3>5. i # j
      BY <2>3
    <3> QED BY <3>1, <3>4, <3>5
  <2>4. ScoredBeforeUnscored'
    BY <2>3 DEF ScoredBeforeUnscored
  <2> QED BY <1>1, <2>2, <2>4 DEF LegsKept, RankingComplete, BeforeGate
<1> QED BY <1>2, <1>3 DEF Rerank

LEMMA RankInductive == Spec => []RankInv
<1>1. Init => RankInv
  BY InitType, InitRank DEF RankInv
<1>2. RankInv /\ [Next]_vars => LegsKept' /\ RankingComplete' /\ ScoredBeforeUnscored'
  <2>1. RankInv /\ UNCHANGED vars => LegsKept' /\ RankingComplete' /\ ScoredBeforeUnscored'
    BY DEF RankInv, LegsKept, RankingComplete, ScoredBeforeUnscored, vars, dense, sparse, fused
  <2> QED BY <2>1, QuietRank, RetrieveDenseRank, RetrieveSparseRank, FuseRank, RerankRank
          DEF Next
<1>3. TypeOK' /\ LegsKept' /\ RankingComplete' /\ ScoredBeforeUnscored' => RankInv'
  BY DEF RankInv
<1>4. Spec => []TypeOK
  BY TypeInvariant
<1> QED BY <1>1, <1>2, <1>3, <1>4, PTL DEF Spec

\* Fusion and reranking neither lose nor duplicate a chunk a leg returned, for every
\* scoring and every shortlist.
THEOREM RankingsAreComplete == Spec => []RankingComplete
<1>1. RankInv => RankingComplete
  BY DEF RankInv
<1> QED BY <1>1, RankInductive, PTL

\* A cut-off shortlist promotes no unscored chunk above a scored one, for every reply
\* of the reranker, replies that score only part of the shortlist included.
THEOREM ScoredComeFirst == Spec => []ScoredBeforeUnscored
<1>1. RankInv => ScoredBeforeUnscored
  BY DEF RankInv
<1> QED BY <1>1, RankInductive, PTL

-----------------------------------------------------------------------------
(* The log: one record a stage, in order.                                  *)

LEMMA Stages ==
  /\ STAGE_ORDER[1] = "rewrite" /\ STAGE_ORDER[2] = "embed"
  /\ STAGE_ORDER[3] = "retrieve_dense" /\ STAGE_ORDER[4] = "retrieve_sparse"
  /\ STAGE_ORDER[5] = "fuse" /\ STAGE_ORDER[6] = "gate"
  /\ STAGE_ORDER[7] = "rerank" /\ STAGE_ORDER[8] = "expand"
  /\ STAGE_ORDER[9] = "generate"
  /\ Len(STAGE_ORDER) = 9
BY DEF STAGE_ORDER

LEMMA NotAStage ==
  \A k \in 1 .. 9 : STAGE_ORDER[k] \notin {"emit_fused", "finalize", "trace", "done",
                                         "failed", "raised"}
<1>1. \A k \in 1 .. 9 : STAGE_ORDER[k] \in StageName
  BY DEF StageName
<1> QED BY <1>1, StageNames

\* How many stages were executed when the run is at a step that is no stage's.
Logged ==
  /\ \A i \in DOMAIN records : i \in 1 .. 9 /\ records[i].name = STAGE_ORDER[i]
  /\ \A k \in 1 .. 9 : pc = STAGE_ORDER[k] => Len(records) = k - 1
  /\ pc = "emit_fused" => Len(records) = 6
  /\ pc = "finalize" => Len(records) = 8
  /\ pc \in {"trace", "done"} => Len(records) \in {8, 9}
  /\ pc \in {"failed", "raised"} => \E i \in DOMAIN records : records[i].outcome = "error"
  /\ \A i \in DOMAIN records : records[i].outcome = "error" => pc \in {"failed", "raised"}
  /\ Finished => trace.stages = OrderedRecords

Leaves(k) ==
  /\ pc = STAGE_ORDER[k]
  /\ \E r \in Record :
       /\ records' = Append(records, r) /\ r.name = STAGE_ORDER[k]
       /\ \/ r.outcome = "error" /\ pc' = "failed"
          \/ r.outcome # "error" /\ pc' = After(STAGE_ORDER[k])

LEMMA LeavesOne ==
  ASSUME TypeOK, NEW k \in 1 .. 9, pc = STAGE_ORDER[k],
         \/ \E reason \in SkipReason : Skip(STAGE_ORDER[k], reason)
         \/ \E emitted : Ran(STAGE_ORDER[k], emitted)
         \/ \E error \in Exception : Raised(STAGE_ORDER[k], error)
  PROVE  Leaves(k)
<1> DEFINE name == STAGE_ORDER[k]
<1>1. name \in StageName
  BY DEF StageName
<1> HIDE DEF name
<1>2. ASSUME NEW reason \in SkipReason, Skip(name, reason)
      PROVE  \E r \in Record :
               records' = Append(records, r) /\ r.name = name
                 /\ r.outcome # "error" /\ pc' = After(name)
  <2>1. [name |-> name, outcome |-> "skipped", reason |-> reason] \in Record
    BY <1>1 DEF Record
  <2> QED BY <1>2, <2>1 DEF Skip, Report
<1>3. ASSUME NEW emitted, Ran(name, emitted)
      PROVE  \E r \in Record :
               records' = Append(records, r) /\ r.name = name
                 /\ r.outcome # "error" /\ pc' = After(name)
  <2>1. [name |-> name, outcome |-> "ran", reason |-> None] \in Record
    BY <1>1 DEF Record
  <2> QED BY <1>3, <2>1 DEF Ran, Report
<1>4. ASSUME NEW error \in Exception, Raised(name, error)
      PROVE  \E r \in Record :
               records' = Append(records, r) /\ r.name = name
                 /\ r.outcome = "error" /\ pc' = "failed"
  <2>1. [name |-> name, outcome |-> "error", reason |-> error] \in Record
    BY <1>1 DEF Record
  <2> QED BY <1>4, <2>1 DEF Raised, Report
<1> QED BY <1>2, <1>3, <1>4 DEF name, Leaves

\* Every stage leaves one record.
LEMMA StagesLeave ==
  ASSUME TypeOK
  PROVE  /\ Rewrite => Leaves(1)
         /\ Embed => Leaves(2)
         /\ RetrieveDense => Leaves(3)
         /\ RetrieveSparse => Leaves(4)
         /\ Fuse => Leaves(5)
         /\ Gate => Leaves(6)
         /\ Rerank => Leaves(7)
         /\ Expand => Leaves(8)
         /\ Generate => Leaves(9)
<1>0. /\ \A x \in {"ProviderError", "PermissionError", "ValueError"} : x \in Exception
      /\ \A x \in {"ablated", "no_candidates", "already_refused"} : x \in SkipReason
  BY DEF Exception, SkipReason
<1>1. ASSUME Rewrite PROVE Leaves(1)
  <2>1. RewriteSkip # None => RewriteSkip \in SkipReason
    BY DEF RewriteSkip, SkipReason
  <2> QED BY <1>0, <1>1, <2>1, Stages, LeavesOne DEF Rewrite
<1>2. ASSUME Embed PROVE Leaves(2)
  BY <1>0, <1>2, Stages, LeavesOne DEF Embed
<1>3. ASSUME RetrieveDense PROVE Leaves(3)
  <2>1. DenseSkip # None => DenseSkip \in SkipReason
    BY DEF DenseSkip, SkipReason
  <2>2. \/ \E reason \in SkipReason : Skip("retrieve_dense", reason)
        \/ \E emitted : Ran("retrieve_dense", emitted)
        \/ \E error \in Exception : Raised("retrieve_dense", error)
    BY <1>0, <1>3, <2>1 DEF RetrieveDense, Retrieved
  <2> QED BY <1>3, <2>2, Stages, LeavesOne DEF RetrieveDense
<1>4. ASSUME RetrieveSparse PROVE Leaves(4)
  <2>1. \/ \E reason \in SkipReason : Skip("retrieve_sparse", reason)
        \/ \E emitted : Ran("retrieve_sparse", emitted)
        \/ \E error \in Exception : Raised("retrieve_sparse", error)
    BY <1>0, <1>4 DEF RetrieveSparse, Retrieved
  <2> QED BY <1>4, <2>1, Stages, LeavesOne DEF RetrieveSparse
<1>5. ASSUME Fuse PROVE Leaves(5)
  BY <1>0, <1>5, Stages, LeavesOne DEF Fuse
<1>6. ASSUME Gate PROVE Leaves(6)
  <2>1. GateSkip # None => GateSkip \in SkipReason
    BY DEF GateSkip, SkipReason
  <2> QED BY <1>6, <2>1, Stages, LeavesOne DEF Gate
<1>7. ASSUME Rerank PROVE Leaves(7)
  <2>1. RerankSkip # None => RerankSkip \in SkipReason
    BY DEF RerankSkip, SkipReason
  <2> QED BY <1>0, <1>7, <2>1, Stages, LeavesOne DEF Rerank
<1>8. ASSUME Expand PROVE Leaves(8)
  <2>1. ExpandSkip # None => ExpandSkip \in SkipReason
    BY DEF ExpandSkip, SkipReason
  <2>2. \/ \E reason \in SkipReason : Skip("expand", reason)
        \/ \E emitted : Ran("expand", emitted)
        \/ \E error \in Exception : Raised("expand", error)
    BY <1>0, <1>8, <2>1 DEF Expand
  <2> QED BY <1>8, <2>2, Stages, LeavesOne DEF Expand
<1>9. ASSUME Generate PROVE Leaves(9)
  BY <1>0, <1>9, Stages, LeavesOne DEF Generate
<1> QED BY <1>1, <1>2, <1>3, <1>4, <1>5, <1>6, <1>7, <1>8, <1>9

LEMMA StageLogged ==
  ASSUME TypeOK, Logged, NEW k \in 1 .. 9, Leaves(k)
  PROVE  Logged'
<1>1. PICK r \in Record :
        /\ records' = Append(records, r) /\ r.name = STAGE_ORDER[k]
        /\ \/ r.outcome = "error" /\ pc' = "failed"
           \/ r.outcome # "error" /\ pc' = After(STAGE_ORDER[k])
  BY DEF Leaves
<1>2. records \in Seq(Record) /\ Len(records) = k - 1 /\ pc \notin {"failed", "raised"}
  BY NotAStage DEF TypeOK, Logged, Leaves
<1>3. /\ Len(records') = k
      /\ DOMAIN records' = 1 .. k /\ DOMAIN records = 1 .. (k - 1)
      /\ \A i \in 1 .. (k - 1) : records'[i] = records[i]
      /\ records'[k] = r
  <2>1. /\ Append(records, r) \in Seq(Record) /\ Len(Append(records, r)) = Len(records) + 1
        /\ \A i \in 1 .. Len(records) : Append(records, r)[i] = records[i]
        /\ Append(records, r)[Len(records) + 1] = r
    BY <1>2, AppendProperties
  <2> QED BY <1>1, <1>2, <2>1, LenProperties
<1>4. \A i \in DOMAIN records' : i \in 1 .. 9 /\ records'[i].name = STAGE_ORDER[i]
  <2> SUFFICES ASSUME NEW i \in 1 .. k
               PROVE  i \in 1 .. 9 /\ records'[i].name = STAGE_ORDER[i]
    BY <1>3
  <2>1. CASE i = k
    BY <1>1, <1>3, <2>1
  <2>2. CASE i \in 1 .. (k - 1)
    BY <1>3, <2>2 DEF Logged
  <2> QED BY <2>1, <2>2
<1>5. \A i \in DOMAIN records : records[i].outcome # "error"
  BY <1>2 DEF Logged
<1>6. CASE r.outcome = "error"
  BY <1>1, <1>3, <1>4, <1>6, Stages DEF Logged, Finished
<1>7. CASE r.outcome # "error"
  <2>1. \A i \in DOMAIN records' : records'[i].outcome # "error"
    BY <1>3, <1>5, <1>7
  <2>2. pc' = After(STAGE_ORDER[k])
    BY <1>1, <1>7
  <2>3. \/ k < 9 /\ k # 6 /\ k # 8 /\ pc' = STAGE_ORDER[k + 1]
        \/ k = 6 /\ pc' = "emit_fused"
        \/ k = 8 /\ pc' = "finalize"
        \/ k = 9 /\ pc' = "trace"
    BY <2>2, Stages, AfterEach
  <2>4. \A j \in 1 .. 9 : pc' = STAGE_ORDER[j] => Len(records') = j - 1
    BY <1>3, <2>3, Stages
  <2> QED BY <1>3, <1>4, <2>1, <2>3, <2>4, Stages DEF Logged, Finished
<1> QED BY <1>6, <1>7

LEMMA LogKept ==
  ASSUME TypeOK, Logged, EmitFused \/ Finalize \/ Done \/ Fail
  PROVE  Logged'
<1>1. records' = records
  BY DEF EmitFused, Finalize, Done, Fail, reported
<1>2. CASE EmitFused
  <2>1. pc = "emit_fused" /\ pc' = "rerank" /\ Len(records') = 6
    BY <1>1, <1>2 DEF EmitFused, Logged
  <2>2. \A k \in 1 .. 9 : STAGE_ORDER[k] = "rerank" => k = 7
    BY Stages
  <2> QED BY <1>1, <2>1, <2>2 DEF Logged, Finished
<1>3. CASE Finalize
  <2>1. pc = "finalize" /\ pc' \in {"generate", "trace"} /\ Len(records') = 8
    BY <1>1, <1>3 DEF Finalize, Logged
  <2>2. \A k \in 1 .. 9 : STAGE_ORDER[k] \in {"generate", "trace"}
                         => k = 9 /\ STAGE_ORDER[k] = "generate"
    BY Stages
  <2> QED BY <1>1, <2>1, <2>2 DEF Logged, Finished
<1>4. CASE Done \/ Fail
  <2>1. \/ pc = "trace" /\ pc' = "done"
        \/ pc = "failed" /\ pc' = "raised"
    BY <1>4 DEF Done, Fail
  <2>2. trace'.stages = OrderedRecords
    BY <1>4 DEF Done, Fail, BuildTrace
  <2>3. OrderedRecords' = OrderedRecords
    BY <1>1 DEF OrderedRecords
  <2> QED BY <1>1, <2>1, <2>2, <2>3, Stages DEF Logged
<1> QED BY <1>2, <1>3, <1>4

LEMMA LogInductive == Spec => []Logged
<1>1. Init => Logged
  BY Stages, EmptySeq DEF Init, Logged, Finished
<1>2. TypeOK /\ Logged /\ [Next]_vars => Logged'
  <2>1. Logged /\ UNCHANGED vars => Logged'
    BY DEF vars, reported, Logged, Finished, OrderedRecords
  <2> QED BY <2>1, StagesLeave, StageLogged, LogKept DEF Next
<1> QED BY <1>1, <1>2, TypeInvariant, PTL DEF Spec

\* The slot of a stage holds its record, if there is one.
LEMMA Slots ==
  ASSUME TypeOK, Logged
  PROVE  /\ \A i \in 1 .. 9 : OrderedRecords[i].name = STAGE_ORDER[i]
         /\ \A i \in DOMAIN records : OrderedRecords[i] = records[i]
         /\ \A i \in 1 .. 9 : i \in DOMAIN records \/ OrderedRecords[i].outcome = "skipped"
<1>1. DOMAIN OrderedRecords = 1 .. 9
  BY Stages DEF OrderedRecords
<1>2. ASSUME NEW i \in 1 .. 9, i \in DOMAIN records
      PROVE  OrderedRecords[i] = records[i] /\ records[i].name = STAGE_ORDER[i]
  <2>1. records[i] \in Elems(records) /\ records[i].name = STAGE_ORDER[i]
    BY <1>2 DEF Elems, Logged
  <2>2. \A r \in Elems(records) : r.name = STAGE_ORDER[i] => r = records[i]
    <3> SUFFICES ASSUME NEW j \in DOMAIN records, records[j].name = STAGE_ORDER[i]
                 PROVE  j = i
      BY DEF Elems
    <3>1. j \in 1 .. 9 /\ STAGE_ORDER[j] = STAGE_ORDER[i]
      BY DEF Logged
    <3> QED BY <3>1, Stages
  <2>3. OrderedRecords[i] = CHOOSE r \in Elems(records) : r.name = STAGE_ORDER[i]
    BY <2>1, Stages DEF OrderedRecords
  <2> QED BY <2>1, <2>2, <2>3
<1>3. ASSUME NEW i \in 1 .. 9, i \notin DOMAIN records
      PROVE  OrderedRecords[i].outcome = "skipped" /\ OrderedRecords[i].name = STAGE_ORDER[i]
  <2>1. \A r \in Elems(records) : r.name # STAGE_ORDER[i]
    <3> SUFFICES ASSUME NEW j \in DOMAIN records, records[j].name = STAGE_ORDER[i]
                 PROVE  j = i
      BY <1>3 DEF Elems
    <3>1. j \in 1 .. 9 /\ STAGE_ORDER[j] = STAGE_ORDER[i]
      BY DEF Logged
    <3> QED BY <3>1, Stages
  <2>2. OrderedRecords[i] =
          [name |-> STAGE_ORDER[i], outcome |-> "skipped", reason |-> "did_not_run"]
    BY <2>1, Stages DEF OrderedRecords
  <2> QED BY <2>2
<1>4. \A i \in DOMAIN records : i \in 1 .. 9
  BY DEF Logged
<1> QED BY <1>2, <1>3, <1>4

\* Every finished run has a trace with one slot a stage, in order; the slots hold all
\* its records, and an error among them if and only if a stage raised.
THEOREM TraceIsComplete == Spec => []TraceComplete
<1>1. ASSUME TypeOK, Logged PROVE TraceComplete
  <2> SUFFICES ASSUME Finished
               PROVE  /\ [i \in 1 .. 9 |-> trace.stages[i].name] = STAGE_ORDER
                      /\ \A r \in Elems(records) : r \in Elems(trace.stages)
                      /\ pc = "raised" <=> \E r \in Elems(trace.stages) : r.outcome = "error"
    BY DEF TraceComplete
  <2> DEFINE slot == trace.stages
  <2>1. slot = OrderedRecords /\ DOMAIN slot = 1 .. 9
    BY <1>1, Stages DEF Logged, OrderedRecords
  <2>2. /\ \A i \in 1 .. 9 : slot[i].name = STAGE_ORDER[i]
        /\ \A i \in DOMAIN records : i \in 1 .. 9 /\ slot[i] = records[i]
        /\ \A i \in 1 .. 9 : i \in DOMAIN records \/ slot[i].outcome = "skipped"
    BY <1>1, <2>1, Slots DEF Logged
  <2> HIDE DEF slot
  <2>3. [i \in 1 .. 9 |-> slot[i].name] = STAGE_ORDER
    BY <2>2 DEF STAGE_ORDER
  <2>4. \A r \in Elems(records) : r \in Elems(slot)
    BY <2>1, <2>2 DEF Elems
  <2>5. pc = "raised" => \E r \in Elems(slot) : r.outcome = "error"
    BY <1>1, <2>1, <2>2 DEF Logged, Elems
  <2>6. (\E r \in Elems(slot) : r.outcome = "error") => pc = "raised"
    BY <1>1, <2>1, <2>2 DEF Logged, Elems, Finished
  <2> QED BY <2>3, <2>4, <2>5, <2>6 DEF slot
<1> QED BY <1>1, TypeInvariant, LogInductive, PTL

-----------------------------------------------------------------------------
(* Answers that no gate checked.                                           *)

PastGate == {"emit_fused", "rerank", "expand", "finalize", "generate", "trace", "done"}

\* A gate that was read has a candidate that justifies it, and stays so, because no
\* later stage changes the score it read; a gate that was configured and not read has
\* left the reason, and where that is a lack of candidates there is nothing to answer.
Marked ==
  /\ pc \in BeforeGate => gate_signal = None
  /\ gate_signal # None /\ gate_passed =>
       \E c \in candidates : SignalScore(cfg.reads, c) >= cfg.threshold
  /\ pc \in PastGate /\ cfg.gate /\ gate_signal = None =>
       /\ 6 \in DOMAIN records /\ records[6].outcome = "skipped"
       /\ \/ records[6].reason = "signal_absent"
          \/ candidates = {} /\ answer \in {None, "refused"}

MarkedInv == TenantInv /\ Undecided /\ OnlySkipsRemain /\ Logged /\ Marked

\* The context of a run without candidates is empty, and so are its orders.
LEMMA NothingRanked ==
  ASSUME TypeOK, RankedAreCandidates, candidates = {}
  PROVE  fused_order = <<>> /\ context_ids = <<>>
<1>1. Elems(fused_order) = {} /\ Elems(context_ids) = {}
  BY DEF RankedAreCandidates
<1>2. \A s \in Seq(Chunk) : Elems(s) = {} => s = <<>>
  <2> SUFFICES ASSUME NEW s \in Seq(Chunk), s # <<>> PROVE Elems(s) # {}
    OBVIOUS
  <2>1. Len(s) \in Nat /\ Len(s) # 0 /\ DOMAIN s = 1 .. Len(s)
    BY EmptySeq, LenProperties
  <2>2. 1 \in DOMAIN s
    BY <2>1
  <2> QED BY <2>2 DEF Elems
<1> QED BY <1>1, <1>2 DEF TypeOK

\* What the log says already stays where it is.
LEMMA LogGrows ==
  ASSUME TypeOK, NEW k \in 1 .. 9, Leaves(k)
  PROVE  \A i \in DOMAIN records : i \in DOMAIN records' /\ records'[i] = records[i]
<1>1. PICK r \in Record : records' = Append(records, r)
  BY DEF Leaves
<1>2. records \in Seq(Record)
  BY DEF TypeOK
<1> QED BY <1>1, <1>2, AppendProperties, LenProperties

LEMMA GateMarked ==
  ASSUME MarkedInv, Gate
  PROVE  Marked'
<1>1. TypeOK /\ RankedAreCandidates /\ pc = "gate" /\ pc' = "emit_fused"
      /\ gate_signal = None /\ answer = None
  BY Successors DEF MarkedInv, TenantInv, Marked, Undecided, BeforeGate, Gate
<1>2. UNCHANGED <<cfg, candidates, semantic_score, lexical_score, fused_score>>
  BY DEF Gate, request, dense, sparse, fused
<1>3. \A c : SignalScore(cfg.reads, c)' = SignalScore(cfg.reads, c)
  BY <1>2 DEF SignalScore
<1>4. Leaves(6) /\ Len(records) = 5
  <2>1. Leaves(6)
    BY <1>1, StagesLeave
  <2>2. pc = STAGE_ORDER[6] => Len(records) = 6 - 1
    <3>1. \A k \in 1 .. 9 : pc = STAGE_ORDER[k] => Len(records) = k - 1
      BY DEF MarkedInv, Logged
    <3>2. 6 \in 1 .. 9
      OBVIOUS
    <3> QED BY <3>1, <3>2
  <2> QED BY <1>1, <2>1, <2>2, Stages
<1>5. CASE GateSkip # None /\ Skip("gate", GateSkip) /\ UNCHANGED <<gated, rejected_by, answer>>
  <2> DEFINE r == [name |-> "gate", outcome |-> "skipped", reason |-> GateSkip]
  <2>1. records' = Append(records, r)
    BY <1>5 DEF Skip, Report
  <2>2. 6 \in DOMAIN records' /\ records'[6] = r
    <3>1. GateSkip \in SkipReason
      BY <1>5 DEF GateSkip, SkipReason
    <3>2. r \in Record /\ records \in Seq(Record)
      BY <1>1, <3>1, StageNames DEF TypeOK, Record
    <3> HIDE DEF r
    <3>3. /\ Append(records, r) \in Seq(Record) /\ Len(Append(records, r)) = Len(records) + 1
          /\ Append(records, r)[Len(records) + 1] = r
      BY <3>2, AppendProperties
    <3>4. Len(records') = 6 /\ records' \in Seq(Record) /\ records'[6] = r
      BY <1>4, <2>1, <3>3
    <3> QED BY <3>4, LenProperties
  <2>3. cfg.gate => \/ GateSkip = "signal_absent"
                    \/ candidates = {}
    BY <1>5 DEF GateSkip
  <2> QED BY <1>1, <1>2, <1>5, <2>2, <2>3 DEF Marked, gated, BeforeGate, PastGate
<1>6. CASE /\ GateSkip = None
           /\ gate_signal' = cfg.reads
           /\ gate_passed' = (Top(cfg.reads, 1) >= cfg.threshold)
  <2>1. gate_signal' # None
    BY <1>1, <1>6, PipelineAssumption DEF TypeOK, Config, Signal, None
  <2>2. SignalOrder(cfg.reads) # <<>>
    BY <1>6 DEF GateSkip, Absent, None
  <2>3. SignalOrder(cfg.reads) \in Seq(Chunk) /\ Elems(SignalOrder(cfg.reads)) \subseteq candidates
    BY <1>1, PipelineAssumption DEF TypeOK, Config, Signal, SignalOrder, RankedAreCandidates
  <2>4. SignalOrder(cfg.reads)[1] \in candidates
    BY <2>2, <2>3, LenProperties DEF Elems
  <2>5. gate_passed' => SignalScore(cfg.reads, SignalOrder(cfg.reads)[1]) >= cfg.threshold
    BY <1>6 DEF Top
  <2>6. gate_passed' =>
          \E c \in candidates' : SignalScore(cfg.reads, c)' >= cfg'.threshold
    BY <1>2, <1>3, <2>4, <2>5
  <2> QED BY <1>1, <2>1, <2>6 DEF Marked, BeforeGate
<1> QED BY <1>5, <1>6 DEF Gate

LEMMA EarlyMarked ==
  ASSUME MarkedInv, Rewrite \/ Embed \/ RetrieveDense \/ RetrieveSparse \/ Fuse
  PROVE  Marked'
<1>1. gate_signal' = gate_signal
  BY DEF Rewrite, Embed, RetrieveDense, RetrieveSparse, Fuse, gated
<1>2. pc \in BeforeGate /\ pc' \in BeforeGate \cup {"failed"}
  BY Successors DEF BeforeGate
<1> QED BY <1>1, <1>2 DEF MarkedInv, Marked, BeforeGate, PastGate

\* After the gate candidates are only added, and a run without one adds none.
LEMMA LateMarked ==
  ASSUME MarkedInv, EmitFused \/ Rerank \/ Expand \/ Finalize \/ Generate \/ Done \/ Fail
  PROVE  Marked'
<1>1. TypeOK /\ RankedAreCandidates
  BY DEF MarkedInv, TenantInv
<1>2. /\ pc' \notin BeforeGate
      /\ pc' \in PastGate => pc \in PastGate
  BY Successors DEF EmitFused, Finalize, Done, Fail, BeforeGate, PastGate
<1>3. /\ UNCHANGED <<cfg, gate_signal, gate_passed, semantic_score, lexical_score, fused_score>>
      /\ candidates \subseteq candidates'
  BY DEF EmitFused, Rerank, Expand, Finalize, Generate, Done, Fail, request, gated, dense,
         sparse, fused
<1>4. \A c : SignalScore(cfg.reads, c)' = SignalScore(cfg.reads, c)
  BY <1>3 DEF SignalScore
<1>5. \A i \in DOMAIN records : i \in DOMAIN records' /\ records'[i] = records[i]
  <2>1. CASE Rerank \/ Expand \/ Generate
    BY <1>1, <2>1, StagesLeave, LogGrows
  <2>2. CASE EmitFused \/ Finalize \/ Done \/ Fail
    BY <2>2 DEF EmitFused, Finalize, Done, Fail, reported
  <2> QED BY <2>1, <2>2
<1>6. ASSUME candidates = {}, answer \in {None, "refused"}
      PROVE  candidates' = {} /\ answer' \in {None, "refused"}
  <2>1. fused_order = <<>> /\ context_ids = <<>>
    BY <1>1, <1>6, NothingRanked
  <2>2. ExpandSkip # None
    BY <2>1 DEF ExpandSkip, None
  <2>3. candidates' = {}
    BY <1>6, <2>2 DEF EmitFused, Rerank, Expand, Finalize, Generate, Done, Fail
  <2>4. answer' \in {None, "refused"}
    BY <1>6, <2>1 DEF EmitFused, Rerank, Expand, Finalize, Generate, Done, Fail, Replies
  <2> QED BY <2>3, <2>4
<1>7. /\ \E c \in candidates : SignalScore(cfg.reads, c) >= cfg.threshold
      => \E c \in candidates' : SignalScore(cfg.reads, c)' >= cfg'.threshold
  BY <1>3, <1>4
<1> QED BY <1>2, <1>3, <1>5, <1>6, <1>7 DEF MarkedInv, Marked

LEMMA MarkedInductive == Spec => []MarkedInv
<1>1. Init => Marked
  BY DEF Init, Marked, PastGate
<1>2. MarkedInv /\ [Next]_vars => Marked'
  <2>1. MarkedInv /\ UNCHANGED vars => Marked'
    <3> SUFFICES ASSUME MarkedInv, UNCHANGED vars PROVE Marked'
      OBVIOUS
    <3>1. UNCHANGED <<pc, cfg, candidates, answer, records, gate_signal, gate_passed,
                      semantic_score, lexical_score, fused_score>>
      BY DEF vars, request, dense, sparse, fused, gated, reported
    <3>2. \A c : SignalScore(cfg.reads, c)' = SignalScore(cfg.reads, c)
      BY <3>1 DEF SignalScore
    <3> QED BY <3>1, <3>2 DEF MarkedInv, Marked
  <2> QED BY <2>1, GateMarked, EarlyMarked, LateMarked DEF Next
<1>3. TenantInv /\ RefusalInv /\ Logged /\ Marked => MarkedInv
  BY DEF MarkedInv, RefusalInv
<1>4. Spec => [](TenantInv /\ RefusalInv /\ Logged)
  BY TenantInductive, RefusalInductive, LogInductive, PTL
<1> QED BY <1>1, <1>2, <1>3, <1>4, PTL DEF Spec

\* An answer of a run with a gate was either checked, against a score that reached the
\* threshold, or its trace says that there was no signal to check.
THEOREM AnswersAreMarked == Spec => []UncheckedAnswersAreMarked
<1>1. ASSUME MarkedInv PROVE UncheckedAnswersAreMarked
  <2> SUFFICES ASSUME pc = "done", cfg.gate, answer \in {"grounded", "ungrounded"}
               PROVE  IF gate_signal = None
                      THEN /\ trace.stages[6].outcome = "skipped"
                           /\ trace.stages[6].reason = "signal_absent"
                      ELSE \E c \in candidates : SignalScore(cfg.reads, c) >= cfg.threshold
    BY DEF UncheckedAnswersAreMarked
  <2>1. gate_passed
    BY <1>1 DEF MarkedInv, OnlySkipsRemain
  <2>2. answer \notin {None, "refused"}
    BY DEF None
  <2>3. gate_signal # None => \E c \in candidates : SignalScore(cfg.reads, c) >= cfg.threshold
    BY <1>1, <2>1 DEF MarkedInv, Marked
  <2>4. ASSUME gate_signal = None
        PROVE  /\ trace.stages[6].outcome = "skipped"
               /\ trace.stages[6].reason = "signal_absent"
    <3>1. /\ 6 \in DOMAIN records
          /\ records[6].outcome = "skipped" /\ records[6].reason = "signal_absent"
      BY <1>1, <2>2, <2>4 DEF MarkedInv, Marked, PastGate
    <3>2. trace.stages = OrderedRecords /\ OrderedRecords[6] = records[6]
      BY <1>1, <3>1, Slots DEF MarkedInv, TenantInv, Logged, Finished
    <3> QED BY <3>1, <3>2
  <2> QED BY <2>3, <2>4
<1> QED BY <1>1, MarkedInductive, PTL

-----------------------------------------------------------------------------
(* Every candidate is accounted for.                                       *)

\* A list without repetitions is as long as the set of its elements is large.
LEMMA NoRepetition ==
  ASSUME NEW S, NEW s \in Seq(S), \A i, j \in DOMAIN s : i < j => s[i] # s[j]
  PROVE  Len(s) = Cardinality(Elems(s))
<1>1. Len(s) \in Nat /\ DOMAIN s = 1 .. Len(s) /\ s \in [1 .. Len(s) -> Elems(s)]
  BY LenProperties DEF Elems
<1>2. \A i, j \in 1 .. Len(s) : s[i] = s[j] => i = j
  BY <1>1
<1>3. \A e \in Elems(s) : \E i \in 1 .. Len(s) : s[i] = e
  BY <1>1 DEF Elems
<1>4. ExistsBijection(1 .. Len(s), Elems(s))
  <2>1. s \in Bijection(1 .. Len(s), Elems(s))
    BY <1>1, <1>2, <1>3, Fun_IsBij
  <2> QED BY <2>1, Fun_ExistsBij
<1> QED BY <1>1, <1>4, FS_CountingElements

\* The context is the list of what the winners bring, as far as the budget goes.
LEMMA SelectedIsPrefix ==
  ASSUME TypeOK
  PROVE  \E s \in Seq(Reached) :
           /\ Elems(s) = Reached
           /\ \A i, j \in DOMAIN s : i < j => <<s[i], s[j]>> \in ByWinner(Reached)
           /\ Selected \in Seq(Reached)
           /\ Len(Selected) = IF cfg.max_context_chunks < Len(s) THEN cfg.max_context_chunks
                              ELSE Len(s)
           /\ \A i \in DOMAIN Selected : i \in DOMAIN s /\ Selected[i] = s[i]
<1> DEFINE s == Sorted(Reached, ByWinner(Reached))
<1>1. Reached \subseteq Chunk /\ StrictOrder(Reached, ByWinner(Reached))
  BY ByWinnerIsStrict
<1>2. IsFiniteSet(Reached)
  BY <1>1, CorpusAssumption, FS_Subset
<1>3. /\ s \in Seq(Reached) /\ Elems(s) = Reached
      /\ \A i, j \in DOMAIN s : i < j => <<s[i], s[j]>> \in ByWinner(Reached)
  BY <1>1, <1>2, SortedIsPermutation
<1>4. cfg.max_context_chunks \in Nat
  BY PipelineAssumption DEF TypeOK, Config
<1>5. Selected = Prefix(s, cfg.max_context_chunks)
  BY DEF Selected, Reached
<1> HIDE DEF s
<1> QED BY <1>3, <1>4, <1>5, PrefixOfSeq

\* The budget is used, and nothing is in the context twice.
LEMMA SelectedUsesBudget ==
  ASSUME TypeOK
  PROVE  /\ Len(Selected) = Cardinality(Elems(Selected))
         /\ Len(Selected) = cfg.max_context_chunks \/ Elems(Selected) = Reached
<1>1. PICK s \in Seq(Reached) :
        /\ Elems(s) = Reached
        /\ \A i, j \in DOMAIN s : i < j => <<s[i], s[j]>> \in ByWinner(Reached)
        /\ Selected \in Seq(Reached)
        /\ Len(Selected) = IF cfg.max_context_chunks < Len(s) THEN cfg.max_context_chunks
                           ELSE Len(s)
        /\ \A i \in DOMAIN Selected : i \in DOMAIN s /\ Selected[i] = s[i]
  BY SelectedIsPrefix
<1>2. \A c \in Reached : <<c, c>> \notin ByWinner(Reached)
  BY ByWinnerIsStrict DEF StrictOrder
<1>3. \A i, j \in DOMAIN Selected : i < j => Selected[i] # Selected[j]
  <2> SUFFICES ASSUME NEW i \in DOMAIN Selected, NEW j \in DOMAIN Selected, i < j,
                      Selected[i] = Selected[j]
               PROVE  FALSE
    OBVIOUS
  <2>1. <<Selected[i], Selected[i]>> \in ByWinner(Reached)
    BY <1>1
  <2>2. Selected[i] \in Reached
    BY <1>1, ElemsOfSeq DEF Elems
  <2> QED BY <1>2, <2>1, <2>2
<1>4. Len(Selected) = Cardinality(Elems(Selected))
  BY <1>1, <1>3, NoRepetition
<1>5. ASSUME Len(Selected) # cfg.max_context_chunks PROVE Elems(Selected) = Reached
  <2>1. Len(Selected) = Len(s)
    BY <1>1, <1>5
  <2>2. DOMAIN Selected = DOMAIN s
    BY <1>1, <2>1, LenProperties
  <2> QED BY <1>1, <2>2 DEF Elems
<1> QED BY <1>4, <1>5

\* Until the context is chosen nobody has lost, the candidates are what the legs
\* returned and what expansion added; afterwards each has won or lost.
Booked ==
  /\ gate_passed /\ pc \in BeforeGate \cup {"emit_fused", "rerank", "expand", "finalize"} =>
       \A c \in Chunk : rejected_by[c] = None
  /\ pc \in {"gate", "emit_fused", "rerank", "expand"} =>
       candidates = Elems(semantic_order) \cup Elems(lexical_order)
  /\ pc = "finalize" /\ gate_passed =>
       \A c \in candidates : \/ c \in Elems(fused_order)
                             \/ cfg.expansion /\ c \in Expansion
  /\ pc \in {"generate", "trace", "done"} /\ gate_passed =>
       /\ \A c \in candidates :
            IF c \in Elems(context_ids)
            THEN rejected_by[c] = None /\ inclusion_reason[c] # None
            ELSE rejected_by[c] = "top_k"
       /\ Len(context_ids) = Cardinality(Elems(context_ids))
       /\ Len(context_ids) = cfg.max_context_chunks \/ Elems(context_ids) = candidates

BookedInv == TenantInv /\ Undecided /\ RankInv /\ Booked

LEMMA EarlyBooked ==
  ASSUME BookedInv, Rewrite \/ Embed \/ RetrieveDense \/ RetrieveSparse \/ Fuse
  PROVE  Booked'
<1>1. UNCHANGED <<gate_passed, rejected_by>>
  BY DEF Rewrite, Embed, RetrieveDense, RetrieveSparse, Fuse, gated, labels
<1>2. /\ pc \in BeforeGate /\ pc' \in BeforeGate \cup {"failed"}
      /\ pc' = "gate" => pc = "fuse" /\ Fuse
  BY Successors DEF BeforeGate
<1>3. Fuse => UNCHANGED <<candidates, semantic_order, lexical_order>>
  BY DEF Fuse, dense, sparse
<1>4. pc = "fuse" => candidates = Elems(semantic_order) \cup Elems(lexical_order)
  BY DEF BookedInv, RankInv, LegsKept
<1> QED BY <1>1, <1>2, <1>3, <1>4 DEF BookedInv, Booked, BeforeGate

LEMMA MiddleBooked ==
  ASSUME BookedInv, Gate \/ EmitFused \/ Rerank
  PROVE  Booked'
<1>1. UNCHANGED <<candidates, semantic_order, lexical_order>>
  BY DEF Gate, EmitFused, Rerank, dense, sparse
<1>2. \/ pc = "gate" /\ pc' = "emit_fused"
      \/ pc = "emit_fused" /\ pc' = "rerank" /\ UNCHANGED <<gate_passed, rejected_by>>
      \/ pc = "rerank" /\ pc' \in {"expand", "failed"} /\ UNCHANGED <<gate_passed, rejected_by>>
  BY Successors DEF EmitFused, Rerank, gated, labels
<1>3. pc = "gate" /\ gate_passed' => gate_passed /\ rejected_by' = rejected_by
  BY <1>2 DEF Gate, BookedInv, Undecided, BeforeGate, EmitFused, Rerank
<1> QED BY <1>1, <1>2, <1>3 DEF BookedInv, Booked, BeforeGate

LEMMA ExpandBooked ==
  ASSUME BookedInv, Expand
  PROVE  Booked'
<1>1. /\ pc = "expand" /\ pc' \in {"finalize", "failed"}
      /\ UNCHANGED <<cfg, gate_passed, rejected_by, fused_order>>
  BY Successors DEF Expand, request, gated, labels, fused
<1>2. candidates = Elems(fused_order)
  BY <1>1 DEF BookedInv, RankInv, RankingComplete, Booked
<1>3. Expansion' = Expansion
  BY <1>1 DEF Expansion
<1>4. \A c \in candidates' : c \in candidates \/ (cfg.expansion /\ c \in Expansion)
  BY DEF Expand, ExpandSkip, None
<1> QED BY <1>1, <1>2, <1>3, <1>4 DEF BookedInv, Booked, BeforeGate

LEMMA FinalizeBooked ==
  ASSUME BookedInv, Finalize, gate_passed
  PROVE  Booked'
<1>1. /\ TypeOK /\ RankedAreCandidates
      /\ pc = "finalize" /\ pc' \in {"generate", "trace"}
      /\ UNCHANGED <<cfg, candidates>>
  BY DEF BookedInv, TenantInv, Finalize, request
<1>2. /\ \A c \in Chunk : rejected_by[c] = None
      /\ \A c \in candidates : \/ c \in Elems(fused_order)
                               \/ cfg.expansion /\ c \in Expansion
  BY <1>1 DEF BookedInv, Booked
<1>3. Reached = candidates
  <2>1. Reached \subseteq candidates
    BY <1>1 DEF Reached, Brought, RankedAreCandidates
  <2>2. ASSUME NEW c \in candidates PROVE c \in Reached
    <3>1. CASE c \in Elems(fused_order)
      BY <3>1 DEF Reached, Brought
    <3>2. CASE cfg.expansion /\ c \in Expansion
      <4>1. PICK w \in Elems(Prefix(fused_order, cfg.max_context_chunks)) :
              c \in Neighbours(w, Span)
        BY <3>2 DEF Expansion
      <4>2. cfg.max_context_chunks \in Nat /\ fused_order \in Seq(Chunk)
        BY <1>1, PipelineAssumption DEF TypeOK, Config
      <4>3. w \in Elems(fused_order)
        BY <4>1, <4>2, PrefixOfSeq
      <4> QED BY <3>2, <4>1, <4>3 DEF Reached, Brought
    <3> QED BY <1>2, <3>1, <3>2
  <2> QED BY <2>1, <2>2
<1>4. /\ context_ids' = Selected
      /\ rejected_by' = Rejections(Elems(context_ids'))
      /\ inclusion_reason' = [c \in Chunk |->
           IF c \in Elems(context_ids') /\ inclusion_reason[c] = None THEN "fused_top_k"
           ELSE inclusion_reason[c]]
  BY DEF Finalize
<1>5. /\ Len(context_ids') = Cardinality(Elems(context_ids'))
      /\ Len(context_ids') = cfg.max_context_chunks \/ Elems(context_ids') = candidates
  BY <1>1, <1>3, <1>4, SelectedUsesBudget
<1>6. \A c \in candidates :
        IF c \in Elems(context_ids')
        THEN rejected_by'[c] = None /\ inclusion_reason'[c] # None
        ELSE rejected_by'[c] = "top_k"
  <2>1. candidates \subseteq Chunk
    BY <1>1 DEF TypeOK
  <2> QED BY <1>2, <1>4, <2>1 DEF Rejections, None
<1> QED BY <1>1, <1>5, <1>6 DEF Booked, BeforeGate

LEMMA EndBooked ==
  ASSUME BookedInv, Generate \/ Done \/ Fail
  PROVE  Booked'
<1>1. UNCHANGED <<cfg, gate_passed, candidates, context_ids, rejected_by, inclusion_reason>>
  BY DEF Generate, Done, Fail, request, gated, labels
<1>2. \/ pc \in {"generate", "trace"} /\ pc' \in {"trace", "done"}
      \/ pc' \in {"failed", "raised"}
  BY Successors DEF Done, Fail
<1> QED BY <1>1, <1>2 DEF BookedInv, Booked, BeforeGate

LEMMA BookedInductive == Spec => []Booked
<1>1. Init => Booked
  BY DEF Init, Booked, BeforeGate
<1>2. BookedInv /\ [Next]_vars => Booked'
  <2>1. BookedInv /\ UNCHANGED vars => Booked'
    BY DEF BookedInv, Booked, Expansion, vars, request, dense, sparse, fused, gated, labels
  <2>2. BookedInv /\ Finalize /\ ~gate_passed => Booked'
    BY DEF BookedInv, Booked, Finalize, BeforeGate, gated
  <2>3. BookedInv => gate_passed \in BOOLEAN
    BY DEF BookedInv, TenantInv, TypeOK
  <2> QED BY <2>1, <2>2, <2>3, EarlyBooked, MiddleBooked, ExpandBooked, FinalizeBooked,
             EndBooked DEF Next
<1>3. TenantInv /\ RefusalInv /\ RankInv /\ Booked => BookedInv
  BY DEF BookedInv, RefusalInv
<1> QED BY <1>1, <1>2, <1>3, TenantInductive, RefusalInductive, RankInductive, PTL DEF Spec

\* A finished run accounts for every candidate, whatever the legs returned, the
\* reranker promoted and expansion added, and uses its budget.
THEOREM CandidatesAccountedFor == Spec => []Accounted
<1>1. TypeOK /\ OnlySkipsRemain /\ Booked => Accounted
  <2> SUFFICES ASSUME TypeOK, OnlySkipsRemain, Booked, pc = "done" PROVE Accounted
    BY DEF Accounted
  <2>1. CASE gate_passed
    BY <2>1 DEF Booked, Accounted
  <2>2. CASE ~gate_passed
    BY <2>2, NoElems DEF OnlySkipsRemain, Accounted
  <2> QED BY <2>1, <2>2 DEF TypeOK
<1>2. RefusalInv => TypeOK /\ OnlySkipsRemain
  BY DEF RefusalInv
<1> QED BY <1>1, <1>2, RefusalInductive, BookedInductive, PTL

-----------------------------------------------------------------------------
(* Neighbours stand behind their winner.                                   *)

\* What a winner brings comes behind the winner in the context order, unless it is
\* ranked itself.
LEMMA WinnerFirst ==
  ASSUME TypeOK, NEW c \in Reached, c \notin Elems(fused_order)
  PROVE  /\ BroughtBy(c) \in DOMAIN fused_order
         /\ fused_order[BroughtBy(c)] \in Reached
         /\ c \in Neighbours(fused_order[BroughtBy(c)], Span)
         /\ <<fused_order[BroughtBy(c)], c>> \in ByWinner(Reached)
<1> DEFINE w == fused_order[BroughtBy(c)]
<1>1. /\ BroughtBy(c) \in DOMAIN fused_order /\ BroughtBy(c) \in Int
      /\ c \in Brought(w)
  BY BroughtByFirst DEF Reached
<1>2. w \in Elems(fused_order) /\ w # c
  BY <1>1 DEF Elems
<1>3. w \in Reached /\ w \in Brought(w)
  BY <1>2 DEF Reached, Brought
<1>4. c \in Neighbours(w, Span)
  BY <1>1, <1>2 DEF Brought
<1>5. /\ BroughtBy(w) \in DOMAIN fused_order /\ BroughtBy(w) \in Int
      /\ BroughtBy(w) <= BroughtBy(c)
  <2>1. /\ BroughtBy(w) \in DOMAIN fused_order /\ BroughtBy(w) \in Int
        /\ \A j \in 1 .. BroughtBy(w) - 1 : w \notin Brought(fused_order[j])
    BY <1>2, <1>3, BroughtByFirst
  <2>2. DOMAIN fused_order = 1 .. Len(fused_order) /\ Len(fused_order) \in Nat
    BY LenProperties DEF TypeOK
  <2> QED BY <1>1, <1>3, <2>1, <2>2
<1>6. <<w, c>> \in ByWinner(Reached)
  <2> DEFINE rank(x) == BroughtBy(x)
             won(x)  == fused_order[rank(x)] = x
  <2>1. <<w, c>> \in ByWinner(Reached) <=>
          \/ rank(w) < rank(c)
          \/ rank(w) = rank(c) /\ won(w) /\ ~won(c)
          \/ rank(w) = rank(c) /\ won(w) = won(c) /\ Ordinal[w] < Ordinal[c]
    BY <1>3 DEF ByWinner
  <2>2. CASE BroughtBy(w) < BroughtBy(c)
    BY <2>1, <2>2
  <2>3. CASE BroughtBy(w) = BroughtBy(c)
    BY <1>2, <2>1, <2>3
  <2> QED BY <1>1, <1>5, <2>2, <2>3
<1> QED BY <1>1, <1>3, <1>4, <1>6

\* Nothing comes before the best winner.
LEMMA BestFirst ==
  ASSUME TypeOK, fused_order # <<>>
  PROVE  /\ fused_order[1] \in Reached
         /\ \A c \in Reached : <<c, fused_order[1]>> \notin ByWinner(Reached)
<1> DEFINE w == fused_order[1]
<1>1. /\ DOMAIN fused_order = 1 .. Len(fused_order) /\ Len(fused_order) \in Nat
      /\ 1 \in DOMAIN fused_order
  <2>1. DOMAIN fused_order = 1 .. Len(fused_order) /\ Len(fused_order) \in Nat
    BY LenProperties DEF TypeOK
  <2>2. Len(fused_order) # 0
    BY EmptySeq DEF TypeOK
  <2> QED BY <2>1, <2>2
<1>2. w \in Elems(fused_order) /\ w \in Brought(w) /\ w \in Reached
  BY <1>1 DEF Elems, Brought, Reached
<1>3. BroughtBy(w) = 1
  <2>1. /\ BroughtBy(w) \in DOMAIN fused_order
        /\ \A j \in 1 .. BroughtBy(w) - 1 : w \notin Brought(fused_order[j])
    BY <1>2, BroughtByFirst
  <2> QED BY <1>1, <1>2, <2>1
<1>4. ASSUME NEW c \in Reached, <<c, w>> \in ByWinner(Reached) PROVE FALSE
  <2> DEFINE rank(x) == BroughtBy(x)
             won(x)  == fused_order[rank(x)] = x
  <2>1. \/ rank(c) < rank(w)
        \/ rank(c) = rank(w) /\ won(c) /\ ~won(w)
        \/ rank(c) = rank(w) /\ won(c) = won(w) /\ Ordinal[c] < Ordinal[w]
    BY <1>4 DEF ByWinner
  <2>2. rank(c) \in DOMAIN fused_order /\ rank(c) \in Int
    BY BroughtByFirst DEF Reached
  <2>3. rank(w) = 1 /\ won(w)
    BY <1>3
  <2>4. ~(rank(c) < 1)
    BY <1>1, <2>2
  <2>5. c = w /\ Ordinal[c] < Ordinal[w]
    BY <2>1, <2>3, <2>4
  <2>6. w \in Chunk
    BY <1>2, ByWinnerIsStrict
  <2>7. Ordinal[w] \in Int
    BY <2>6, CorpusAssumption
  <2> QED BY <2>5, <2>7
<1> QED BY <1>2, <1>4

\* What NeighboursFollowWinners says of the context that is about to be chosen.
LEMMA SelectedFollows ==
  ASSUME TypeOK, Selected # <<>>
  PROVE  /\ Selected[1] = fused_order[1]
         /\ \A i \in DOMAIN Selected :
              Selected[i] \in Elems(fused_order)
                \/ \E j \in 1 .. i - 1 : /\ Selected[j] \in Elems(fused_order)
                                         /\ Selected[i] \in Neighbours(Selected[j], Span)
<1>1. PICK s \in Seq(Reached) :
        /\ Elems(s) = Reached
        /\ \A i, j \in DOMAIN s : i < j => <<s[i], s[j]>> \in ByWinner(Reached)
        /\ Selected \in Seq(Reached)
        /\ Len(Selected) = IF cfg.max_context_chunks < Len(s) THEN cfg.max_context_chunks
                           ELSE Len(s)
        /\ \A i \in DOMAIN Selected : i \in DOMAIN s /\ Selected[i] = s[i]
  BY SelectedIsPrefix
<1>2. /\ DOMAIN s = 1 .. Len(s) /\ Len(s) \in Nat
      /\ DOMAIN Selected = 1 .. Len(Selected) /\ Len(Selected) \in Nat
      /\ 1 \in DOMAIN Selected /\ 1 \in DOMAIN s
  <2>1. /\ DOMAIN s = 1 .. Len(s) /\ Len(s) \in Nat
        /\ DOMAIN Selected = 1 .. Len(Selected) /\ Len(Selected) \in Nat
    BY <1>1, LenProperties
  <2>2. Len(Selected) # 0
    BY <1>1, EmptySeq
  <2>3. 1 \in DOMAIN Selected
    BY <2>1, <2>2
  <2> QED BY <1>1, <2>1, <2>3
<1>3. /\ StrictOrder(Reached, ByWinner(Reached))
      /\ \A i \in DOMAIN s : s[i] \in Reached
      /\ \A c \in Reached : \E i \in DOMAIN s : s[i] = c
  BY <1>1, ByWinnerIsStrict DEF Elems
<1>4. Selected[1] = fused_order[1]
  <2>1. fused_order # <<>>
    <3>1. Reached # {}
      BY <1>2, <1>3
    <3> QED BY <3>1, NoElems DEF Reached
  <2>2. PICK i \in DOMAIN s : s[i] = fused_order[1]
    BY <1>3, <2>1, BestFirst
  <2>3. ~(1 < i)
    BY <1>1, <1>2, <1>3, <2>1, <2>2, BestFirst
  <2> QED BY <1>1, <1>2, <2>2, <2>3
<1>5. ASSUME NEW i \in DOMAIN Selected, Selected[i] \notin Elems(fused_order)
      PROVE  \E j \in 1 .. i - 1 : /\ Selected[j] \in Elems(fused_order)
                                   /\ Selected[i] \in Neighbours(Selected[j], Span)
  <2>1. PICK w \in Reached : /\ w \in Elems(fused_order)
                             /\ Selected[i] \in Neighbours(w, Span)
                             /\ <<w, Selected[i]>> \in ByWinner(Reached)
    <3>1. Selected[i] \in Reached
      BY <1>1, <1>3
    <3> QED BY <1>5, <3>1, WinnerFirst DEF Elems
  <2>2. PICK j \in DOMAIN s : s[j] = w
    BY <1>3
  <2>3. i \in DOMAIN s /\ Selected[i] = s[i]
    BY <1>1
  <2>4. ~(i < j) /\ i # j
    <3>1. <<s[j], s[i]>> \in ByWinner(Reached) /\ s[i] \in Reached /\ s[j] \in Reached
      BY <1>3, <2>1, <2>2, <2>3
    <3>2. <<s[i], s[i]>> \notin ByWinner(Reached)
      BY <1>3, <3>1 DEF StrictOrder
    <3>3. <<s[i], s[j]>> \notin ByWinner(Reached)
      BY <1>3, <3>1, <3>2 DEF StrictOrder
    <3> QED BY <1>1, <2>3, <3>1, <3>2, <3>3
  <2>5. j \in 1 .. i - 1 /\ j \in DOMAIN Selected
    BY <1>2, <2>3, <2>4
  <2> QED BY <1>1, <2>1, <2>2, <2>5
<1> QED BY <1>4, <1>5

\* The context is chosen once, from an order that does not change any more.
Following ==
  /\ pc \in BeforeGate \cup {"emit_fused", "rerank", "expand", "finalize"} =>
       context_ids = <<>>
  /\ NeighboursFollowWinners

LEMMA FinalizeFollows ==
  ASSUME TypeOK, Following, Finalize
  PROVE  Following'
<1>1. fused_order' = fused_order /\ pc' \in {"generate", "trace"} /\ context_ids = <<>>
  BY DEF Finalize, fused, Following
<1>2. context_ids' = <<>> \/ context_ids' = Selected
  BY <1>1 DEF Finalize
<1> DEFINE context == context_ids'
<1>3. context # <<>> =>
        /\ context[1] = fused_order[1]
        /\ \A i \in DOMAIN context :
             context[i] \in Elems(fused_order)
               \/ \E j \in 1 .. i - 1 : /\ context[j] \in Elems(fused_order)
                                        /\ context[i] \in Neighbours(context[j], Span)
  <2>1. CASE context = Selected
    BY <2>1, SelectedFollows
  <2> QED BY <1>2, <2>1
<1> QED BY <1>1, <1>3 DEF Following, NeighboursFollowWinners, BeforeGate

\* Whatever entered the context on its neighbours' merit stands behind the winner it
\* belongs to, for every document layout, ranking and budget.
THEOREM NeighboursStandBehind == Spec => []NeighboursFollowWinners
<1>1. Init => Following
  BY DEF Init, Following, NeighboursFollowWinners
<1>2. TypeOK /\ Following /\ [Next]_vars => Following'
  <2> SUFFICES ASSUME TypeOK, Following, [Next]_vars PROVE Following'
    OBVIOUS
  <2>1. CASE Rewrite \/ Embed \/ RetrieveDense \/ RetrieveSparse \/ Fuse \/ Gate
               \/ EmitFused \/ Rerank
    <3>1. context_ids = <<>> /\ context_ids' = <<>>
      BY <2>1, Successors DEF Following, BeforeGate, Rewrite, Embed, RetrieveDense,
         RetrieveSparse, Fuse, Gate, EmitFused, Rerank
    <3> QED BY <3>1 DEF Following, NeighboursFollowWinners
  <2>2. CASE Expand \/ Generate \/ Done \/ Fail \/ UNCHANGED vars
    <3>1. UNCHANGED <<context_ids, fused_order>>
      BY <2>2 DEF Expand, Generate, Done, Fail, vars, fused
    <3>2. \/ pc' = pc
          \/ pc = "expand"
          \/ pc' \in {"trace", "failed", "done", "raised"}
      BY <2>2, Successors DEF Done, Fail, vars
    <3> QED BY <3>1, <3>2 DEF Following, NeighboursFollowWinners, BeforeGate
  <2>3. CASE Finalize
    BY <2>3, FinalizeFollows
  <2> QED BY <2>1, <2>2, <2>3 DEF Next
<1>3. Following => NeighboursFollowWinners
  BY DEF Following
<1> QED BY <1>1, <1>2, <1>3, TypeInvariant, PTL DEF Spec

-----------------------------------------------------------------------------
(* The stream: one stage event a record.                                   *)

LEMMA ToldAppended ==
  ASSUME NEW told \in Seq(Event), NEW e \in Event
  PROVE  /\ StagesTold(told, Len(told)) \in Nat
         /\ \A i \in 1 .. Len(told) :
              StagesTold(Append(told, e), i) = StagesTold(told, i)
         /\ StagesTold(Append(told, e), Len(told) + 1) =
              StagesTold(told, Len(told)) + IF e.type = "stage" THEN 1 ELSE 0
<1>01. PICK n \in Nat : n = Len(told)
  BY LenProperties
<1>02. PICK more : more = Append(told, e)
  OBVIOUS
<1>1. n = Len(told) /\ more = Append(told, e)
  BY <1>01, <1>02
<1>2. (\A i \in 1 .. n : more[i] = told[i]) /\ more[n + 1] = e
  BY <1>1, AppendProperties
<1> DEFINE S == {j \in 1 .. n : told[j].type = "stage"}
<1>3. ASSUME NEW i \in 1 .. n PROVE StagesTold(more, i) = StagesTold(told, i)
  <2>1. {j \in 1 .. i : more[j].type = "stage"} = {j \in 1 .. i : told[j].type = "stage"}
    BY <1>2
  <2> QED BY <2>1 DEF StagesTold
<1>4. IsFiniteSet(S) /\ n + 1 \notin S
  <2>1. IsFiniteSet(1 .. n) /\ S \subseteq 1 .. n
    BY FS_Interval
  <2>2. IsFiniteSet(S)
    BY <2>1, FS_Subset
  <2> QED BY <2>2
<1>5. Cardinality(S) \in Nat /\ Cardinality(S \cup {n + 1}) = Cardinality(S) + 1
  <2> HIDE DEF S
  <2> QED BY <1>4, FS_CardinalityType, FS_AddElement
<1>6. StagesTold(told, n) = Cardinality(S)
  BY DEF StagesTold
<1>7. CASE e.type = "stage"
  <2>1. {j \in 1 .. n + 1 : more[j].type = "stage"} = S \cup {n + 1}
    BY <1>2, <1>7
  <2>2. StagesTold(more, n + 1) = Cardinality(S) + 1
    BY <1>5, <2>1 DEF StagesTold
  <2> QED BY <1>1, <1>3, <1>5, <1>6, <1>7, <2>2
<1>8. CASE e.type # "stage"
  <2>1. {j \in 1 .. n + 1 : more[j].type = "stage"} = S
    BY <1>2, <1>8
  <2>2. StagesTold(more, n + 1) = Cardinality(S)
    BY <2>1 DEF StagesTold
  <2>3. StagesTold(more, n + 1) = Cardinality(S) + 0
    BY <1>5, <2>2
  <2> QED BY <1>1, <1>3, <1>5, <1>6, <1>8, <2>3
<1> QED BY <1>7, <1>8

\* The k-th stage event told is of the k-th record.
Tells(told, kept) ==
  /\ StagesTold(told, Len(told)) = Len(kept)
  /\ \A i \in 1 .. Len(told) :
       told[i].type = "stage" =>
         /\ StagesTold(told, i) \in 1 .. Len(kept)
         /\ told[i].of = kept[StagesTold(told, i)].name

LEMMA TellsOther ==
  ASSUME NEW told \in Seq(Event), NEW kept \in Seq(Record), Tells(told, kept),
         NEW e \in Event, e.type # "stage"
  PROVE  Tells(Append(told, e), kept)
<1>01. PICK n \in Nat : n = Len(told)
  BY LenProperties
<1>02. PICK more : more = Append(told, e)
  OBVIOUS
<1>1. n = Len(told) /\ more = Append(told, e)
  BY <1>01, <1>02
<1>2. Len(more) = n + 1 /\ (\A i \in 1 .. n : more[i] = told[i]) /\ more[n + 1] = e
  BY <1>1, AppendProperties
<1>3. /\ \A i \in 1 .. n : StagesTold(more, i) = StagesTold(told, i)
      /\ StagesTold(told, n) \in Nat
      /\ StagesTold(more, n + 1) = StagesTold(told, n) + IF e.type = "stage" THEN 1 ELSE 0
  BY <1>1, ToldAppended
<1>4. StagesTold(more, n + 1) = Len(kept)
  BY <1>1, <1>3 DEF Tells
<1>5. ASSUME NEW i \in 1 .. n + 1, more[i].type = "stage"
      PROVE  /\ StagesTold(more, i) \in 1 .. Len(kept)
             /\ more[i].of = kept[StagesTold(more, i)].name
  <2>1. i \in 1 .. n
    BY <1>2, <1>5
  <2> QED BY <1>1, <1>2, <1>3, <1>5, <2>1 DEF Tells
<1> QED BY <1>1, <1>2, <1>4, <1>5 DEF Tells

LEMMA TellsStage ==
  ASSUME NEW told \in Seq(Event), NEW kept \in Seq(Record), Tells(told, kept),
         NEW e \in Event, e.type = "stage", NEW r \in Record, r.name = e.of
  PROVE  Tells(Append(told, e), Append(kept, r))
<1>01. PICK n \in Nat : n = Len(told)
  BY LenProperties
<1>02. PICK more : more = Append(told, e)
  OBVIOUS
<1>1. n = Len(told) /\ more = Append(told, e)
  BY <1>01, <1>02
<1>03. PICK m \in Nat : m = Len(kept)
  BY LenProperties
<1>04. PICK now : now = Append(kept, r)
  OBVIOUS
<1>2. m = Len(kept) /\ now = Append(kept, r)
  BY <1>03, <1>04
<1>3. Len(more) = n + 1 /\ (\A i \in 1 .. n : more[i] = told[i]) /\ more[n + 1] = e
  BY <1>1, AppendProperties
<1>4. Len(now) = m + 1 /\ (\A i \in 1 .. m : now[i] = kept[i]) /\ now[m + 1] = r
  BY <1>2, AppendProperties
<1>5. /\ \A i \in 1 .. n : StagesTold(more, i) = StagesTold(told, i)
      /\ StagesTold(told, n) = m
      /\ StagesTold(more, n + 1) = StagesTold(told, n) + IF e.type = "stage" THEN 1 ELSE 0
  BY <1>1, <1>2, ToldAppended DEF Tells
<1>6. StagesTold(more, n + 1) = m + 1
  BY <1>5
<1>7. ASSUME NEW i \in 1 .. n + 1, more[i].type = "stage"
      PROVE  /\ StagesTold(more, i) \in 1 .. m + 1
             /\ more[i].of = now[StagesTold(more, i)].name
  <2>1. CASE i = n + 1
    BY <1>3, <1>4, <1>6, <2>1
  <2>2. CASE i \in 1 .. n
    <3>1. /\ StagesTold(told, i) \in 1 .. m
          /\ told[i].of = kept[StagesTold(told, i)].name
      BY <1>1, <1>2, <1>3, <1>7, <2>2 DEF Tells
    <3> QED BY <1>3, <1>4, <1>5, <2>2, <3>1
  <2> QED BY <2>1, <2>2
<1> QED BY <1>1, <1>2, <1>3, <1>4, <1>6, <1>7 DEF Tells

\* Where an event stands among the others, and that nothing follows a terminal one.
Placed(told, end) ==
  \A i \in 1 .. Len(told) :
    /\ told[i].type = "candidates" =>
         i < Len(told) /\ told[i + 1].of \in {"retrieve_dense", "retrieve_sparse"}
    /\ told[i].type \in {"done", "error"} <=> end /\ i = Len(told)
    /\ told[i].type = "fused" => i > 1 /\ told[i - 1].of = "gate"

LEMMA PlacedAppended ==
  ASSUME NEW told \in Seq(Event), Placed(told, FALSE), NEW e \in Event,
         e.type # "candidates",
         e.type = "fused" => Len(told) > 0 /\ told[Len(told)].of = "gate"
  PROVE  Placed(Append(told, e), e.type \in {"done", "error"})
<1>01. PICK n \in Nat : n = Len(told)
  BY LenProperties
<1>02. PICK more : more = Append(told, e)
  OBVIOUS
<1>1. n = Len(told) /\ more = Append(told, e)
  BY <1>01, <1>02
<1>2. Len(more) = n + 1 /\ (\A i \in 1 .. n : more[i] = told[i]) /\ more[n + 1] = e
  BY <1>1, AppendProperties
<1> DEFINE end == e.type \in {"done", "error"}
<1>3. ASSUME NEW i \in 1 .. n + 1
      PROVE  /\ more[i].type = "candidates" =>
                  i < n + 1 /\ more[i + 1].of \in {"retrieve_dense", "retrieve_sparse"}
             /\ more[i].type \in {"done", "error"} <=> end /\ i = n + 1
             /\ more[i].type = "fused" => i > 1 /\ more[i - 1].of = "gate"
  <2>1. CASE i = n + 1
    BY <1>1, <1>2, <2>1
  <2>2. CASE i \in 1 .. n
    <3>1. /\ told[i].type = "candidates" =>
               i < n /\ told[i + 1].of \in {"retrieve_dense", "retrieve_sparse"}
          /\ told[i].type \notin {"done", "error"}
          /\ told[i].type = "fused" => i > 1 /\ told[i - 1].of = "gate"
      BY <1>1, <2>2 DEF Placed
    <3>2. more[i] = told[i] /\ (i < n => more[i + 1] = told[i + 1])
            /\ (i > 1 => more[i - 1] = told[i - 1])
      BY <1>2, <2>2
    <3> QED BY <2>2, <3>1, <3>2
  <2> QED BY <2>1, <2>2
<1> QED BY <1>1, <1>2, <1>3 DEF Placed

\* Candidates are followed at once by the stage that found them.
LEMMA PlacedWithCandidates ==
  ASSUME NEW told \in Seq(Event), Placed(told, FALSE), NEW c \in Event, NEW e \in Event,
         c.type = "candidates", e.type = "stage",
         e.of \in {"retrieve_dense", "retrieve_sparse"}
  PROVE  Placed(Append(Append(told, c), e), FALSE)
<1>01. PICK n \in Nat : n = Len(told)
  BY LenProperties
<1>02. PICK mid, more : mid = Append(told, c) /\ more = Append(mid, e)
  OBVIOUS
<1>1. n = Len(told) /\ mid = Append(told, c) /\ more = Append(mid, e)
  BY <1>01, <1>02
<1>2. /\ mid \in Seq(Event) /\ Len(mid) = n + 1
      /\ (\A i \in 1 .. n : mid[i] = told[i]) /\ mid[n + 1] = c
  BY <1>1, AppendProperties
<1>3. /\ Len(more) = n + 2 /\ \A i \in 1 .. n + 1 : more[i] = mid[i]
      /\ more[n + 2] = e
  <2>1. /\ Len(more) = Len(mid) + 1 /\ \A i \in 1 .. Len(mid) : more[i] = mid[i]
        /\ more[Len(mid) + 1] = e
    BY <1>1, <1>2, AppendProperties
  <2> QED BY <1>2, <2>1
<1>4. ASSUME NEW i \in 1 .. n + 2
      PROVE  /\ more[i].type = "candidates" =>
                  i < n + 2 /\ more[i + 1].of \in {"retrieve_dense", "retrieve_sparse"}
             /\ more[i].type \notin {"done", "error"}
             /\ more[i].type = "fused" => i > 1 /\ more[i - 1].of = "gate"
  <2>1. CASE i = n + 2
    BY <1>3, <2>1
  <2>2. CASE i = n + 1
    <3>1. more[i] = c /\ more[i + 1] = e
      BY <1>2, <1>3, <2>2
    <3> QED BY <2>2, <3>1
  <2>3. CASE i \in 1 .. n
    <3>1. /\ told[i].type = "candidates" =>
               i < n /\ told[i + 1].of \in {"retrieve_dense", "retrieve_sparse"}
          /\ told[i].type \notin {"done", "error"}
          /\ told[i].type = "fused" => i > 1 /\ told[i - 1].of = "gate"
      BY <1>1, <2>3 DEF Placed
    <3>2. more[i] = told[i] /\ (i < n => more[i + 1] = told[i + 1])
            /\ (i > 1 => more[i - 1] = told[i - 1])
      BY <1>2, <1>3, <2>3
    <3> QED BY <2>3, <3>1, <3>2
  <2> QED BY <2>1, <2>2, <2>3
<1> QED BY <1>1, <1>3, <1>4 DEF Placed

\* The stream matches the records kept so far, and the gate spoke last when the fused
\* event is due.
Streamed ==
  /\ Tells(events, records)
  /\ Placed(events, Finished)
  /\ pc = "emit_fused" => Len(events) > 0 /\ events[Len(events)].of = "gate"

\* A stage tells what it leaves: its event, after the candidates it found.
LEMMA StageTells ==
  ASSUME TypeOK, Streamed, NEW name \in StageName, pc = name,
         \/ \E reason \in SkipReason : Skip(name, reason)
         \/ Ran(name, <<>>)
         \/ /\ name \in {"retrieve_dense", "retrieve_sparse"}
            /\ \E leg \in {"semantic", "lexical"} :
                 Ran(name, <<[type |-> "candidates", of |-> leg]>>)
         \/ \E error \in Exception : Raised(name, error)
  PROVE  Streamed'
<1> DEFINE e == [type |-> "stage", of |-> name]
           c(leg) == [type |-> "candidates", of |-> leg]
<1>1. e \in Event /\ \A leg \in {"semantic", "lexical"} : c(leg) \in Event
  BY DEF Event
<1>2. e.type = "stage" /\ e.of = name /\ \A leg : c(leg).type = "candidates"
  OBVIOUS
<1>3. events \in Seq(Event) /\ records \in Seq(Record)
  BY DEF TypeOK
<1>4. PICK r \in Record : records' = Append(records, r) /\ r.name = name
  <2>1. \A outcome \in {"ran", "skipped", "error"} :
          \A reason \in SkipReason \cup Exception \cup {None} :
            [name |-> name, outcome |-> outcome, reason |-> reason] \in Record
    BY DEF Record
  <2>2. \E outcome \in {"ran", "skipped", "error"} :
          \E reason \in SkipReason \cup Exception \cup {None} :
            records' = Append(records, [name |-> name, outcome |-> outcome, reason |-> reason])
    BY DEF Skip, Ran, Raised, Report
  <2> QED BY <2>1, <2>2
<1>5. \/ events' = events \o <<>> \o <<e>>
      \/ /\ name \in {"retrieve_dense", "retrieve_sparse"}
         /\ \E leg \in {"semantic", "lexical"} : events' = events \o <<c(leg)>> \o <<e>>
  BY DEF Skip, Ran, Raised, Report
<1>6. pc' = "failed" \/ pc' = After(name)
  BY DEF Skip, Ran, Raised
<1>7. /\ Finished = FALSE /\ Finished' = FALSE
      /\ pc' = "emit_fused" => name = "gate"
  BY <1>6, StageNames DEF Finished, After
<1>8. Placed(events, FALSE) /\ Tells(events, records)
  BY <1>7 DEF Streamed
<1> HIDE DEF e, c
<1>9. CASE events' = events \o <<>> \o <<e>>
  <2>1. events' = Append(events, e)
    BY <1>1, <1>3, <1>9, ConcatEmptySeq, AppendIsConcat
  <2>2. Tells(events', records')
    BY <1>1, <1>2, <1>3, <1>4, <1>8, <2>1, TellsStage
  <2>3. Placed(events', FALSE)
    <3>1. Placed(Append(events, e), e.type \in {"done", "error"})
      BY <1>1, <1>2, <1>3, <1>8, PlacedAppended
    <3>2. (e.type \in {"done", "error"}) = FALSE
      BY <1>2
    <3> QED BY <2>1, <3>1, <3>2
  <2>4. Len(events') = Len(events) + 1 /\ Len(events) \in Nat
        /\ events'[Len(events')] = e
    BY <1>1, <1>3, <2>1, AppendProperties, LenProperties
  <2>5. Len(events') > 0 /\ events'[Len(events')].of = name
    BY <1>2, <2>4
  <2>6. pc' = "emit_fused" => events'[Len(events')].of = "gate"
    BY <1>7, <2>5
  <2> QED BY <1>7, <2>2, <2>3, <2>5, <2>6 DEF Streamed
<1>10. ASSUME name \in {"retrieve_dense", "retrieve_sparse"},
              NEW leg \in {"semantic", "lexical"},
              events' = events \o <<c(leg)>> \o <<e>>
       PROVE  Streamed'
  <2>1. c(leg) \in Event /\ c(leg).type = "candidates"
    BY <1>1, <1>2
  <2>2. PICK mid : mid = Append(events, c(leg)) /\ mid \in Seq(Event)
    BY <1>3, <2>1, AppendProperties
  <2>3. events' = Append(mid, e)
    BY <1>1, <1>3, <1>10, <2>1, <2>2, AppendIsConcat
  <2>4. Tells(mid, records)
    BY <1>3, <1>8, <2>1, <2>2, TellsOther
  <2>5. Tells(events', records')
    BY <1>1, <1>2, <1>3, <1>4, <2>2, <2>3, <2>4, TellsStage
  <2>6. Placed(events', FALSE)
    BY <1>1, <1>2, <1>3, <1>8, <1>10, <2>1, <2>2, <2>3, PlacedWithCandidates
  <2>7. pc' # "emit_fused"
    BY <1>7, <1>10
  <2> QED BY <1>7, <2>5, <2>6, <2>7 DEF Streamed
<1> QED BY <1>5, <1>9, <1>10

LEMMA EveryStageTells ==
  ASSUME TypeOK, Streamed,
         \/ Rewrite \/ Embed \/ RetrieveDense \/ RetrieveSparse \/ Fuse \/ Gate
         \/ Rerank \/ Expand \/ Generate
  PROVE  Streamed'
<1>0. /\ \A x \in {"ProviderError", "PermissionError", "ValueError"} : x \in Exception
      /\ \A x \in {"ablated", "no_candidates", "already_refused"} : x \in SkipReason
  BY DEF Exception, SkipReason
<1>1. CASE Rewrite
  <2>1. RewriteSkip # None => RewriteSkip \in SkipReason
    BY DEF RewriteSkip, SkipReason
  <2> QED BY <1>0, <1>1, <2>1, StageNames, StageTells DEF Rewrite
<1>2. CASE Embed
  BY <1>0, <1>2, StageNames, StageTells DEF Embed
<1>3. CASE RetrieveDense
  <2>1. DenseSkip # None => DenseSkip \in SkipReason
    BY DEF DenseSkip, SkipReason
  <2>2. \/ \E reason \in SkipReason : Skip("retrieve_dense", reason)
        \/ Ran("retrieve_dense", <<[type |-> "candidates", of |-> "semantic"]>>)
        \/ \E error \in Exception : Raised("retrieve_dense", error)
    BY <1>0, <1>3, <2>1 DEF RetrieveDense, Retrieved
  <2> QED BY <1>3, <2>2, StageNames, StageTells DEF RetrieveDense
<1>4. CASE RetrieveSparse
  <2>1. \/ \E reason \in SkipReason : Skip("retrieve_sparse", reason)
        \/ Ran("retrieve_sparse", <<[type |-> "candidates", of |-> "lexical"]>>)
        \/ \E error \in Exception : Raised("retrieve_sparse", error)
    BY <1>0, <1>4 DEF RetrieveSparse, Retrieved
  <2> QED BY <1>4, <2>1, StageNames, StageTells DEF RetrieveSparse
<1>5. CASE Fuse
  BY <1>0, <1>5, StageNames, StageTells DEF Fuse
<1>6. CASE Gate
  <2>1. GateSkip # None => GateSkip \in SkipReason
    BY DEF GateSkip, SkipReason
  <2> QED BY <1>6, <2>1, StageNames, StageTells DEF Gate
<1>7. CASE Rerank
  <2>1. RerankSkip # None => RerankSkip \in SkipReason
    BY DEF RerankSkip, SkipReason
  <2> QED BY <1>0, <1>7, <2>1, StageNames, StageTells DEF Rerank
<1>8. CASE Expand
  <2>1. ExpandSkip # None => ExpandSkip \in SkipReason
    BY DEF ExpandSkip, SkipReason
  <2>2. \/ \E reason \in SkipReason : Skip("expand", reason)
        \/ Ran("expand", <<>>)
        \/ \E error \in Exception : Raised("expand", error)
    BY <1>0, <1>8, <2>1 DEF Expand
  <2> QED BY <1>8, <2>2, StageNames, StageTells DEF Expand
<1>9. CASE Generate
  BY <1>0, <1>9, StageNames, StageTells DEF Generate
<1> QED BY <1>1, <1>2, <1>3, <1>4, <1>5, <1>6, <1>7, <1>8, <1>9

\* The fused event and the terminal one are told between and after the stages.
LEMMA OtherTells ==
  ASSUME TypeOK, Streamed, NEW e \in Event, e.type \in {"fused", "done", "error"},
         events' = Append(events, e), records' = records, ~Finished,
         e.type = "fused" => Len(events) > 0 /\ events[Len(events)].of = "gate",
         pc' # "emit_fused", Finished' = (e.type \in {"done", "error"})
  PROVE  Streamed'
<1>1. events \in Seq(Event) /\ records \in Seq(Record)
  BY DEF TypeOK
<1>2. Finished = FALSE
  BY DEF Finished
<1>3. Tells(events', records')
  BY <1>1, TellsOther DEF Streamed
<1>4. Placed(events', e.type \in {"done", "error"})
  BY <1>1, <1>2, PlacedAppended DEF Streamed
<1> QED BY <1>3, <1>4 DEF Streamed

LEMMA StreamInductive == Spec => []Streamed
<1>1. Init => Streamed
  <2> SUFFICES ASSUME Init PROVE Streamed
    OBVIOUS
  <2>1. events = <<>> /\ records = <<>> /\ Len(<<>>) = 0 /\ pc = "rewrite"
    BY EmptySeq DEF Init
  <2>2. StagesTold(<<>>, 0) = 0
    <3>1. {j \in 1 .. 0 : <<>>[j].type = "stage"} = {}
      OBVIOUS
    <3> QED BY <3>1, FS_EmptySet DEF StagesTold
  <2> QED BY <2>1, <2>2 DEF Streamed, Tells, Placed
<1>2. TypeOK /\ Streamed /\ [Next]_vars => Streamed'
  <2> SUFFICES ASSUME TypeOK, Streamed, [Next]_vars PROVE Streamed'
    OBVIOUS
  <2>1. CASE EmitFused
    <3>1. PICK e : e = [type |-> "fused", of |-> gate_signal]
      OBVIOUS
    <3>2. e \in Event /\ e.type = "fused"
      BY <3>1 DEF TypeOK, Event
    <3>3. Finished = FALSE /\ Finished' = FALSE /\ pc = "emit_fused" /\ pc' = "rerank"
      BY <2>1 DEF EmitFused, Finished
    <3>4. events' = Append(events, e) /\ records' = records
      BY <2>1, <3>1 DEF EmitFused
    <3>5. Len(events) > 0 /\ events[Len(events)].of = "gate"
      BY <3>3 DEF Streamed
    <3>6. (e.type \in {"done", "error"}) = FALSE
      BY <3>2
    <3> QED BY <3>2, <3>3, <3>4, <3>5, <3>6, OtherTells
  <2>2. CASE Done \/ Fail
    <3>1. PICK e : /\ e \in {[type |-> "done", of |-> None], [type |-> "error", of |-> None]}
                   /\ events' = Append(events, e) /\ records' = records
      BY <2>2 DEF Done, Fail
    <3>2. e \in Event /\ e.type \in {"done", "error"}
      BY <3>1 DEF Event
    <3>3. Finished = FALSE /\ Finished' = TRUE /\ pc' # "emit_fused"
      BY <2>2 DEF Done, Fail, Finished
    <3> QED BY <3>1, <3>2, <3>3, OtherTells
  <2>3. CASE Finalize
    <3>1. Finished = FALSE /\ Finished' = FALSE /\ pc' # "emit_fused"
      BY <2>3 DEF Finalize, Finished
    <3>2. UNCHANGED <<events, records>>
      BY <2>3 DEF Finalize, reported
    <3> QED BY <3>1, <3>2 DEF Streamed
  <2>4. CASE UNCHANGED vars
    BY <2>4 DEF vars, reported, Streamed, Finished
  <2> QED BY <2>1, <2>2, <2>3, <2>4, EveryStageTells DEF Next
<1> QED BY <1>1, <1>2, TypeInvariant, PTL DEF Spec

\* The stream tells the story of the trace: the k-th stage event is of the k-th record,
\* the candidates come right before the stage that found them, the fused event right
\* after the gate, and one terminal event at the end of a finished run.
THEOREM StreamTellsTheTrace == Spec => []StreamMatchesTrace
<1>1. TypeOK /\ Streamed => StreamMatchesTrace
  <2> SUFFICES ASSUME TypeOK, Streamed PROVE StreamMatchesTrace
    OBVIOUS
  <2>1. DOMAIN events = 1 .. Len(events)
    BY LenProperties DEF TypeOK
  <2> QED BY <2>1 DEF Streamed, Tells, Placed, StreamMatchesTrace
<1> QED BY <1>1, TypeInvariant, StreamInductive, PTL
=============================================================================
