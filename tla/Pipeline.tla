------------------------------ MODULE Pipeline ------------------------------
(***************************************************************************)
(* One run of the retrieval pipeline (autopsy/pipeline.py, Pipeline.run):  *)
(* nine stages in a fixed order, each of which first decides whether to    *)
(* skip itself (autopsy/stages/*.py), the assembly of the context between  *)
(* the last two, and the trace that is built whether or not a stage raised.*)
(*                                                                         *)
(* What the run cannot know is chosen by \E: what each leg scores, what    *)
(* the models reply, and whether a call that leaves the process raises.    *)
(***************************************************************************)
EXTENDS Corpus, PipelineConfig

CONSTANTS Requests,        \* the calls of run(): config, tenant, history?, generate?
          SemanticScores,  \* what the dense leg may give a chunk; 0 is or is below zero
          LexicalScores,   \* what the sparse leg may give a chunk; 0 is no hit
          RerankScores,    \* what the reranker may give a chunk
          TopK,            \* semantic.top_k and lexical.top_k
          RrfK,            \* fusion.rrf_k
          TopN,            \* rerank.top_n
          Span             \* expansion.neighbours

ASSUME PipelineAssumption ==
  /\ Requests \subseteq [cfg : Config, tenant : Tenant,
                        history : BOOLEAN, generate : BOOLEAN]
  /\ SemanticScores \subseteq Nat
  /\ LexicalScores \subseteq Nat
  /\ RerankScores \subseteq Nat
  /\ TopK \in Nat /\ RrfK \in Nat /\ TopN \in Nat /\ Span \in Nat

VARIABLES
  \* what the caller asked for
  cfg, tenant, history, generate,
  \* the next step of run(), and what the rewrite and the embedder left
  pc, rewritten, embedded,
  \* State: the candidates and the order of each ranking
  candidates, semantic_order, lexical_order, fused_order,
  \* the scores of each Candidate
  semantic_score, lexical_score, fused_score, rerank_score,
  \* the gate's reading
  gate_signal, gate_passed,
  \* the labels of each Candidate, and the context in final_rank order
  inclusion_reason, rejected_by, context_ids,
  \* what the caller gets: the answer, the stage records, the stream, the trace
  answer, records, events, trace

request  == <<cfg, tenant, history, generate>>
query    == <<rewritten, embedded>>
dense    == <<semantic_order, semantic_score>>
sparse   == <<lexical_order, lexical_score>>
fused    == <<fused_order, fused_score>>
gated    == <<gate_signal, gate_passed>>
labels   == <<inclusion_reason, rejected_by>>
reported == <<records, events>>
vars == <<request, pc, query, candidates, dense, sparse, fused, rerank_score,
          gated, labels, context_ids, answer, reported, trace>>

None     == "none"
Unscored == -1

STAGE_ORDER == <<"rewrite", "embed", "retrieve_dense", "retrieve_sparse",
                 "fuse", "gate", "rerank", "expand", "generate">>
StageName == {STAGE_ORDER[i] : i \in 1 .. 9}

-----------------------------------------------------------------------------
(* stage_span and execute.                                                 *)

\* The step of run() after a stage: the fused event follows the gate, the
\* context is assembled after expand, the trace is built after generate.
After(name) ==
  CASE name = "rewrite"         -> "embed"
    [] name = "embed"           -> "retrieve_dense"
    [] name = "retrieve_dense"  -> "retrieve_sparse"
    [] name = "retrieve_sparse" -> "fuse"
    [] name = "fuse"            -> "gate"
    [] name = "gate"            -> "emit_fused"
    [] name = "rerank"          -> "expand"
    [] name = "expand"          -> "finalize"
    [] name = "generate"        -> "trace"

\* Slips the runs must catch: the event sent when the stage starts, ...
ReportEventFirst(name, outcome, reason, emitted) ==
  /\ records' = Append(records, [name |-> name, outcome |-> outcome,
                                 reason |-> reason])
  /\ events' = events \o <<[type |-> "stage", of |-> name]>> \o emitted

\* ... and the record appended only when the stage ends well.
RaisedUnrecorded(name, error) ==
  /\ events' = Append(events, [type |-> "stage", of |-> name])
  /\ UNCHANGED records
  /\ pc' = "failed"

\* A stage leaves one record and, after whatever it emitted itself, one event.
Report(name, outcome, reason, emitted) ==
  /\ records' = Append(records, [name |-> name, outcome |-> outcome,
                                 reason |-> reason])
  /\ events' = events \o emitted \o <<[type |-> "stage", of |-> name]>>

Skip(name, reason) ==
  Report(name, "skipped", reason, <<>>) /\ pc' = After(name)

Ran(name, emitted) ==
  Report(name, "ran", None, emitted) /\ pc' = After(name)

\* The exception is recorded, re-raised, and ends the loop over the stages.
Raised(name, error) ==
  Report(name, "error", error, <<>>) /\ pc' = "failed"

\* ensure_candidate over a list of hits: it raises at the first foreign one,
\* and the hits before it are candidates by then.
Admitted(hits) ==
  [i \in {i \in DOMAIN hits : \A j \in 1 .. i : hits[j] \in Permitted(tenant)} |->
     hits[i]]

\* A leg that admitted all its hits emits them; else the boundary check raised.
Retrieved(name, leg, hits) ==
  IF Admitted(hits) = hits
  THEN Ran(name, <<[type |-> "candidates", of |-> leg]>>)
  ELSE Raised(name, "PermissionError")

-----------------------------------------------------------------------------
(* RewriteStage and EmbedStage.  Both call out of the process.             *)

RewriteSkip ==
  IF ~cfg.rewrite THEN "ablated" ELSE IF ~history THEN "standalone" ELSE None

Rewrite ==
  /\ pc = "rewrite"
  /\ \/ RewriteSkip # None /\ Skip("rewrite", RewriteSkip) /\ UNCHANGED rewritten
     \/ RewriteSkip = None /\ Ran("rewrite", <<>>) /\ rewritten' \in BOOLEAN
     \/ RewriteSkip = None /\ Raised("rewrite", "ProviderError") /\ UNCHANGED rewritten
  /\ UNCHANGED <<request, embedded, candidates, dense, sparse, fused,
                 rerank_score, gated, labels, context_ids, answer, trace>>

Embed ==
  /\ pc = "embed"
  /\ \/ ~cfg.semantic /\ Skip("embed", "ablated") /\ UNCHANGED embedded
     \/ cfg.semantic /\ Ran("embed", <<>>) /\ embedded' = TRUE
     \/ cfg.semantic /\ Raised("embed", "ProviderError") /\ UNCHANGED embedded
  /\ UNCHANGED <<request, rewritten, candidates, dense, sparse, fused,
                 rerank_score, gated, labels, context_ids, answer, trace>>

-----------------------------------------------------------------------------
(* The two retrieval legs.                                                 *)

\* A search over the tenant's scope: the positive scores, best first, cut to k.
Search(t, score, k) ==
  Prefix(Sorted({c \in Scope(t) : score[c] > 0}, ByScore(score)), k)

\* A vector server does not look at the sign, and leaves ties in an order of its own.
ServerHits(t, score, k) ==
  LET n == IF k < Cardinality(Scope(t)) THEN k ELSE Cardinality(Scope(t))
  IN  {hits \in [1 .. n -> Scope(t)] :
         /\ \A i, j \in 1 .. n : i < j => /\ hits[i] # hits[j]
                                        /\ score[hits[i]] >= score[hits[j]]
         /\ \A i \in 1 .. n : \A c \in Scope(t) \ Elems(hits) : score[hits[i]] >= score[c]}

DenseSkip ==
  IF ~cfg.semantic THEN "ablated" ELSE IF ~embedded THEN "no_embedding" ELSE None

\* The vectors may not match the query, or a vector server may not answer.
RetrieveDense ==
  /\ pc = "retrieve_dense"
  /\ \/ /\ DenseSkip # None
        /\ Skip("retrieve_dense", DenseSkip)
        /\ UNCHANGED <<candidates, dense>>
     \/ /\ DenseSkip = None
        /\ \E score \in [Scope(tenant) -> SemanticScores] :
           \E hits \in {Search(tenant, score, TopK)} \cup ServerHits(tenant, score, TopK) :
             LET seen == Elems(Admitted(hits))
             IN  /\ candidates' = candidates \cup seen
                 /\ semantic_order' = Admitted(hits)
                 /\ semantic_score' = [c \in Chunk |-> IF c \in seen THEN score[c] ELSE 0]
                 /\ Retrieved("retrieve_dense", "semantic", hits)
     \/ /\ DenseSkip = None
        /\ Raised("retrieve_dense", "ProviderError")
        /\ UNCHANGED <<candidates, dense>>
  /\ UNCHANGED <<request, query, sparse, fused, rerank_score, gated, labels,
                 context_ids, answer, trace>>

\* In-process, but it refuses a tenant that can see no chunk at all.
RetrieveSparse ==
  /\ pc = "retrieve_sparse"
  /\ \/ /\ ~cfg.lexical
        /\ Skip("retrieve_sparse", "ablated")
        /\ UNCHANGED <<candidates, sparse>>
     \/ /\ cfg.lexical
        /\ IF Scope(tenant) = {}
           THEN /\ Raised("retrieve_sparse", "ValueError")
                /\ UNCHANGED <<candidates, sparse>>
           ELSE \E score \in [Scope(tenant) -> LexicalScores] :
                  LET hits == Search(tenant, score, TopK)
                      seen == Elems(Admitted(hits))
                  IN  /\ candidates' = candidates \cup seen
                      /\ lexical_order' = Admitted(hits)
                      /\ lexical_score' = [c \in Chunk |-> IF c \in seen THEN score[c] ELSE 0]
                      /\ Retrieved("retrieve_sparse", "lexical", hits)
  /\ UNCHANGED <<request, query, dense, fused, rerank_score, gated, labels,
                 context_ids, answer, trace>>

-----------------------------------------------------------------------------
(* FuseStage and GateStage: pure.                                          *)

\* The position of a chunk in a ranking, 10^6 when it is not ranked.
RankIn(order, c) ==
  IF c \in Elems(order) THEN CHOOSE i \in DOMAIN order : order[i] = c ELSE 1000000

\* 1/(k + rank), in millionths.
Reciprocal(k, order, c) ==
  IF c \in Elems(order) THEN Scale \div (k + RankIn(order, c)) ELSE 0

\* Slip: a single leg passes its rank through negated instead of inverted.
FusedScoreNegated(c) ==
  IF cfg.lexical /\ cfg.semantic
  THEN IF cfg.fusion
       THEN Reciprocal(RrfK, lexical_order, c) + Reciprocal(RrfK, semantic_order, c)
       ELSE lexical_score[c] + semantic_score[c]
  ELSE 0 - RankIn(IF cfg.lexical THEN lexical_order ELSE semantic_order, c)

\* Reciprocal ranks when fused, raw sums when the fusion is ablated, and the
\* inverted rank of the surviving leg when there is only one.
FusedScore(c) ==
  IF cfg.lexical /\ cfg.semantic
  THEN IF cfg.fusion
       THEN Reciprocal(RrfK, lexical_order, c) + Reciprocal(RrfK, semantic_order, c)
       ELSE lexical_score[c] + semantic_score[c]
  ELSE Scale \div (1 + RankIn(IF cfg.lexical THEN lexical_order ELSE semantic_order, c))

Fuse ==
  /\ pc = "fuse"
  /\ \/ candidates = {} /\ Skip("fuse", "no_candidates") /\ UNCHANGED fused
     \/ /\ candidates # {}
        /\ fused_score' = [c \in Chunk |-> IF c \in candidates THEN FusedScore(c) ELSE 0]
        /\ fused_order' = Sorted(candidates, ByScore(fused_score'))
        /\ Ran("fuse", <<>>)
  /\ UNCHANGED <<request, query, candidates, dense, sparse, rerank_score, gated,
                 labels, context_ids, answer, trace>>

\* read_signal: the candidates that carry the signal, best first.
SignalOrder(reads) ==
  CASE reads = "dense_top1"   -> semantic_order
    [] reads = "lexical_top1" -> lexical_order
    [] reads = "fused_top1"   -> fused_order

SignalScore(reads, c) ==
  CASE reads = "dense_top1"   -> semantic_score[c]
    [] reads = "lexical_top1" -> lexical_score[c]
    [] reads = "fused_top1"   -> fused_score[c]

Absent(reads)  == SignalOrder(reads) = <<>>
Top(reads, i)  == SignalScore(reads, SignalOrder(reads)[i])

\* Slip: an absent signal is taken for an ablated gate.
GateSkipQuiet ==
  IF ~cfg.gate \/ Absent(cfg.reads) THEN "ablated"
  ELSE IF candidates = {} THEN "no_candidates"
  ELSE None

GateSkip ==
  IF ~cfg.gate THEN "ablated"
  ELSE IF candidates = {} THEN "no_candidates"
  ELSE IF Absent(cfg.reads) THEN "signal_absent"
  ELSE None

Gate ==
  /\ pc = "gate"
  /\ \/ /\ GateSkip # None
        /\ Skip("gate", GateSkip)
        /\ UNCHANGED <<gated, rejected_by, answer>>
     \/ /\ GateSkip = None
        /\ gate_signal' = cfg.reads
        /\ gate_passed' = (Top(cfg.reads, 1) >= cfg.threshold)
        /\ rejected_by' = IF gate_passed' THEN rejected_by
                          ELSE [c \in Chunk |-> IF c \in candidates THEN "gate"
                                                ELSE rejected_by[c]]
        /\ answer' = IF gate_passed' THEN answer ELSE "refused"
        /\ Ran("gate", <<>>)
  /\ UNCHANGED <<request, query, candidates, dense, sparse, fused, rerank_score,
                 inclusion_reason, context_ids, trace>>

\* FusedEventEmitter.emit, after the gate so that it can carry the threshold.
EmitFused ==
  /\ pc = "emit_fused"
  /\ pc' = "rerank"
  /\ events' = Append(events, [type |-> "fused", of |-> gate_signal])
  /\ UNCHANGED <<request, query, candidates, dense, sparse, fused, rerank_score,
                 gated, labels, context_ids, answer, records, trace>>

-----------------------------------------------------------------------------
(* RerankStage.                                                            *)

RerankSignal == IF cfg.gate THEN cfg.reads ELSE "dense_top1"

\* gray_zone_ratio 1.6 and gray_zone_margin_ratio 0.15.  Without a gate the
\* bound is relative to the score itself; a single candidate has no margin.
GrayZone(reads) ==
  LET top1 == Top(reads, 1)
      bound == IF cfg.gate THEN cfg.threshold ELSE top1
  IN  \/ top1 * 10 < bound * 16
      \/ /\ Len(SignalOrder(reads)) > 1
         /\ (top1 - Top(reads, 2)) * 100 < top1 * 15

\* Slip: the reranker does not ask whether the gate refused.
RerankSkipUngated ==
  IF cfg.rerank = "off" THEN "ablated"
  ELSE IF fused_order = <<>> THEN "no_candidates"
  ELSE IF cfg.rerank = "always" THEN None
  ELSE IF Absent(RerankSignal) THEN "reranking_anyway"
  ELSE IF GrayZone(RerankSignal) THEN None
  ELSE "confident"

RerankSkip ==
  IF cfg.rerank = "off" THEN "ablated"
  ELSE IF ~gate_passed THEN "gate_refused"
  ELSE IF fused_order = <<>> THEN "no_candidates"
  ELSE IF cfg.rerank = "always" THEN None
  ELSE IF Absent(RerankSignal) THEN "reranking_anyway"
  ELSE IF GrayZone(RerankSignal) THEN None
  ELSE "confident"

\* Slip: a missing rerank score sorts as a zero.
ByRerankOrZero(score) ==
  LET known == [c \in Chunk |-> IF score[c] = Unscored THEN 0 ELSE score[c]]
  IN  {p \in Chunk \X Chunk :
         \/ known[p[1]] > known[p[2]]
         \/ known[p[1]] = known[p[2]] /\ p \in ByScore(fused_score)}

\* The order after reranking: what was scored first, then by score, by fused
\* score, by id.
ByRerank(score) ==
  {p \in Chunk \X Chunk :
     \/ score[p[1]] > score[p[2]]
     \/ score[p[1]] = score[p[2]] /\ p \in ByScore(fused_score)}

\* Slip: only the shortlist survives the rerank.
RerankedShortlist(score) ==
  Sorted(Elems(Prefix(fused_order, TopN)), ByRerank(score))

Reranked(score) == Sorted(Elems(fused_order), ByRerank(score))

\* The model scores some of the shortlist, at least one of it.
Rerank ==
  /\ pc = "rerank"
  /\ \/ /\ RerankSkip # None
        /\ Skip("rerank", RerankSkip)
        /\ UNCHANGED <<fused_order, rerank_score, inclusion_reason>>
     \/ /\ RerankSkip = None
        /\ \E scored \in SUBSET Elems(Prefix(fused_order, TopN)) \ {{}} :
             \E reply \in [scored -> RerankScores] :
               /\ rerank_score' = [c \in Chunk |-> IF c \in scored THEN reply[c]
                                                   ELSE rerank_score[c]]
               /\ fused_order' = Reranked(rerank_score')
               /\ inclusion_reason' =
                    [c \in Chunk |->
                       IF c \in scored /\ RankIn(fused_order', c) < RankIn(fused_order, c)
                       THEN "rerank_promoted" ELSE inclusion_reason[c]]
        /\ Ran("rerank", <<>>)
     \/ /\ RerankSkip = None
        /\ Raised("rerank", "ProviderError")
        /\ UNCHANGED <<fused_order, rerank_score, inclusion_reason>>
  /\ UNCHANGED <<request, query, candidates, dense, sparse, fused_score, gated,
                 rejected_by, context_ids, answer, trace>>

-----------------------------------------------------------------------------
(* ExpandStage and finalize_context.                                       *)

ExpandSkip ==
  IF ~cfg.expansion THEN "ablated"
  ELSE IF ~gate_passed THEN "gate_refused"
  ELSE IF fused_order = <<>> THEN "no_winners"
  ELSE None

\* The neighbours of the first max_context_chunks winners.
Expansion ==
  UNION {Neighbours(w, Span) : w \in Elems(Prefix(fused_order, cfg.max_context_chunks))}

Expand ==
  /\ pc = "expand"
  /\ \/ ExpandSkip # None /\ Skip("expand", ExpandSkip) /\ UNCHANGED <<candidates, labels>>
     \/ /\ ExpandSkip = None
        /\ LET new == Expansion \ candidates
               admitted == new \cap Permitted(tenant)
           IN  /\ candidates' = candidates \cup admitted
               /\ inclusion_reason' = [c \in Chunk |-> IF c \in admitted
                                                       THEN "neighbor_expansion"
                                                       ELSE inclusion_reason[c]]
               /\ IF admitted = new THEN Ran("expand", <<>>)
                  ELSE Raised("expand", "PermissionError")
        /\ UNCHANGED rejected_by
  /\ UNCHANGED <<request, query, dense, sparse, fused, rerank_score, gated,
                 context_ids, answer, trace>>

\* What a winner brings with it: itself and its neighbours among the candidates.
Brought(w) ==
  {w} \cup IF cfg.expansion THEN Neighbours(w, Span) \cap candidates ELSE {}

\* The rank of the first winner that brings c.
BroughtBy(c) ==
  CHOOSE i \in DOMAIN fused_order :
    /\ c \in Brought(fused_order[i])
    /\ \A j \in 1 .. i - 1 : c \notin Brought(fused_order[j])

\* Slip: a winner sorts among its neighbours by position.
ByPosition(S) ==
  LET rank == [c \in S |-> BroughtBy(c)]
  IN  {p \in S \X S : \/ rank[p[1]] < rank[p[2]]
                      \/ /\ rank[p[1]] = rank[p[2]]
                         /\ Ordinal[p[1]] < Ordinal[p[2]]}

\* Winners in rank order, each followed by the neighbours it is the first to
\* bring, in document order.
ByWinner(S) ==
  LET rank == [c \in S |-> BroughtBy(c)]
      won  == [c \in S |-> fused_order[rank[c]] = c]
  IN  {p \in S \X S :
         \/ rank[p[1]] < rank[p[2]]
         \/ rank[p[1]] = rank[p[2]] /\ won[p[1]] /\ ~won[p[2]]
         \/ /\ rank[p[1]] = rank[p[2]] /\ won[p[1]] = won[p[2]]
            /\ Ordinal[p[1]] < Ordinal[p[2]]}

Selected ==
  LET reached == UNION {Brought(w) : w \in Elems(fused_order)}
  IN  Prefix(Sorted(reached, ByWinner(reached)), cfg.max_context_chunks)

\* Slip: only ranked candidates are told that they lost.
RejectionsOfRanked(chosen) ==
  [c \in Chunk |-> IF c \in chosen THEN None
                  ELSE IF c \in Elems(fused_order) /\ rejected_by[c] = None THEN "top_k"
                  ELSE rejected_by[c]]

\* Whoever was a candidate and is not in the context lost to the budget.
Rejections(chosen) ==
  [c \in Chunk |-> IF c \in chosen THEN None
                  ELSE IF c \in candidates /\ rejected_by[c] = None THEN "top_k"
                  ELSE rejected_by[c]]

\* finalize_context, called by run() only when the gate passed.
Finalize ==
  /\ pc = "finalize"
  /\ pc' = IF generate THEN "generate" ELSE "trace"
  /\ \/ ~gate_passed /\ UNCHANGED <<context_ids, labels>>
     \/ /\ gate_passed
        /\ context_ids' = Selected
        /\ LET chosen == Elems(context_ids')
           IN  /\ rejected_by' = Rejections(chosen)
               /\ inclusion_reason' = [c \in Chunk |->
                    IF c \in chosen /\ inclusion_reason[c] = None THEN "fused_top_k"
                    ELSE inclusion_reason[c]]
  /\ UNCHANGED <<request, query, candidates, dense, sparse, fused, rerank_score,
                 gated, answer, reported, trace>>

-----------------------------------------------------------------------------
(* GenerateStage, and what run() returns.                                  *)

\* A generator refuses without a model call when it is given no source.
Replies == IF context_ids = <<>> THEN {"refused"} ELSE {"refused", "grounded", "ungrounded"}

Generate ==
  /\ pc = "generate"
  /\ \/ answer # None /\ Skip("generate", "already_refused") /\ UNCHANGED answer
     \/ answer = None /\ Ran("generate", <<>>) /\ answer' \in Replies
     \/ /\ answer = None /\ context_ids # <<>>
        /\ Raised("generate", "ProviderError")
        /\ UNCHANGED answer
  /\ UNCHANGED <<request, query, candidates, dense, sparse, fused, rerank_score,
                 gated, labels, context_ids, trace>>

\* _ordered_records: one slot a stage, filled in where the stage did not run.
OrderedRecords ==
  [i \in 1 .. Len(STAGE_ORDER) |->
     IF \E r \in Elems(records) : r.name = STAGE_ORDER[i]
     THEN CHOOSE r \in Elems(records) : r.name = STAGE_ORDER[i]
     ELSE [name |-> STAGE_ORDER[i], outcome |-> "skipped", reason |-> "did_not_run"]]

BuildTrace ==
  trace' = [stages |-> OrderedRecords,
            answer |-> IF answer = None THEN "ungrounded" ELSE answer]

Done ==
  /\ pc = "trace"
  /\ pc' = "done"
  /\ BuildTrace
  /\ events' = Append(events, [type |-> "done", of |-> None])
  /\ UNCHANGED <<request, query, candidates, dense, sparse, fused, rerank_score,
                 gated, labels, context_ids, answer, records>>

Fail ==
  /\ pc = "failed"
  /\ pc' = "raised"
  /\ BuildTrace
  /\ events' = Append(events, [type |-> "error", of |-> None])
  /\ UNCHANGED <<request, query, candidates, dense, sparse, fused, rerank_score,
                 gated, labels, context_ids, answer, records>>

-----------------------------------------------------------------------------
\* A run begins here once its config was found deterministic and its providers were
\* built: either may raise before the try of run, with no trace and no event.
Init ==
  /\ \E r \in Requests : /\ cfg = r.cfg /\ tenant = r.tenant
                         /\ history = r.history /\ generate = r.generate
  /\ pc = "rewrite"
  /\ rewritten = FALSE /\ embedded = FALSE
  /\ candidates = {}
  /\ semantic_order = <<>> /\ lexical_order = <<>> /\ fused_order = <<>>
  /\ semantic_score = [c \in Chunk |-> 0]
  /\ lexical_score = [c \in Chunk |-> 0]
  /\ fused_score = [c \in Chunk |-> 0]
  /\ rerank_score = [c \in Chunk |-> Unscored]
  /\ gate_signal = None /\ gate_passed = TRUE
  /\ inclusion_reason = [c \in Chunk |-> None]
  /\ rejected_by = [c \in Chunk |-> None]
  /\ context_ids = <<>>
  /\ answer = None
  /\ records = <<>> /\ events = <<>> /\ trace = None

Next ==
  \/ Rewrite \/ Embed \/ RetrieveDense \/ RetrieveSparse \/ Fuse \/ Gate
  \/ EmitFused \/ Rerank \/ Expand \/ Finalize \/ Generate \/ Done \/ Fail

Spec == Init /\ [][Next]_vars

-----------------------------------------------------------------------------
(* Properties.                                                             *)

Finished == pc \in {"done", "raised"}
Refused  == answer = "refused" /\ ~gate_passed

SkipReason == {"ablated", "standalone", "no_embedding", "no_candidates", "signal_absent",
               "gate_refused", "reranking_anyway", "confident", "no_winners",
               "already_refused"}
Exception  == {"ProviderError", "PermissionError", "ValueError"}

Record == [name : StageName, outcome : {"ran", "skipped", "error"},
           reason : SkipReason \cup Exception \cup {None}]
Event  == [type : {"stage", "candidates", "fused", "done", "error"},
           of : StageName \cup Signal \cup {"semantic", "lexical", None}]

\* The types of the variables.
TypeOK ==
  /\ [cfg |-> cfg, tenant |-> tenant, history |-> history, generate |-> generate]
       \in Requests
  /\ pc \in StageName \cup {"emit_fused", "finalize", "trace", "failed", "done", "raised"}
  /\ rewritten \in BOOLEAN /\ embedded \in BOOLEAN
  /\ candidates \subseteq Chunk
  /\ semantic_order \in Seq(Chunk) /\ lexical_order \in Seq(Chunk)
  /\ fused_order \in Seq(Chunk) /\ context_ids \in Seq(Chunk)
  /\ semantic_score \in [Chunk -> Nat] /\ lexical_score \in [Chunk -> Nat]
  /\ fused_score \in [Chunk -> Nat] /\ rerank_score \in [Chunk -> Nat \cup {Unscored}]
  /\ gate_signal \in Signal \cup {None} /\ gate_passed \in BOOLEAN
  /\ inclusion_reason \in
       [Chunk -> {None, "fused_top_k", "rerank_promoted", "neighbor_expansion"}]
  /\ rejected_by \in [Chunk -> {None, "gate", "top_k"}]
  /\ answer \in {None, "refused", "grounded", "ungrounded"}
  /\ records \in Seq(Record) /\ events \in Seq(Event)

\* Tenant isolation (stages/base.py:152-177, store/chunks.py:116-147): whatever path
\* a chunk takes into a run, by query in either leg or by document id through
\* expansion, its owner is the tenant of the query or the global one, and the
\* boundary check of ensure_candidate never has to fire.
TenantBoundary ==
  /\ candidates \cup Elems(context_ids) \subseteq Permitted(tenant)
  /\ \A r \in Elems(records) : r.reason # "PermissionError"

\* A refusal by the gate is final (stages/gate.py:88-97): no later stage pays for a
\* model call, nothing reaches the context, every candidate stays rejected by the
\* gate, and the trace the caller gets says refused.
RefusalIsFinal ==
  Refused =>
    /\ context_ids = <<>>
    /\ \A c \in candidates : rejected_by[c] = "gate"
    /\ \A r \in Elems(records) :
         r.name \in {"rerank", "expand", "generate"} => r.outcome = "skipped"
    /\ Finished => pc = "done" /\ trace.answer = "refused"

\* Every candidate of a finished run is accounted for (expand.py:60-103): it is in
\* the context with a reason and no rejection, or it is rejected, by the gate when
\* the gate refused and by top_k otherwise.  The context holds as many chunks as
\* the budget lets it.
Accounted ==
  pc = "done" =>
    /\ \A c \in candidates :
         IF c \in Elems(context_ids)
         THEN rejected_by[c] = None /\ inclusion_reason[c] # None
         ELSE rejected_by[c] = IF gate_passed THEN "top_k" ELSE "gate"
    /\ gate_passed =>
         Len(context_ids) = Cardinality(Elems(context_ids))
           /\ (Len(context_ids) = cfg.max_context_chunks
                 \/ Elems(context_ids) = candidates)

\* A chunk that reached the context on its neighbours' merit stands behind the
\* winner it belongs to, and the best winner comes first (expand.py:63-65).
NeighboursFollowWinners ==
  context_ids # <<>> =>
    /\ context_ids[1] = fused_order[1]
    /\ \A i \in DOMAIN context_ids :
         context_ids[i] \in Elems(fused_order)
           \/ \E j \in 1 .. i - 1 : /\ context_ids[j] \in Elems(fused_order)
                                    /\ context_ids[i] \in Neighbours(context_ids[j], Span)

\* A cut-off shortlist never promotes a chunk the reranker did not see above one it
\* scored (rerank.py:91-93), whatever the scores are, zero included.
ScoredBeforeUnscored ==
  \A i, j \in DOMAIN fused_order :
    rerank_score[fused_order[i]] = Unscored /\ rerank_score[fused_order[j]] # Unscored
      => j < i

\* Rankings never lose or duplicate a candidate: once fused, the order holds every
\* chunk a leg returned exactly once, reranked or not.
RankingComplete ==
  pc \in {"gate", "emit_fused", "rerank", "expand", "finalize", "generate", "trace", "done"} =>
    /\ Elems(fused_order) = Elems(semantic_order) \cup Elems(lexical_order)
    /\ Len(fused_order) = Cardinality(Elems(fused_order))

\* An answer that no gate checked says so (gate.py:16-20): when a gate is configured
\* and the run answered without reading its signal, the gate's record is a skip
\* that names the reason; when it was read, the best score reached the threshold.
UncheckedAnswersAreMarked ==
  pc = "done" /\ cfg.gate /\ answer \in {"grounded", "ungrounded"} =>
    IF gate_signal = None
    THEN trace.stages[6].outcome = "skipped" /\ trace.stages[6].reason = "signal_absent"
    ELSE \E c \in candidates : SignalScore(cfg.reads, c) >= cfg.threshold

\* The trace of a finished run always has the nine slots in canonical order, and
\* holds the record of the stage that raised, if one did (base.py:106-128,
\* pipeline.py:243-261).
TraceComplete ==
  Finished =>
    /\ [i \in 1 .. 9 |-> trace.stages[i].name] = STAGE_ORDER
    /\ \A r \in Elems(records) : r \in Elems(trace.stages)
    /\ pc = "raised" <=> \E r \in Elems(trace.stages) : r.outcome = "error"

\* How many of the first i events told are of a stage.
StagesTold(told, i) == Cardinality({j \in 1 .. i : told[j].type = "stage"})

\* The stream tells the same story as the trace: one stage event a record, in the
\* same order, candidates before the stage that found them, exactly one terminal
\* event, and nothing after it.
StreamMatchesTrace ==
  /\ StagesTold(events, Len(events)) = Len(records)
  /\ \A i \in DOMAIN events :
       /\ events[i].type = "stage" =>
            events[i].of = records[StagesTold(events, i)].name
       /\ events[i].type = "candidates" =>
            i < Len(events) /\ events[i + 1].of \in {"retrieve_dense", "retrieve_sparse"}
       /\ events[i].type \in {"done", "error"} <=> Finished /\ i = Len(events)
       /\ events[i].type = "fused" => i > 1 /\ events[i - 1].of = "gate"

\* "no signal available to judge the gray zone; reranking anyway" (rerank.py:36-37).
RerankedAnyway ==
  \A r \in Elems(records) : r.reason = "reranking_anyway" => r.outcome = "ran"

\* "the trace shows which one each chunk won on, via inclusion_reason"
\* (expand.py:13-16): a chunk labelled fused_top_k is one of the top k of the fused
\* order, not a lower one that a winner next to it in the document brought along.
ReasonSaysHowItWon ==
  \A c \in Elems(context_ids) :
    inclusion_reason[c] = "fused_top_k"
      => c \in Elems(Prefix(fused_order, cfg.max_context_chunks))
=============================================================================
