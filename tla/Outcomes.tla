------------------------------ MODULE Outcomes ------------------------------
(***************************************************************************)
(* What the study says of a pair of runs (autopsy/counterfactual.py:       *)
(* classify, explain, tabulate, render_report; autopsy/determinism.py:     *)
(* assert_comparable).  Pure: no state of its own.                         *)
(*                                                                         *)
(* An answer is what the classifier reads of it: its text, its status, its *)
(* hedging, and whether the case's answer_key occurs in the text.  A trace *)
(* adds whether the run failed and what explain() reads: the context in    *)
(* final order, the fused rank of each candidate (0 is no rank), the       *)
(* context budget and the stages that were skipped.                        *)
(***************************************************************************)
EXTENDS Integers, Sequences, FiniteSets, FiniteSetsExt

Outcome == {"identical", "equivalent", "degraded", "now_refuses", "now_answers",
            "now_wrong", "now_confident_wrong", "improved", "error"}

TABLE_COLUMNS == Outcome \ {"error"}

\* What a case's ground truth allows: a key to look for, a refusal, or nothing.
Expect == {"answer_key", "refuse_or_hedge", "none"}

Verdicts == {"equivalent", "degraded", "contradictory", "unstable"}

Answers(Text) == [text : Text, refused : BOOLEAN, hedged : BOOLEAN, key : BOOLEAN]

\* _build_trace's substitute for the answer of a run that raised.
NoAnswer == [text |-> "The pipeline failed", refused |-> FALSE,
             hedged |-> FALSE, key |-> FALSE]

Elements(s) == {s[i] : i \in DOMAIN s}

-----------------------------------------------------------------------------
(* Provenance.                                                             *)

COMPARABLE_KEYS == {"corpus", "embed_model", "gen_model", "rerank_model",
                    "provider", "code"}

\* The component a config left out is stamped "none".
VersionsOf(versions, semantic, rerank) ==
  [versions EXCEPT !.embed_model = IF semantic THEN @ ELSE "none",
                   !.rerank_model = IF rerank THEN @ ELSE "none"]

\* Slip: the exemption for the embedder is forgotten.
ComparableModels(a, b) ==
  \A k \in COMPARABLE_KEYS :
    \/ a[k] = b[k]
    \/ k = "rerank_model" /\ "none" \in {a[k], b[k]}

\* assert_comparable raises unless this holds.
Comparable(a, b) ==
  \A k \in COMPARABLE_KEYS :
    \/ a[k] = b[k]
    \/ k \in {"rerank_model", "embed_model"} /\ "none" \in {a[k], b[k]}

-----------------------------------------------------------------------------
(* Classification.                                                         *)

Flagged(answer) == answer.refused \/ answer.hedged

Correct(answer, expect) ==
  IF expect = "refuse_or_hedge" THEN Flagged(answer) ELSE answer.key

\* With ground truth no judge is asked.
ByTruth(b, v, expect) ==
  CASE Correct(b, expect) /\ Correct(v, expect)  -> "equivalent"
    [] ~Correct(b, expect) /\ Correct(v, expect) -> "improved"
    [] Correct(b, expect) /\ ~Correct(v, expect) ->
         IF v.refused THEN "now_refuses"
         ELSE IF Flagged(v) THEN "now_wrong" ELSE "now_confident_wrong"
    [] OTHER ->
         IF Flagged(b) /\ ~Flagged(v) THEN "now_confident_wrong"
         ELSE IF ~Flagged(b) /\ Flagged(v)
              THEN IF v.refused THEN "now_refuses" ELSE "degraded"
              ELSE "equivalent"

ByJudge(v, verdict) ==
  CASE verdict = "equivalent"    -> "equivalent"
    [] verdict = "contradictory" -> IF Flagged(v) THEN "now_wrong" ELSE "now_confident_wrong"
    [] OTHER                     -> "degraded"

\* The judge is asked only about two differing answers, neither of them a
\* refusal the other is not, where there is no ground truth.
NeedsJudge(b, v, expect) ==
  /\ ~b.failed /\ ~v.failed
  /\ b.answer.text # v.answer.text
  /\ expect = "none"
  /\ b.answer.refused = v.answer.refused

\* Slip: two runs that failed alike are taken to agree.
CompareAnswers(b, v, expect, verdict) ==
  IF b.answer.text = v.answer.text THEN "identical"
  ELSE IF expect # "none" THEN ByTruth(b.answer, v.answer, expect)
  ELSE IF b.answer.refused # v.answer.refused
       THEN IF b.answer.refused THEN "now_answers" ELSE "now_refuses"
  ELSE ByJudge(v.answer, verdict)

Classify(b, v, expect, verdict) ==
  IF b.failed \/ v.failed THEN "error" ELSE CompareAnswers(b, v, expect, verdict)

-----------------------------------------------------------------------------
(* Explanation.                                                            *)

Dropped(b, v) == SelectSeq(b.context, LAMBDA c : c \notin Elements(v.context))

\* How the best-ranked chunk that left the context moved.
Movement(lead, b, v) ==
  CASE lead \notin DOMAIN v.fused       -> "left"
    [] OTHER ->
         CASE v.fused[lead] = 0             -> "unranked"
           [] b.fused[lead] = 0             -> "reached"
           [] v.fused[lead] = b.fused[lead] -> "held"
           [] v.fused[lead] > b.fused[lead] -> "fell"
           [] OTHER                         -> "rose"

Explain(b, v) ==
  IF Dropped(b, v) = <<>>
  THEN IF v.skipped \subseteq b.skipped THEN "wording" ELSE "stage_skipped"
  ELSE IF v.budget < b.budget THEN "budget"
  ELSE Movement(Head(Dropped(b, v)), b, v)

TellsARankingStory(cause) == cause \in {"left", "unranked", "reached", "held", "fell", "rose"}

-----------------------------------------------------------------------------
(* The report.                                                             *)

\* How many of an ablation's diffs have an outcome in a set.
Count(diffs, ablation, outcomes) ==
  Cardinality({i \in DOMAIN diffs :
                 diffs[i].ablation = ablation /\ diffs[i].outcome \in outcomes})

Tabulate(diffs) ==
  [a \in {diffs[i].ablation : i \in DOMAIN diffs} |->
     [o \in Outcome |-> Count(diffs, a, {o})]]

ConfidentWrong(table, a) ==
  IF a \in DOMAIN table THEN table[a]["now_confident_wrong"] ELSE 0

VerdictOf(n, diffs, a) ==
  IF Count(diffs, a, {"now_confident_wrong"}) > 0 THEN "confirmed"
  ELSE IF Count(diffs, a, {"now_wrong", "now_refuses", "degraded"}) > 0 THEN "loud"
  ELSE IF 100 * Count(diffs, a, {"identical", "equivalent"}) >= 98 * n THEN "no_effect"
  ELSE "changed"

\* Slip: the share is taken over the runs that could be compared.
VerdictOnCompared(diffs, a) == VerdictOf(Count(diffs, a, TABLE_COLUMNS), diffs, a)

Verdict(diffs, a) == VerdictOf(Count(diffs, a, Outcome), diffs, a)

\* A composite whose damage exceeds that of its parts by more than the slack, 2 in
\* the code; parts maps the name of a composite to the set of its parts.
Interactions(table, parts, slack) ==
  {a \in DOMAIN table \cap DOMAIN parts :
     /\ parts[a] \subseteq DOMAIN table
     /\ ConfidentWrong(table, a) >
          slack + MapThenSumSet(LAMBDA p : ConfidentWrong(table, p), parts[a])}

\* Of some diffs, the first for which no other has a greater weight; 0 if none.
FirstHeaviest(diffs, among, Weight(_)) ==
  IF among = {} THEN 0
  ELSE Min({i \in among : \A j \in among : Weight(diffs[i]) >= Weight(diffs[j])})

\* The worked example: of the most damaging ablation, the first of them in the table,
\* a ranking story if it has one, and then the one that dropped the most of the context.
Example(diffs) ==
  LET shown == {i \in DOMAIN diffs : diffs[i].outcome = "now_confident_wrong"}
      first == FirstHeaviest(diffs, DOMAIN diffs,
                             LAMBDA d : Count(diffs, d.ablation, {"now_confident_wrong"}))
      worst == {i \in shown : diffs[i].ablation = diffs[first].ablation}
      told  == {i \in worst : TellsARankingStory(diffs[i].cause)}
  IN  FirstHeaviest(diffs, IF told = {} THEN worst ELSE told, LAMBDA d : Len(d.dropped))

RenderReport(diffs, parts, slack) ==
  LET table == Tabulate(diffs)
  IN  [table        |-> table,
       verdict      |-> [a \in DOMAIN table |-> Verdict(diffs, a)],
       interactions |-> Interactions(table, parts, slack),
       example      |-> Example(diffs),
       failed       |-> {i \in DOMAIN diffs : diffs[i].outcome = "error"}]
=============================================================================
