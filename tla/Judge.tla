------------------------------- MODULE Judge --------------------------------
(***************************************************************************)
(* The judge of two answers and its calibration (evals/judge.py).  Pure:   *)
(* the counters of TwoWayJudge are part of what calibrate returns.         *)
(*                                                                         *)
(* The model behind LLMJudge is external: it replies with any word.        *)
(***************************************************************************)
EXTENDS Outcomes

\* What RuleJudge reads of two answers; overlap is of their concepts, in percent.
Pair == [same : BOOLEAN, a_declines : BOOLEAN, b_declines : BOOLEAN,
         disjoint_numbers : BOOLEAN, overlap : 0 .. 100]

Swapped(p) == [p EXCEPT !.a_declines = p.b_declines, !.b_declines = p.a_declines]

RuleVerdict(p) ==
  IF p.same \/ (p.a_declines /\ p.b_declines) THEN "equivalent"
  ELSE IF p.disjoint_numbers THEN "contradictory"
  ELSE IF p.a_declines # p.b_declines THEN "degraded"
  ELSE IF p.overlap >= 72 THEN "equivalent"
  ELSE IF p.overlap >= 35 THEN "degraded"
  ELSE "contradictory"

\* A reply that is not one of the three words is no verdict.
LLMVerdict(word) ==
  IF word \in {"equivalent", "degraded", "contradictory"} THEN word ELSE "unstable"

\* TwoWayJudge.compare: the verdicts on (a, b) and on (b, a) are reconciled.
TwoWay(directional, forward, reverse) ==
  IF forward \in {"equivalent", "contradictory"} /\ reverse = forward THEN forward
  ELSE IF forward = "degraded"
       THEN IF reverse = "degraded" /\ directional THEN "unstable" ELSE "degraded"
  ELSE "unstable"

\* It counts a pair as unstable only where the two orders disagreed.
CountsUnstable(directional, forward, reverse) ==
  \/ forward = "degraded" /\ reverse = "degraded" /\ directional
  \/ forward # "degraded" /\ forward # reverse

-----------------------------------------------------------------------------
(* Calibration against labelled pairs; rates are fractions <<num, den>>.   *)

\* _derive_golden: the label of two answers of known correctness, or none where
\* there is nothing to judge.
DerivedLabel(b, v, expect) ==
  IF b.text = v.text THEN "none"
  ELSE IF Correct(b, expect) /\ Correct(v, expect) THEN "equivalent"
  ELSE IF Correct(b, expect) = Correct(v, expect) THEN "degraded"
  ELSE IF Flagged(IF Correct(b, expect) THEN v ELSE b) THEN "degraded"
  ELSE "contradictory"

CountPairs(pairs, Test(_)) == Cardinality({i \in DOMAIN pairs : Test(pairs[i])})

Agreed(pairs) == CountPairs(pairs, LAMBDA p : p.label = p.verdict)

\* The agreement expected by chance, times n squared.
ByChance(pairs) ==
  MapThenSumSet(LAMBDA k : CountPairs(pairs, LAMBDA p : p.label = k)
                           * CountPairs(pairs, LAMBDA p : p.verdict = k), Verdicts)

\* Slip: the raw agreement.
RawAgreement(pairs) == <<Agreed(pairs), Len(pairs)>>

CohensKappa(pairs) ==
  LET n == Len(pairs)
  IN  IF n = 0 THEN <<0, 1>>
      ELSE IF ByChance(pairs) = n * n
      THEN <<IF Agreed(pairs) = n THEN 1 ELSE 0, 1>>
      ELSE <<Agreed(pairs) * n - ByChance(pairs), n * n - ByChance(pairs)>>

Calibrate(pairs) ==
  [n         |-> Len(pairs),
   agreement |-> RawAgreement(pairs),
   kappa     |-> CohensKappa(pairs),
   confusion |-> [k \in Verdicts \X Verdicts |->
                    CountPairs(pairs, LAMBDA p : <<p.label, p.verdict>> = k)],
   unstable  |-> CountPairs(pairs, LAMBDA p : p.verdict = "unstable")]
=============================================================================
