------------------------------- MODULE Sweep --------------------------------
(***************************************************************************)
(* The ablation sweep (autopsy/counterfactual.py, CounterfactualEngine;    *)
(* autopsy/cli.py, cmd_ablate): each case is run once as it is and once    *)
(* under every ablation, on one shared pipeline, by one worker or by a     *)
(* pool of threads; the diffs are collected in the order of the cases and  *)
(* reported when there are all of them.                                    *)
(*                                                                         *)
(* A run of the pipeline is reduced to the calls it makes to a model, each *)
(* behind a cache the runs share (Caches) and, but for the embedder, with  *)
(* the retries of ChatCall.  What the run computes apart from them is a    *)
(* function of the case and the ablation, given by constants.              *)
(***************************************************************************)
EXTENDS Judge, Caches, ChatCall

CONSTANTS
  Ablations,     \* the names, in the order of the sweep; "baseline" is none of them
  Inapplicable,  \* those that raise on the base config
  Cases,         \* how many cases; a case is its place in the sweep
  Tenant,        \* the tenant of each case
  Expecting,     \* the ground truth of each case
  Config,        \* of 0 and each place in Ablations, the config to run
  Stamp,         \* what a trace of the base config is stamped with
  Semantic,      \* of each of these configs, has it an embedder,
  Rerank,        \* and a reranker?
  Payload,       \* what a call may be made with
  Plan,          \* of each run, its calls in order: the stage and its payload
  AnswerTo,      \* of each run, what its generator answers
  Retrieved,     \* of each run, what explain() reads of its trace
  Parts,         \* of each composite ablation, its parts
  Slack,         \* interactions below this excess are not reported, 2 in the code
  MaxWorkers,    \* engine.max_workers; 1 is the serial loop
  SaveTraces,    \* is there a trace_sink?
  Directional    \* judge.directional

Case == 1 .. Cases
Turn == 0 .. Len(Ablations)
Run  == Case \X Turn

Stage == {"rewrite", "embed", "rerank", "generate"}

ASSUME SweepAssumption ==
  /\ Caller = Case
  /\ Cases \in Nat /\ MaxWorkers \in Nat \ {0} /\ Slack \in Nat
  /\ SaveTraces \in BOOLEAN /\ Directional \in BOOLEAN
  /\ Ablations \in Seq(STRING) /\ "baseline" \notin Elements(Ablations)
  /\ Inapplicable \subseteq Elements(Ablations)
  /\ \A i, j \in DOMAIN Ablations : Ablations[i] = Ablations[j] => i = j
  /\ Stamp \in [COMPARABLE_KEYS -> STRING]
  /\ Semantic \in [Turn -> BOOLEAN] /\ Rerank \in [Turn -> BOOLEAN]
  /\ Plan \in [Run -> Seq([stage : Stage, payload : Payload])]

VARIABLES
  future,     \* of each case: pending, running, done, raised or cancelled
  turn,       \* of each running case: 0 for the baseline, then each ablation
  step,       \* within a run: next, call, judge
  got,        \* within a run: the values its calls returned
  tokens,     \* within a run: the usage recorded for them
  failed,     \* within a run: has a stage raised?
  baseline,   \* of each case: the trace of its baseline
  out,        \* of each case: its diffs so far
  main,       \* the main thread: collecting, draining, published, aborted
  diffs,      \* what it has collected
  collected,  \* of how many cases
  report,     \* what it has written
  closed      \* has main() closed the pipeline?

worker  == <<future, turn, step, got, tokens, failed, baseline, out>>
thread  == <<main, diffs, collected, report, closed>>
vars    == <<worker, thread, callVars, cacheVars>>

NoTrace == [failed |-> TRUE]

-----------------------------------------------------------------------------
(* The runs.                                                               *)

Versions(n) == VersionsOf(Stamp, Semantic[n], Rerank[n])

Name(n) == IF n = 0 THEN "baseline" ELSE Ablations[n]

\* The next call of a case's current run, and the key it is cached under.
Calls(c) == Plan[<<c, turn[c]>>]
Next1(c) == Calls(c)[Len(got[c]) + 1]
KeyOf(c) ==
  IF Next1(c).stage = "embed" THEN <<Next1(c).payload>>
  ELSE Key(Config[turn[c]], Tenant[c], Next1(c).stage, Next1(c).payload)

Ended(c) == failed[c] \/ Len(got[c]) = Len(Calls(c))

STAGE_ORDER == <<"rewrite", "embed", "retrieve_dense", "retrieve_sparse", "fuse", "gate",
                 "rerank", "expand", "generate">>

\* The stages behind one that raised: each is filled in as skipped.
Unreached(at) ==
  {STAGE_ORDER[i] : i \in {j \in DOMAIN STAGE_ORDER :
                             \E k \in 1 .. j - 1 : STAGE_ORDER[k] = at}}

\* The trace of an ended run.  One that raised keeps what its stages had left: the
\* candidates if they were fused, the context if it was assembled.
TraceOf(c) ==
  LET r      == <<c, turn[c]>>
      shown  == Retrieved[r]
      at     == IF failed[c] THEN Next1(c).stage ELSE "none"
      last   == Len(got[c])
      source == IF last > 0 /\ Calls(c)[last].stage = "generate" THEN got[c][last].by ELSE r
  IN  [run |-> r, failed |-> failed[c], tokens |-> tokens[c],
       answer  |-> IF failed[c] THEN NoAnswer ELSE AnswerTo[source],
       context |-> IF at \in {"none", "generate"} THEN shown.context ELSE <<>>,
       fused   |-> IF at \in {"none", "generate", "rerank"} THEN shown.fused ELSE <<>>,
       skipped |-> shown.skipped \cup Unreached(at), budget |-> shown.budget]

\* The variables of a case's run, for its next one.
NextRun(c, n) ==
  /\ turn' = [turn EXCEPT ![c] = n]
  /\ step' = [step EXCEPT ![c] = "next"]
  /\ got' = [got EXCEPT ![c] = <<>>]
  /\ tokens' = [tokens EXCEPT ![c] = 0]
  /\ failed' = [failed EXCEPT ![c] = FALSE]

\* Slip: the loop over the ablations goes round once too often.
GoOnOnce(c) ==
  IF turn[c] > Len(Ablations)
  THEN NextRun(c, 0) /\ future' = [future EXCEPT ![c] = "done"]
  ELSE NextRun(c, turn[c] + 1) /\ UNCHANGED future

\* After a run of one_case: the next ablation, or no more.
GoOn(c) ==
  IF turn[c] = Len(Ablations)
  THEN NextRun(c, 0) /\ future' = [future EXCEPT ![c] = "done"]
  ELSE NextRun(c, turn[c] + 1) /\ UNCHANGED future

\* one_case raises: its diffs are lost with it.
Raise(c) ==
  /\ future' = [future EXCEPT ![c] = "raised"]
  /\ NextRun(c, 0)
  /\ UNCHANGED <<baseline, out>>

\* A variant that did not come to a trace is a diff too.
ErrorDiff(c) ==
  [case |-> c, ablation |-> Name(turn[c]), outcome |-> "error", cause |-> "raised",
   dropped |-> <<>>, baseline |-> baseline[c].run, tokens |-> 0]

\* _diff of the baseline and the variant of a case.
Diff(c, v, verdict) ==
  LET b == baseline[c]
  IN  [case |-> c, ablation |-> Name(turn[c]),
       outcome |-> Classify(b, v, Expecting[c], verdict),
       cause |-> Explain(b, v), dropped |-> Dropped(b, v),
       baseline |-> b.run, tokens |-> v.tokens - b.tokens]

AddDiff(c, d) == out' = [out EXCEPT ![c] = Append(@, d)] /\ UNCHANGED baseline

\* A run starts; apply() raises for an ablation the base config does not allow.
Refuse(c) ==
  /\ future[c] = "running" /\ step[c] = "next"
  /\ Name(turn[c]) \in Inapplicable
  /\ AddDiff(c, ErrorDiff(c))
  /\ GoOn(c)
  /\ UNCHANGED <<thread, callVars, cacheVars>>

\* get_or_compute finds the key.  A cached completion counts its usage again, a
\* cached embedding does not.
UseCached(c) ==
  /\ future[c] = "running" /\ step[c] = "next"
  /\ Name(turn[c]) \notin Inapplicable
  /\ ~Ended(c) /\ Hit(Next1(c).stage, KeyOf(c))
  /\ LET value == Cache(Next1(c).stage)[KeyOf(c)]
     IN  /\ got' = [got EXCEPT ![c] = Append(@, value)]
         /\ tokens' = [tokens EXCEPT
                          ![c] = IF Next1(c).stage = "embed" THEN @ ELSE @ + value.usage]
  /\ UNCHANGED <<future, turn, step, failed, baseline, out, thread, callVars,
                 cacheVars>>

\* get_or_compute misses and goes to compute.
Miss(c) ==
  /\ future[c] = "running" /\ step[c] = "next"
  /\ Name(turn[c]) \notin Inapplicable
  /\ ~Ended(c) /\ ~Hit(Next1(c).stage, KeyOf(c))
  /\ step' = [step EXCEPT ![c] = "call"]
  /\ UNCHANGED <<future, turn, got, tokens, failed, baseline, out, thread,
                 callVars, cacheVars>>

\* A request of a chat completion raises and is sent again.
CallAgain(c) ==
  /\ step[c] = "call" /\ Next1(c).stage # "embed"
  /\ Retry(c)
  /\ UNCHANGED <<worker, thread, cacheVars>>

\* The value is computed and stored, also if another run has stored it meanwhile.
Compute(c) ==
  /\ step[c] = "call"
  /\ LET value == [by |-> <<c, turn[c]>>, usage |-> Usage(c)]
     IN  /\ Store(Next1(c).stage, KeyOf(c), value)
         /\ got' = [got EXCEPT ![c] = Append(@, value)]
         /\ tokens' = [tokens EXCEPT ![c] = @ + value.usage]
  /\ Answered(c)
  /\ step' = [step EXCEPT ![c] = "next"]
  /\ UNCHANGED <<future, turn, failed, baseline, out, thread>>

\* The call raises, nothing is stored, and the stage ends the run.  A reranker's
\* answer may be unusable; an embedder has no retries.
CallFails(c) ==
  /\ step[c] = "call"
  /\ GiveUp(c, Next1(c).stage \in {"embed", "rerank"})
  /\ failed' = [failed EXCEPT ![c] = TRUE]
  /\ step' = [step EXCEPT ![c] = "next"]
  /\ UNCHANGED <<future, turn, got, tokens, baseline, out, thread, cacheVars>>

AtEnd(c) ==
  /\ future[c] = "running" /\ step[c] = "next"
  /\ Name(turn[c]) \notin Inapplicable
  /\ Ended(c)

KeepBaseline(c) ==
  /\ AtEnd(c) /\ turn[c] = 0
  /\ baseline' = [baseline EXCEPT ![c] = TraceOf(c)]
  /\ GoOn(c)
  /\ UNCHANGED <<out, thread, callVars, cacheVars>>

\* assert_comparable is outside the try: a mismatch ends the sweep.
Compare(c) ==
  /\ AtEnd(c) /\ turn[c] # 0
  /\ IF ~Comparable(Versions(0), Versions(turn[c])) THEN Raise(c)
     ELSE /\ ~NeedsJudge(baseline[c], TraceOf(c), Expecting[c])
          /\ AddDiff(c, Diff(c, TraceOf(c), "none"))
          /\ GoOn(c)
  /\ UNCHANGED <<thread, callVars, cacheVars>>

AskJudge(c) ==
  /\ AtEnd(c) /\ turn[c] # 0
  /\ Comparable(Versions(0), Versions(turn[c]))
  /\ NeedsJudge(baseline[c], TraceOf(c), Expecting[c])
  /\ step' = [step EXCEPT ![c] = "judge"]
  /\ UNCHANGED <<future, turn, got, tokens, failed, baseline, out, thread, callVars,
                 cacheVars>>

\* The judge is asked in both orders; its requests are retried like any other.
HearJudge(c) ==
  /\ step[c] = "judge"
  /\ \E forward, reverse \in Verdicts :
       AddDiff(c, Diff(c, TraceOf(c), TwoWay(Directional, forward, reverse)))
  /\ GoOn(c)
  /\ UNCHANGED <<thread, callVars, cacheVars>>

\* Its failure is outside the try too.
JudgeFails(c) ==
  /\ step[c] = "judge"
  /\ GiveUp(c, FALSE)
  /\ Raise(c)
  /\ UNCHANGED <<thread, cacheVars>>

\* trace_sink cannot write the trace: for a variant that is a diff, for the
\* baseline the end of the sweep.
SinkFails(c) ==
  /\ AtEnd(c) /\ SaveTraces
  /\ faults < MaxFaults
  /\ faults' = faults + 1
  /\ IF turn[c] = 0 THEN Raise(c) ELSE AddDiff(c, ErrorDiff(c)) /\ GoOn(c)
  /\ UNCHANGED <<attempt, thread, cacheVars>>

Work(c) ==
  \/ Refuse(c) \/ UseCached(c) \/ Miss(c) \/ CallAgain(c) \/ Compute(c) \/ CallFails(c)
  \/ KeepBaseline(c) \/ Compare(c) \/ AskJudge(c) \/ HearJudge(c)
  \/ JudgeFails(c) \/ SinkFails(c)

-----------------------------------------------------------------------------
(* The pool and the main thread.                                           *)

Running == {c \in Case : future[c] = "running"}

\* A free worker takes the first pending case; the serial loop takes the next one
\* when the one before it is collected.
Start(c) ==
  /\ future[c] = "pending"
  /\ \A b \in 1 .. c - 1 : future[b] # "pending"
  /\ Cardinality(Running) < MaxWorkers
  /\ MaxWorkers = 1 => main = "collecting" /\ collected = c - 1
  /\ future' = [future EXCEPT ![c] = "running"]
  /\ UNCHANGED <<turn, step, got, tokens, failed, baseline, out, thread,
                 callVars, cacheVars>>

\* Slip: the cases are collected as they complete.
CollectAny ==
  /\ main = "collecting"
  /\ \E c \in Case : future[c] = "done" /\ diffs' = diffs \o out[c]
  /\ collected' = collected + 1
  /\ UNCHANGED <<worker, main, report, closed, callVars, cacheVars>>

\* pool.map: the results come in the order of the cases.
Collect ==
  /\ main = "collecting" /\ collected < Cases
  /\ future[collected + 1] = "done"
  /\ diffs' = diffs \o out[collected + 1]
  /\ collected' = collected + 1
  /\ UNCHANGED <<worker, main, report, closed, callVars, cacheVars>>

\* The exception of a case surfaces in its place; what has not started is cancelled.
Abort ==
  /\ main = "collecting" /\ collected < Cases
  /\ future[collected + 1] = "raised"
  /\ main' = "draining"
  /\ future' = [c \in Case |-> IF future[c] = "pending" THEN "cancelled" ELSE future[c]]
  /\ UNCHANGED <<turn, step, got, tokens, failed, baseline, out, diffs, collected,
                 report, closed, callVars, cacheVars>>

\* Slip: the pool is left without waiting for its threads.
LeaveAtOnce ==
  /\ main = "draining"
  /\ main' = "aborted"
  /\ UNCHANGED <<worker, diffs, collected, report, closed, callVars, cacheVars>>

\* Leaving the pool waits for the workers.
Leave ==
  /\ main = "draining" /\ Running = {}
  /\ main' = "aborted"
  /\ UNCHANGED <<worker, diffs, collected, report, closed, callVars, cacheVars>>

Publish ==
  /\ main = "collecting" /\ collected = Cases
  /\ report' = RenderReport(diffs, Parts, Slack)
  /\ main' = "published"
  /\ UNCHANGED <<worker, diffs, collected, closed, callVars, cacheVars>>

\* main() closes every pipeline on the way out, exception or not.
Close ==
  /\ main \in {"published", "aborted"} /\ ~closed
  /\ closed' = TRUE
  /\ UNCHANGED <<worker, main, diffs, collected, report, callVars, cacheVars>>

Init ==
  /\ future = [c \in Case |-> "pending"]
  /\ turn = [c \in Case |-> 0]
  /\ step = [c \in Case |-> "next"]
  /\ got = [c \in Case |-> <<>>]
  /\ tokens = [c \in Case |-> 0]
  /\ failed = [c \in Case |-> FALSE]
  /\ baseline = [c \in Case |-> NoTrace]
  /\ out = [c \in Case |-> <<>>]
  /\ main = "collecting" /\ diffs = <<>> /\ collected = 0
  /\ report = <<>> /\ closed = FALSE
  /\ CallInit /\ CacheInit

Next ==
  \/ \E c \in Case : Start(c) \/ Work(c)
  \/ Collect \/ Abort \/ Leave \/ Publish \/ Close

\* Every thread the pool started keeps running, and so does the main thread.
Fairness ==
  /\ \A c \in Case : WF_vars(Start(c) \/ Work(c))
  /\ WF_vars(Collect \/ Abort \/ Leave \/ Publish \/ Close)

Spec == Init /\ [][Next]_vars /\ Fairness
-----------------------------------------------------------------------------
(* Properties.                                                             *)

Step == {"next", "call", "judge"}

\* Every variable of the sweep keeps to its values.
TypeOK ==
  /\ future \in [Case -> {"pending", "running", "done", "raised", "cancelled"}]
  /\ turn \in [Case -> Turn] /\ step \in [Case -> Step]
  /\ \A c \in Case : Len(got[c]) <= Len(Calls(c)) /\ Len(out[c]) <= Len(Ablations)
  /\ tokens \in [Case -> Nat] /\ failed \in [Case -> BOOLEAN]
  /\ attempt \in [Case -> 0 .. MaxRetries] /\ faults \in 0 .. MaxFaults
  /\ main \in {"collecting", "draining", "published", "aborted"}
  /\ collected \in 0 .. Cases /\ closed \in BOOLEAN

\* What a run takes from a cache was computed for its own config, tenant and
\* payload, or, of an embedding, for its own text, whoever else was filling the
\* cache meanwhile (StageCache and EmbeddingCache, get_or_compute).
OwnAnswers ==
  \A c \in Case : \A i \in DOMAIN got[c] :
    LET call == Calls(c)[i]
        by   == got[c][i].by
    IN  /\ call \in Elements(Plan[by])
        /\ call.stage # "embed" => /\ Config[by[2]] = Config[turn[c]]
                                   /\ Tenant[by[1]] = Tenant[c]

\* However often its requests were sent again, and whichever run paid for the
\* value it found in a cache, a run counts the usage of one answer for each of its
\* calls at most (_call; record.tokens_in of the stages).
RetriesAreNotCounted == \A c \in Case : tokens[c] <= Len(got[c])

\* A diff says anything but ERROR only of two runs that both came to an answer:
\* two runs that failed alike are never reported as agreeing (_failed in classify).
LostRunsAreErrors ==
  [][\A c \in Case : Len(out'[c]) > Len(out[c]) =>
       \/ out'[c][Len(out'[c])].outcome = "error"
       \/ ~baseline[c].failed /\ ~failed[c] /\ Len(got[c]) = Len(Calls(c))]_vars

\* The report calls an ablation harmless only if nearly every case of the study
\* was measured under it and found unchanged (render_report's verdict).
NoEffectMeansMeasured ==
  report # <<>> =>
    \A a \in DOMAIN report.verdict : report.verdict[a] = "no_effect" =>
      100 * Cardinality({c \in Case : \E i \in DOMAIN diffs :
              /\ diffs[i].case = c /\ diffs[i].ablation = a
              /\ diffs[i].outcome \in {"identical", "equivalent"}}) >= 98 * Cases

\* Every ablation can be compared with the baseline: only a call that raised, of
\* the judge or of the trace sink, ends a sweep (assert_comparable).
AbortsOnlyOnAFault == main \in {"draining", "aborted"} => faults > 0

\* The pipeline is not closed while a worker still runs on it (the pool's exit and
\* main's _CLEANUP).
PipelineOutlivesWorkers == closed => Running = {}

\* The cell of a case and an ablation, in the order of the sweep.
Cell == Case \X Elements(Ablations)

MeasuredIn(rows, x) ==
  LET found == {i \in DOMAIN rows : rows[i].case = x[1] /\ rows[i].ablation = x[2]}
  IN  IF found = {} THEN "undecided"
      ELSE IF Cardinality(found) > 1 THEN "twice"
      ELSE rows[CHOOSE i \in found : TRUE].outcome

\* What is measured so far, and what of it is reported.
Measured  == [x \in Cell |-> MeasuredIn(out[x[1]], x)]
Published == [x \in Cell |-> IF main = "published" THEN MeasuredIn(diffs, x) ELSE "undecided"]
Status    == IF main = "collecting" THEN "running"
             ELSE IF main = "published" THEN "published" ELSE "abandoned"

Promise == INSTANCE Study WITH
  Measure <- Outcome, Undecided <- "undecided",
  cell <- Measured, report <- Published, state <- Status

\* The sweep implements Study: one measurement per case and ablation, all of them
\* published or none (sweep, cmd_ablate).
StudyIsKept == Promise!Spec

\* Every sweep ends and closes its pipeline, whatever its calls do (_call's bound
\* on its attempts, pool.map, main).
SweepEnds == <>closed

\* render_report of its last column: it "counts answers that were correct at
\* baseline and became incorrect".
HeadlineCountsLostAnswers ==
  report # <<>> =>
    \A i \in DOMAIN diffs : diffs[i].outcome = "now_confident_wrong" =>
      LET c == diffs[i].case
      IN  Expecting[c] # "none" => Correct(baseline[c].answer, Expecting[c])
=============================================================================
