------------------------------ MODULE EvalRun -------------------------------
(***************************************************************************)
(* Evaluations, one after the other (evals/runner.py, run_suites;          *)
(* autopsy/cli.py, cmd_eval and cmd_calibrate; api/ws_eval.py, _run): on   *)
(* the command line both suites run, the judge is calibrated, the findings *)
(* are compared with the baseline of the provider and the exit code tells  *)
(* a build whether to fail; over the socket one suite runs and its         *)
(* findings are streamed as they come, with a summary at the end.          *)
(***************************************************************************)
EXTENDS Suites

CONSTANTS
  Provider,    \* who answers
  Sightings,   \* what a probe may see of a run
  Malformed,   \* the tenant ids of degenerate_tenant_id
  Traps,       \* the traps, in order, each with its id
  Replies,     \* what a trap may be answered
  Pairs,       \* the pairs of answers cmd_calibrate may label
  MaxEvals,    \* bound: how many evaluations
  MaxTroubles  \* bound: how many cases do not pass, in all of them

Suite == {"isolation", "silent_failure"}

ASSUME EvalRunAssumption ==
  /\ MaxEvals \in Nat /\ MaxTroubles \in Nat
  /\ Malformed \cap {Me, Other, Global} = {}
  /\ Traps \in Seq(Elements(Traps))
  /\ \A i, j \in DOMAIN Traps : Traps[i].id = Traps[j].id => i = j
  /\ \A i \in DOMAIN Traps : Traps[i].id # "__rate__"

VARIABLES
  mode,      \* who evaluates: nobody, cli or socket
  provider,  \* under which provider
  todo,      \* the suites still to run; the first may be under way
  at,        \* of the suite under way: how many cases are done, or Closed
  scored,    \* and how many of its traps, or of those before, have an outcome
  produced,  \* and its findings
  findings,  \* of the suites before it
  streamed,  \* what the client has been sent
  crashed,   \* the cases that raised in this evaluation
  golden,    \* the labelled pairs on disk
  note,      \* what the calibration adds to the report
  written,   \* the report on disk
  known,     \* of each provider, its baseline on disk
  accepted,  \* history: of each provider, what failed when its baseline was last updated
  exit,      \* how the last evaluation ended
  evals, troubles

suite == <<at, scored, produced>>
disk  == <<golden, written, known, accepted>>
vars  == <<mode, provider, todo, suite, findings, streamed, crashed, note, disk,
           exit, evals, troubles>>

Closed == -1

\* The cases of a suite, in order.
CasesOf(s) ==
  IF s = "isolation" THEN ProbeNames ELSE [i \in DOMAIN Traps |-> Traps[i].id]

\* How many findings it comes to: its cases, and the rate of the traps.
Length(s) == Len(CasesOf(s)) + IF s = "silent_failure" THEN 1 ELSE 0

\* Their keys.
KeysOf(s) ==
  {<<s, c>> : c \in Elements(CasesOf(s))}
    \cup {k \in {<<s, "__rate__">>} : s = "silent_failure"}

-----------------------------------------------------------------------------
Begin ==
  /\ mode = "idle" /\ evals < MaxEvals
  /\ evals' = evals + 1
  /\ mode' \in {"cli", "socket"} /\ provider' \in Provider
  /\ \/ mode' = "cli" /\ todo' = <<"isolation", "silent_failure">>
     \/ mode' = "socket" /\ \E s \in Suite : todo' = <<s>>
  /\ findings' = <<>> /\ streamed' = <<>> /\ crashed' = {} /\ note' = <<>>
  /\ exit' = "none"
  /\ UNCHANGED <<suite, disk, troubles>>

\* Over the socket a finding is sent when it is known.
Emit(f) == streamed' = IF mode = "socket" THEN Append(streamed, f) ELSE streamed

\* Slip: the outcomes of the last evaluation still count.
OpenAgain ==
  /\ todo # <<>> /\ at = Closed
  /\ at' = 0 /\ produced' = <<>>
  /\ UNCHANGED <<mode, provider, todo, scored, findings, streamed, crashed, note, disk,
                 exit, evals, troubles>>

\* The corpus of the isolation suite, or the pipeline of the other, is there.
Open ==
  /\ todo # <<>> /\ at = Closed
  /\ at' = 0 /\ scored' = 0 /\ produced' = <<>>
  /\ UNCHANGED <<mode, provider, todo, findings, streamed, crashed, note, disk,
                 exit, evals, troubles>>

\* It is not, and run raises.  The server's pipeline is always there.
OpenFails ==
  /\ todo # <<>> /\ at = Closed
  /\ mode = "socket" => Head(todo) = "isolation"
  /\ troubles < MaxTroubles /\ troubles' = troubles + 1
  /\ findings' = Append(findings, Broken(Head(todo)))
  /\ Emit(Broken(Head(todo)))
  /\ crashed' = crashed \cup {<<Head(todo), "__suite__">>}
  /\ todo' = Tail(todo)
  /\ UNCHANGED <<mode, provider, suite, note, disk, exit, evals>>

\* What the cases of the isolation suite may come to.
Severities(probe) ==
  CASE probe = "cache_namespace"      -> {CacheSeen(a, b) : a, b \in Sightings}
    [] probe = "degenerate_tenant_id" -> {DegenerateSeen(r) : r \in [Malformed -> Sightings]}
    [] probe = "scope_predicate"      -> {PredicateSeen(e, s) : e, s \in BOOLEAN}
    [] OTHER                          -> {Seen(probe, t) : t \in Sightings}

\* guard: a case ends in a finding, and it is sent.
Guard(case, severity) ==
  LET f == Finding(Head(todo), case, severity)
  IN  produced' = Append(produced, f) /\ at' = at + 1 /\ Emit(f)

Under(s) == todo # <<>> /\ Head(todo) = s /\ at # Closed

Probe ==
  /\ Under("isolation") /\ at < Len(ProbeNames)
  /\ \E severity \in Severities(ProbeNames[at + 1]) :
       /\ severity # INFO => troubles < MaxTroubles
       /\ troubles' = IF severity = INFO THEN troubles ELSE troubles + 1
       /\ Guard(ProbeNames[at + 1], severity)
  /\ UNCHANGED <<mode, provider, todo, scored, findings, crashed, note, disk, exit, evals>>

Spring ==
  /\ Under("silent_failure") /\ at < Len(Traps)
  /\ \E reply \in Replies :
       LET severity == TrapSeen(Traps[at + 1], reply)
       IN  /\ severity # INFO => troubles < MaxTroubles
           /\ troubles' = IF severity = INFO THEN troubles ELSE troubles + 1
           /\ Guard(Traps[at + 1].id, severity)
  /\ scored' = scored + 1
  /\ UNCHANGED <<mode, provider, todo, findings, crashed, note, disk, exit, evals>>

\* The run of a case raises.
CaseCrashes ==
  /\ todo # <<>> /\ at # Closed /\ at < Len(CasesOf(Head(todo)))
  /\ troubles < MaxTroubles /\ troubles' = troubles + 1
  /\ Guard(CasesOf(Head(todo))[at + 1], Crashed)
  /\ crashed' = crashed \cup {<<Head(todo), CasesOf(Head(todo))[at + 1]>>}
  /\ UNCHANGED <<mode, provider, todo, scored, findings, note, disk, exit, evals>>

\* Slip: the rate is not sent.
SummariseQuietly ==
  /\ Under("silent_failure") /\ at = Len(Traps)
  /\ produced' = Append(produced, Finding("silent_failure", "__rate__", Rate(scored, at)))
  /\ at' = at + 1
  /\ UNCHANGED <<mode, provider, todo, scored, findings, streamed, crashed, note, disk,
                 exit, evals, troubles>>

Summarise ==
  /\ Under("silent_failure") /\ at = Len(Traps)
  /\ Guard("__rate__", Rate(scored, at))
  /\ UNCHANGED <<mode, provider, todo, scored, findings, crashed, note, disk,
                 exit, evals, troubles>>

\* The suite returns.
EndSuite ==
  /\ todo # <<>> /\ at # Closed
  /\ at = Length(Head(todo))
  /\ findings' = findings \o produced
  /\ todo' = Tail(todo)
  /\ at' = Closed /\ produced' = <<>>
  /\ UNCHANGED <<mode, provider, scored, streamed, crashed, note, disk, exit, evals, troubles>>

-----------------------------------------------------------------------------
(* After the suites.                                                       *)

SendSummary ==
  /\ mode = "socket" /\ todo = <<>>
  /\ mode' = "idle" /\ exit' = "summary"
  /\ UNCHANGED <<provider, todo, suite, findings, streamed, crashed, note, disk, evals,
                 troubles>>

Ready == mode = "cli" /\ todo = <<>> /\ exit = "none"

\* The verdict of the provider's judge on each pair.
Judged(pairs, p) ==
  [i \in DOMAIN pairs |->
     [label   |-> pairs[i].label,
      verdict |-> IF p = "offline"
                  THEN TwoWay(FALSE, RuleVerdict(pairs[i].pair), RuleVerdict(Swapped(pairs[i].pair)))
                  ELSE TwoWay(TRUE, LLMVerdict(pairs[i].said[1]), LLMVerdict(pairs[i].said[2]))]]

CalibrateJudge ==
  /\ Ready /\ note = <<>>
  /\ note' = <<IF golden = <<>> THEN "uncalibrated" ELSE Calibrate(Judged(golden, provider))>>
  /\ UNCHANGED <<mode, provider, todo, suite, findings, streamed, crashed, disk, exit,
                 evals, troubles>>

\* The judge raises, and cmd_eval with it: no report is written.
CalibrationFails ==
  /\ Ready /\ note = <<>> /\ golden # <<>>
  /\ troubles < MaxTroubles /\ troubles' = troubles + 1
  /\ mode' = "idle" /\ exit' = "raised"
  /\ UNCHANGED <<provider, todo, suite, findings, streamed, crashed, note, disk, evals>>

\* Slip: one baseline for all.
OneBaseline(p) == "offline"

\* baseline_path.
BaselineOf(p) == p

Report == written' = <<Render(findings, known[BaselineOf(provider)], note)>>

\* --update-baseline: what fails now is known from here on.
UpdateBaseline ==
  /\ Ready /\ note # <<>>
  /\ Report
  /\ known' = [known EXCEPT ![BaselineOf(provider)] = Keys(Failures(findings))]
  /\ accepted' = [accepted EXCEPT ![provider] = Keys(Failures(findings))]
  /\ mode' = "idle" /\ exit' = "updated"
  /\ UNCHANGED <<provider, todo, suite, findings, streamed, crashed, note, golden, evals,
                 troubles>>

Exit ==
  /\ Ready /\ note # <<>>
  /\ Report
  /\ exit' = IF ExitCode(findings, known[BaselineOf(provider)]) = 0 THEN "ok" ELSE "failed"
  /\ mode' = "idle"
  /\ UNCHANGED <<provider, todo, suite, findings, streamed, crashed, note, golden, known,
                 accepted, evals, troubles>>

\* calibrate --derive: pairs are labelled by the ground truth, those with nothing to
\* judge left out.
Derive ==
  /\ mode = "idle" /\ golden = <<>>
  /\ LET labelled == [i \in DOMAIN Pairs |->
           [label |-> DerivedLabel(Pairs[i].baseline, Pairs[i].variant, Pairs[i].expect),
            pair |-> Pairs[i].pair, said |-> Pairs[i].said]]
     IN  golden' = SelectSeq(labelled, LAMBDA x : x.label # "none")
  /\ UNCHANGED <<mode, provider, todo, suite, findings, streamed, crashed, note, written,
                 known, accepted, exit, evals, troubles>>

Init ==
  /\ mode = "idle" /\ provider \in Provider /\ todo = <<>>
  /\ at = Closed /\ scored = 0 /\ produced = <<>>
  /\ findings = <<>> /\ streamed = <<>> /\ crashed = {} /\ note = <<>>
  /\ golden = <<>> /\ written = <<>> /\ known = [p \in Provider |-> {}]
  /\ accepted = [p \in Provider |-> {}]
  /\ exit = "none" /\ evals = 0 /\ troubles = 0

Next ==
  \/ Begin \/ Open \/ OpenFails \/ Probe \/ Spring \/ CaseCrashes \/ Summarise \/ EndSuite
  \/ SendSummary \/ CalibrateJudge \/ CalibrationFails \/ UpdateBaseline \/ Exit \/ Derive

Spec == Init /\ [][Next]_vars
-----------------------------------------------------------------------------
(* Properties.                                                             *)

EveryKey == UNION {{<<s, "__suite__">>} \cup KeysOf(s) : s \in Suite}
Found    == [key : EveryKey, passed : BOOLEAN, severity : {INFO, MEDIUM, HIGH, CRITICAL}]

\* The variables keep to their values; among them, no more traps have an outcome than
\* were sprung.
TypeOK ==
  /\ mode \in {"idle", "cli", "socket"} /\ provider \in Provider
  /\ Elements(todo) \subseteq Suite
  /\ at \in Closed .. Len(ProbeNames) + Len(Traps)
  /\ scored \in 0 .. IF at = Closed THEN Len(Traps) ELSE at
  /\ Elements(produced \o findings \o streamed) \subseteq Found
  /\ crashed \subseteq EveryKey
  /\ known \in [Provider -> SUBSET EveryKey] /\ accepted \in [Provider -> SUBSET EveryKey]
  /\ exit \in {"none", "summary", "raised", "updated", "ok", "failed"}
  /\ evals \in 0 .. MaxEvals /\ troubles \in 0 .. MaxTroubles

Reported == mode = "idle" /\ exit \in {"summary", "updated", "ok", "failed"}

\* A case that crashes hides no other: each suite that was to run is reported as broken
\* or with one finding for every case of it (guard, run_suites), the client that
\* watches has been sent what the summary counts, and the report on disk shows, of a
\* suite that ran, its rate (render_report's aggregates).
NothingIsHidden ==
  Reported =>
    /\ \A s \in IF exit = "summary" THEN {findings[1].key[1]} ELSE Suite :
         LET of == {i \in DOMAIN findings : findings[i].key[1] = s}
         IN  \/ \E i \in of : of = {i} /\ findings[i] = Broken(s)
             \/ /\ {findings[i].key : i \in of} = KeysOf(s)
                /\ \A i, j \in of : findings[i].key = findings[j].key => i = j
    /\ IF exit = "summary" THEN streamed = findings
       ELSE \A s \in Suite :
              <<s, "__suite__">> \notin crashed /\ s = "silent_failure" =>
                <<s, "__rate__">> \in Keys(written[1].headline)

\* An evaluation that could not measure, because a suite did not run or a trap has no
\* outcome, blocks the build by itself (run_suites, _summary).
BlindnessBlocks ==
  Reported =>
    \A k \in crashed :
      (k[2] = "__suite__" \/ k[1] = "silent_failure") => Blocking(findings) # {}

\* A build passes only if whatever fails or crashes now was failing when the baseline
\* of this provider was last updated, whatever was evaluated under another provider
\* meanwhile (exit_code, baseline_path, write_baseline).
NewFailureFailsTheBuild ==
  Reported /\ exit = "ok" =>
    Keys(Failures(findings)) \cup crashed \subseteq accepted[provider]
=============================================================================
