---------------------------- MODULE EvalRunProofs ----------------------------
(***************************************************************************)
(* Proofs about the evaluations, for any providers, traps and replies, and *)
(* any sightings of the probes.                                            *)
(***************************************************************************)
EXTENDS EvalRun, SequenceTheorems, TLAPS

-----------------------------------------------------------------------------
(* Findings.                                                               *)

Severity == {INFO, MEDIUM, HIGH, CRITICAL}

LEMMA FoundType ==
  ASSUME NEW s \in Suite, NEW case, NEW severity \in Severity, <<s, case>> \in EveryKey
  PROVE  /\ Finding(s, case, severity) \in Found
         /\ Finding(s, case, severity).key = <<s, case>>
         /\ severity # INFO => Finding(s, case, severity).passed = FALSE
         /\ Finding(s, case, severity).severity = severity
BY DEF Finding, Found, Severity

LEMMA SuiteKeys ==
  ASSUME NEW s \in Suite
  PROVE  /\ <<s, "__suite__">> \in EveryKey
         /\ \A i \in DOMAIN CasesOf(s) : <<s, CasesOf(s)[i]>> \in EveryKey
         /\ s = "silent_failure" => <<s, "__rate__">> \in EveryKey
BY DEF EveryKey, KeysOf, Elements

LEMMA CasesType ==
  /\ Len(ProbeNames) = 12 /\ DOMAIN ProbeNames = 1 .. 12
  /\ Len(Traps) \in Nat /\ DOMAIN Traps = 1 .. Len(Traps)
  /\ CasesOf("isolation") = ProbeNames
  /\ CasesOf("silent_failure") = [i \in 1 .. Len(Traps) |-> Traps[i].id]
  /\ Len(CasesOf("silent_failure")) = Len(Traps)
  /\ \A i \in 1 .. 12 : ProbeNames[i] # "__suite__"
  /\ \A s \in Suite : DOMAIN CasesOf(s) = 1 .. Len(CasesOf(s)) /\ Len(CasesOf(s)) \in Nat
  /\ Length("isolation") = 12 /\ Length("silent_failure") = Len(Traps) + 1
<1>1. Len(Traps) \in Nat /\ DOMAIN Traps = 1 .. Len(Traps)
  BY EvalRunAssumption, LenProperties
<1>2. Len(ProbeNames) = 12 /\ DOMAIN ProbeNames = 1 .. 12
  BY DEF ProbeNames
<1>3. \A i \in 1 .. 12 : ProbeNames[i] # "__suite__"
  BY DEF ProbeNames
<1>4. CasesOf("silent_failure") = [i \in 1 .. Len(Traps) |-> Traps[i].id]
  BY <1>1 DEF CasesOf
<1>5. Len([i \in 1 .. Len(Traps) |-> Traps[i].id]) = Len(Traps)
  BY <1>1
<1>6. CasesOf("isolation") = ProbeNames /\ Len(CasesOf("silent_failure")) = Len(Traps)
  BY <1>4, <1>5 DEF CasesOf
<1>7. ASSUME NEW s \in Suite
      PROVE  DOMAIN CasesOf(s) = 1 .. Len(CasesOf(s)) /\ Len(CasesOf(s)) \in Nat
  <2>1. CASE s = "isolation"
    BY <1>2, <1>6, <2>1
  <2>2. CASE s = "silent_failure"
    BY <1>1, <1>4, <1>6, <2>2
  <2> QED BY <2>1, <2>2 DEF Suite
<1>8. Length("isolation") = 12 /\ Length("silent_failure") = Len(Traps) + 1
  BY <1>1, <1>2, <1>6 DEF Length
<1> QED BY <1>1, <1>2, <1>3, <1>4, <1>6, <1>7, <1>8

LEMMA LengthOf ==
  ASSUME NEW s \in Suite
  PROVE  Length(s) \in Nat /\ Len(CasesOf(s)) <= Length(s)
<1>1. Len(CasesOf(s)) \in Nat
  BY CasesType
<1> QED BY <1>1 DEF Length

Scanned == {"positive_control_own_documents", "positive_control_global_documents",
            "direct_answer_leak", "retrieval_filter", "followup_rewrite",
            "neighbor_expansion", "prompt_level_override", "session_reuse",
            "existence_disclosure"}

LEMMA SeverityOf ==
  /\ \A i \in 1 .. 12 : Severities(ProbeNames[i]) \subseteq Severity
  /\ \A trap, reply : TrapSeen(trap, reply) \in Severity
  /\ \A m, n : Rate(m, n) \in Severity
  /\ Crashed \in Severity /\ Crashed # INFO /\ HIGH \in Severity /\ HIGH # INFO
<1>1. \A leak : LeakIf(leak) \in Severity
  BY DEF LeakIf, Severity
<1>2. ASSUME NEW probe, probe \in Scanned \/ probe = "cache_namespace"
                          \/ probe = "degenerate_tenant_id" \/ probe = "scope_predicate"
      PROVE  Severities(probe) \subseteq Severity
  <2>1. \A a, b : CacheSeen(a, b) \in Severity
    BY <1>1 DEF CacheSeen
  <2>2. \A r : DegenerateSeen(r) \in Severity
    BY <1>1 DEF DegenerateSeen
  <2>3. \A a, b : PredicateSeen(a, b) \in Severity
    BY <1>1 DEF PredicateSeen
  <2>4. ASSUME NEW t, probe \in Scanned PROVE Seen(probe, t) \in Severity
    <3>1. NeighboursSeen(t) \in Severity
      BY DEF NeighboursSeen, Severity
    <3> QED BY <1>1, <2>4, <3>1 DEF Scanned, Seen, OwnDocumentsSeen, GlobalDocumentsSeen,
            DirectSeen, RetrievalSeen, FollowupSeen, InjectionSeen, SessionSeen, ExistenceSeen
  <2> QED BY <1>2, <2>1, <2>2, <2>3, <2>4 DEF Severities
<1>3. \A i \in 1 .. 12 :
        \/ ProbeNames[i] \in Scanned
        \/ ProbeNames[i] \in {"cache_namespace", "degenerate_tenant_id", "scope_predicate"}
  BY DEF ProbeNames, Scanned
<1>4. \A trap, reply : TrapSeen(trap, reply) \in Severity
  BY DEF TrapSeen, Severity
<1>5. \A m, n : Rate(m, n) \in Severity
  BY DEF Rate, Severity
<1>6. Crashed \in Severity /\ Crashed # INFO /\ HIGH \in Severity /\ HIGH # INFO
  BY DEF Severity, Crashed, MEDIUM, INFO, HIGH
<1> QED BY <1>2, <1>3, <1>4, <1>5, <1>6

-----------------------------------------------------------------------------
(* Types.                                                                  *)

Typed ==
  /\ mode \in {"idle", "cli", "socket"} /\ provider \in Provider
  /\ todo \in Seq(Suite)
  /\ at \in Int /\ scored \in Nat
  /\ todo = <<>> => at = Closed
  /\ at # Closed => at \in 0 .. Length(Head(todo)) /\ scored <= at
  /\ scored <= Len(Traps)
  /\ at = Closed => produced = <<>>
  /\ produced \in Seq(Found) /\ findings \in Seq(Found) /\ streamed \in Seq(Found)
  /\ crashed \subseteq EveryKey
  /\ known \in [Provider -> SUBSET EveryKey]
  /\ accepted \in [Provider -> SUBSET EveryKey]
  /\ exit \in {"none", "summary", "raised", "updated", "ok", "failed"}
  /\ mode = "idle" => todo = <<>>
  /\ mode # "idle" => exit = "none"
  /\ evals \in 0 .. MaxEvals /\ troubles \in 0 .. MaxTroubles

LEMMA Elementary ==
  ASSUME NEW S, NEW s \in Seq(S)
  PROVE  /\ Elements(s) \subseteq S
         /\ \A e \in S : Append(s, e) \in Seq(S) /\ Elements(Append(s, e)) = Elements(s) \cup {e}
         /\ \A t \in Seq(S) : s \o t \in Seq(S) /\ Elements(s \o t) = Elements(s) \cup Elements(t)
<1>1. DOMAIN s = 1 .. Len(s) /\ Len(s) \in Nat /\ \A i \in 1 .. Len(s) : s[i] \in S
  BY LenProperties, ElementOfSeq
<1>2. ASSUME NEW e \in S
      PROVE  Append(s, e) \in Seq(S) /\ Elements(Append(s, e)) = Elements(s) \cup {e}
  <2>1. /\ Append(s, e) \in Seq(S) /\ Len(Append(s, e)) = Len(s) + 1
        /\ \A i \in 1 .. Len(s) : Append(s, e)[i] = s[i]
        /\ Append(s, e)[Len(s) + 1] = e
    BY AppendProperties
  <2>2. DOMAIN Append(s, e) = 1 .. Len(s) + 1
    BY <2>1, LenProperties
  <2> QED BY <1>1, <2>1, <2>2 DEF Elements
<1>3. ASSUME NEW t \in Seq(S)
      PROVE  s \o t \in Seq(S) /\ Elements(s \o t) = Elements(s) \cup Elements(t)
  <2>1. /\ s \o t \in Seq(S) /\ Len(s \o t) = Len(s) + Len(t)
        /\ \A i \in 1 .. Len(s) + Len(t) :
             (s \o t)[i] = IF i <= Len(s) THEN s[i] ELSE t[i - Len(s)]
    BY ConcatProperties
  <2>2. DOMAIN (s \o t) = 1 .. Len(s) + Len(t) /\ DOMAIN t = 1 .. Len(t) /\ Len(t) \in Nat
    BY <2>1, LenProperties
  <2>3. Elements(s \o t) \subseteq Elements(s) \cup Elements(t)
    BY <1>1, <2>1, <2>2 DEF Elements
  <2>4. Elements(s) \subseteq Elements(s \o t)
    BY <1>1, <2>1, <2>2 DEF Elements
  <2>5. ASSUME NEW i \in 1 .. Len(t) PROVE t[i] \in Elements(s \o t)
    <3>1. PICK j \in 1 .. Len(s) + Len(t) : j = Len(s) + i /\ j > Len(s) /\ j - Len(s) = i
      BY <1>1, <2>2
    <3>2. (s \o t)[j] = t[i]
      BY <1>1, <2>1, <3>1
    <3> QED BY <2>2, <3>2 DEF Elements
  <2> QED BY <2>1, <2>2, <2>3, <2>4, <2>5 DEF Elements
<1> QED BY <1>1, <1>2, <1>3 DEF Elements

\* The suite under way.
LEMMA UnderWay ==
  ASSUME Typed, todo # <<>>
  PROVE  Head(todo) \in Suite /\ Tail(todo) \in Seq(Suite) /\ mode # "idle"
BY DEF Typed

\* A case that ends in a finding.
LEMMA GuardTyped ==
  ASSUME Typed, todo # <<>>, at # Closed, NEW case, NEW severity \in Severity,
         <<Head(todo), case>> \in EveryKey, Guard(case, severity)
  PROVE  /\ produced' \in Seq(Found) /\ streamed' \in Seq(Found)
         /\ at' = at + 1 /\ at' # Closed
         /\ produced' = Append(produced, Finding(Head(todo), case, severity))
<1>1. Finding(Head(todo), case, severity) \in Found
  BY UnderWay, FoundType
<1>2. at \in Nat
  BY DEF Typed
<1> QED BY <1>1, <1>2, Elementary DEF Guard, Emit, Typed, Closed

LEMMA InitTyped == Init => Typed
<1> SUFFICES ASSUME Init PROVE Typed
  OBVIOUS
<1>1. /\ todo = <<>> /\ produced = <<>> /\ findings = <<>> /\ streamed = <<>>
      /\ at = Closed /\ scored = 0 /\ mode = "idle" /\ evals = 0 /\ troubles = 0
  BY DEF Init
<1>2. <<>> \in Seq(Suite) /\ <<>> \in Seq(Found)
  OBVIOUS
<1>3. 0 <= Len(Traps)
  BY CasesType
<1>4. evals \in 0 .. MaxEvals /\ troubles \in 0 .. MaxTroubles
  BY <1>1, EvalRunAssumption
<1>5. /\ known \in [Provider -> SUBSET EveryKey] /\ accepted \in [Provider -> SUBSET EveryKey]
      /\ crashed = {} /\ exit = "none" /\ provider \in Provider
  BY DEF Init
<1> QED BY <1>1, <1>2, <1>3, <1>4, <1>5 DEF Typed, Closed

LEMMA KeysType ==
  ASSUME Typed
  PROVE  Keys(Failures(findings)) \subseteq EveryKey
<1>1. Elements(findings) \subseteq Found
  BY Elementary DEF Typed
<1> QED BY <1>1 DEF Keys, Failures, Found

LEMMA CasesTyped ==
  ASSUME Typed, Probe \/ Spring \/ CaseCrashes \/ Summarise
  PROVE  Typed'
<1>1. todo # <<>> /\ at # Closed /\ Head(todo) \in Suite
  <2>1. todo # <<>> /\ at # Closed
    BY DEF Probe, Spring, CaseCrashes, Summarise, Under
  <2> QED BY <2>1, UnderWay
<1>2. \E case, severity : /\ severity \in Severity /\ <<Head(todo), case>> \in EveryKey
                          /\ Guard(case, severity)
  <2>1. CASE Probe
    <3>1. PICK severity \in Severities(ProbeNames[at + 1]) : Guard(ProbeNames[at + 1], severity)
      BY <2>1 DEF Probe
    <3>2. at + 1 \in 1 .. 12 /\ Head(todo) = "isolation"
      BY <1>1, <2>1, CasesType DEF Probe, Under, Typed
    <3>3. <<Head(todo), ProbeNames[at + 1]>> \in EveryKey
      BY <1>1, <3>2, SuiteKeys, CasesType
    <3> QED BY <3>1, <3>2, <3>3, SeverityOf
  <2>2. CASE Spring
    <3>1. PICK reply \in Replies : Guard(Traps[at + 1].id, TrapSeen(Traps[at + 1], reply))
      BY <2>2 DEF Spring
    <3>2. at + 1 \in 1 .. Len(Traps) /\ Head(todo) = "silent_failure"
      BY <1>1, <2>2, CasesType DEF Spring, Under, Typed
    <3>3. <<Head(todo), Traps[at + 1].id>> \in EveryKey
      <4>1. at + 1 \in DOMAIN CasesOf(Head(todo))
        BY <3>2, CasesType
      <4>2. CasesOf(Head(todo))[at + 1] = Traps[at + 1].id
        BY <3>2, CasesType
      <4> QED BY <1>1, <4>1, <4>2, SuiteKeys
    <3> QED BY <3>1, <3>3, SeverityOf
  <2>3. CASE CaseCrashes
    <3>1. at + 1 \in DOMAIN CasesOf(Head(todo))
      <4>1. at \in Nat /\ at < Len(CasesOf(Head(todo)))
        BY <1>1, <2>3 DEF CaseCrashes, Typed
      <4>2. /\ DOMAIN CasesOf(Head(todo)) = 1 .. Len(CasesOf(Head(todo)))
            /\ Len(CasesOf(Head(todo))) \in Nat
        BY <1>1, CasesType
      <4> QED BY <4>1, <4>2
    <3> QED BY <1>1, <2>3, <3>1, SuiteKeys, SeverityOf DEF CaseCrashes
  <2>4. CASE Summarise
    BY <1>1, <2>4, SuiteKeys, SeverityOf DEF Summarise, Under
  <2> QED BY <2>1, <2>2, <2>3, <2>4
<1>3. /\ produced' \in Seq(Found) /\ streamed' \in Seq(Found)
      /\ at' = at + 1 /\ at' # Closed
  BY <1>1, <1>2, GuardTyped
<1>4. troubles' \in 0 .. MaxTroubles
  <2>1. troubles \in 0 .. MaxTroubles /\ MaxTroubles \in Nat
    BY EvalRunAssumption DEF Typed
  <2>2. troubles' = troubles \/ (troubles < MaxTroubles /\ troubles' = troubles + 1)
    BY DEF Probe, Spring, CaseCrashes, Summarise
  <2> QED BY <2>1, <2>2
<1>5. crashed' \subseteq EveryKey
  <2>1. CASE CaseCrashes
    <3>1. at + 1 \in DOMAIN CasesOf(Head(todo))
      <4>1. at \in Nat /\ at < Len(CasesOf(Head(todo)))
        BY <1>1, <2>1 DEF CaseCrashes, Typed
      <4>2. /\ DOMAIN CasesOf(Head(todo)) = 1 .. Len(CasesOf(Head(todo)))
            /\ Len(CasesOf(Head(todo))) \in Nat
        BY <1>1, CasesType
      <4> QED BY <4>1, <4>2
    <3> QED BY <1>1, <2>1, <3>1, SuiteKeys DEF CaseCrashes, Typed
  <2>2. CASE ~CaseCrashes
    BY <2>2 DEF Probe, Spring, Summarise, Typed
  <2> QED BY <2>1, <2>2
<1>6. /\ at' \in 0 .. Length(Head(todo)) /\ scored' <= at' /\ scored' \in Nat
      /\ scored' <= Len(Traps)
  <2>1. at \in Nat /\ scored \in Nat /\ scored <= at /\ scored <= Len(Traps)
    BY <1>1 DEF Typed
  <2>2. /\ Length("isolation") = 12 /\ Length("silent_failure") = Len(Traps) + 1
        /\ Len(ProbeNames) = 12 /\ Len(Traps) \in Nat
        /\ Len(CasesOf("isolation")) = 12 /\ Len(CasesOf("silent_failure")) = Len(Traps)
    BY CasesType
  <2>3. CASE Spring
    BY <1>3, <2>1, <2>2, <2>3 DEF Spring, Under
  <2>4. CASE Probe
    BY <1>3, <2>1, <2>2, <2>4 DEF Probe, Under
  <2>5. CASE Summarise
    BY <1>3, <2>1, <2>2, <2>5 DEF Summarise, Under
  <2>6. CASE CaseCrashes
    <3>1. at < Len(CasesOf(Head(todo))) /\ UNCHANGED scored
      BY <2>6 DEF CaseCrashes
    <3>3. Length(Head(todo)) \in Nat /\ Len(CasesOf(Head(todo))) <= Length(Head(todo))
      BY <1>1, LengthOf
    <3>4. Len(CasesOf(Head(todo))) \in Nat
      BY <1>1, CasesType
    <3>5. at' \in 0 .. Length(Head(todo))
      BY <1>3, <2>1, <3>1, <3>3, <3>4
    <3> QED BY <1>3, <2>1, <3>1, <3>5
  <2> QED BY <2>3, <2>4, <2>5, <2>6
<1>7. UNCHANGED <<mode, provider, todo, findings, known, accepted, exit, evals>>
  BY DEF Probe, Spring, CaseCrashes, Summarise, disk
<1> QED BY <1>1, <1>3, <1>4, <1>5, <1>6, <1>7 DEF Typed

LEMMA SuiteTyped ==
  ASSUME Typed, Open \/ OpenFails \/ EndSuite
  PROVE  Typed'
<1>1. Head(todo) \in Suite /\ Tail(todo) \in Seq(Suite) /\ mode # "idle" /\ todo # <<>>
  BY UnderWay DEF Open, OpenFails, EndSuite
<1>2. UNCHANGED <<mode, provider, known, accepted, exit, evals>>
  BY DEF Open, OpenFails, EndSuite, disk
<1>3. CASE Open
  <2>1. 0 \in 0 .. Length(Head(todo)) /\ 0 # Closed
    BY <1>1, CasesType DEF Suite, Closed
  <2>2. 0 <= Len(Traps) /\ <<>> \in Seq(Found)
    BY CasesType
  <2> QED BY <1>1, <1>2, <1>3, <2>1, <2>2 DEF Open, Typed
<1>4. CASE OpenFails
  <2>1. Broken(Head(todo)) \in Found /\ <<Head(todo), "__suite__">> \in EveryKey
    BY <1>1, SuiteKeys, SeverityOf, FoundType DEF Broken
  <2>2. findings' \in Seq(Found) /\ streamed' \in Seq(Found)
    BY <1>4, <2>1, Elementary DEF OpenFails, Emit, Typed
  <2>3. troubles' \in 0 .. MaxTroubles
    BY <1>4, EvalRunAssumption DEF OpenFails, Typed
  <2> QED BY <1>1, <1>2, <1>4, <2>1, <2>2, <2>3 DEF OpenFails, suite, Typed
<1>5. CASE EndSuite
  <2>1. findings' \in Seq(Found)
    BY <1>5, Elementary DEF EndSuite, Typed
  <2>2. <<>> \in Seq(Found) /\ Closed \in Int
    BY DEF Closed
  <2> QED BY <1>1, <1>2, <1>5, <2>1, <2>2 DEF EndSuite, Typed
<1> QED BY <1>3, <1>4, <1>5

LEMMA RestTyped ==
  ASSUME Typed,
         \/ Begin \/ SendSummary \/ CalibrateJudge \/ CalibrationFails \/ UpdateBaseline
         \/ Exit \/ Derive
  PROVE  Typed'
<1>1. CASE Begin
  <2>1. <<>> \in Seq(Found) /\ todo = <<>> /\ at = Closed
    BY <1>1 DEF Begin, Typed
  <2>3. todo' \in Seq(Suite) /\ todo' # <<>> /\ mode' \in {"cli", "socket"}
    <3>1. "isolation" \in Suite /\ "silent_failure" \in Suite
      BY DEF Suite
    <3>2. /\ <<"isolation", "silent_failure">> \in Seq(Suite)
          /\ \A s \in Suite : <<s>> \in Seq(Suite)
      BY <3>1
    <3>3. mode' = "cli" \/ mode' = "socket"
      BY <1>1 DEF Begin
    <3>4. CASE todo' = <<"isolation", "silent_failure">>
      BY <3>2, <3>3, <3>4
    <3>5. CASE \E s \in Suite : todo' = <<s>>
      BY <3>2, <3>3, <3>5
    <3> QED BY <1>1, <3>4, <3>5 DEF Begin
  <2>2. evals' \in 0 .. MaxEvals
    BY <1>1, EvalRunAssumption DEF Begin, Typed
  <2> QED BY <1>1, <2>1, <2>2, <2>3 DEF Begin, suite, disk, Typed
<1>2. CASE UpdateBaseline
  BY <1>2, KeysType DEF UpdateBaseline, Ready, BaselineOf, suite, Typed
<1>3. CASE SendSummary \/ CalibrateJudge \/ CalibrationFails \/ Exit \/ Derive
  <2>1. /\ UNCHANGED <<provider, todo, at, scored, produced, findings, streamed, crashed,
                       known, accepted, evals>>
        /\ troubles' \in 0 .. MaxTroubles
    BY <1>3, EvalRunAssumption DEF SendSummary, CalibrateJudge, CalibrationFails, Exit, Derive,
       suite, disk, Typed
  <2>2. \/ UNCHANGED <<mode, exit>>
        \/ /\ todo = <<>> /\ mode' = "idle"
           /\ exit' \in {"none", "summary", "raised", "updated", "ok", "failed"}
    BY <1>3 DEF SendSummary, CalibrateJudge, CalibrationFails, Exit, Derive, Ready
  <2> QED BY <2>1, <2>2 DEF Typed
<1> QED BY <1>1, <1>2, <1>3

LEMMA NextTyped == Typed /\ [Next]_vars => Typed'
<1> SUFFICES ASSUME Typed, [Next]_vars PROVE Typed'
  OBVIOUS
<1>1. CASE UNCHANGED vars
  BY <1>1 DEF vars, suite, disk, Typed
<1> QED BY <1>1, CasesTyped, SuiteTyped, RestTyped DEF Next

\* Every variable keeps to its values, and no more traps have an outcome than were
\* sprung.
THEOREM TypeInvariant == Spec => []TypeOK
<1>1. Typed => TypeOK
  <2> SUFFICES ASSUME Typed PROVE TypeOK
    OBVIOUS
  <2>1. Elements(produced \o findings \o streamed) \subseteq Found
    <3>1. produced \o findings \in Seq(Found) /\ produced \o findings \o streamed \in Seq(Found)
      BY Elementary DEF Typed
    <3> QED BY <3>1, Elementary
  <2>2. Elements(todo) \subseteq Suite
    BY Elementary DEF Typed
  <2>3. at \in Closed .. Len(ProbeNames) + Len(Traps)
    <3>1. CASE at = Closed
      BY <3>1, CasesType DEF Closed
    <3>2. CASE at # Closed
      <4>1. todo # <<>> /\ at \in 0 .. Length(Head(todo)) /\ Head(todo) \in Suite
        BY <3>2, UnderWay DEF Typed
      <4>2. Length(Head(todo)) <= 12 + Len(Traps) /\ Length(Head(todo)) \in Nat
        BY <4>1, CasesType DEF Suite
      <4> QED BY <4>1, <4>2, CasesType DEF Closed
    <3> QED BY <3>1, <3>2
  <2>4. scored \in 0 .. IF at = Closed THEN Len(Traps) ELSE at
    BY CasesType DEF Typed
  <2> QED BY <2>1, <2>2, <2>3, <2>4 DEF Typed, TypeOK
<1> QED BY InitTyped, NextTyped, <1>1, PTL DEF Spec

-----------------------------------------------------------------------------
(* What crashed is a failure.                                              *)

Recorded ==
  /\ known = accepted
  /\ crashed \subseteq Keys(Failures(findings)) \cup Keys(Failures(produced))

LEMMA FailuresOf ==
  ASSUME NEW s \in Seq(Found)
  PROVE  /\ \A f \in Found : /\ Keys(Failures(s)) \subseteq Keys(Failures(Append(s, f)))
                             /\ ~f.passed => f.key \in Keys(Failures(Append(s, f)))
                             /\ Blocking(s) \subseteq Blocking(Append(s, f))
                             /\ ~f.passed /\ f.severity >= FAIL_AT => Blocking(Append(s, f)) # {}
         /\ \A t \in Seq(Found) :
              /\ Keys(Failures(s \o t)) = Keys(Failures(s)) \cup Keys(Failures(t))
              /\ Blocking(s \o t) = Blocking(s) \cup Blocking(t)
<1>1. ASSUME NEW f \in Found
      PROVE  /\ Keys(Failures(s)) \subseteq Keys(Failures(Append(s, f)))
             /\ ~f.passed => f.key \in Keys(Failures(Append(s, f)))
             /\ Blocking(s) \subseteq Blocking(Append(s, f))
             /\ ~f.passed /\ f.severity >= FAIL_AT => Blocking(Append(s, f)) # {}
  <2>1. Elements(Append(s, f)) = Elements(s) \cup {f}
    BY Elementary
  <2>2. Failures(s) \subseteq Failures(Append(s, f)) /\ (~f.passed => f \in Failures(Append(s, f)))
    BY <2>1 DEF Failures
  <2> QED BY <2>2 DEF Keys, Blocking
<1>2. ASSUME NEW t \in Seq(Found)
      PROVE  /\ Keys(Failures(s \o t)) = Keys(Failures(s)) \cup Keys(Failures(t))
             /\ Blocking(s \o t) = Blocking(s) \cup Blocking(t)
  <2>1. Elements(s \o t) = Elements(s) \cup Elements(t)
    BY Elementary
  <2>2. Failures(s \o t) = Failures(s) \cup Failures(t)
    BY <2>1 DEF Failures
  <2> QED BY <2>2 DEF Keys, Blocking
<1> QED BY <1>1, <1>2

LEMMA NoneFailed == Keys(Failures(<<>>)) = {} /\ Blocking(<<>>) = {}
BY EmptySeq DEF Keys, Failures, Blocking, Elements

\* A case under way adds one finding.
LEMMA OneFinding ==
  ASSUME Typed, Probe \/ Spring \/ CaseCrashes \/ Summarise
  PROVE  /\ todo # <<>> /\ at \in Nat /\ at # Closed /\ Head(todo) \in Suite
         /\ at' = at + 1 /\ UNCHANGED <<todo, mode, provider, findings, known, accepted, exit>>
         /\ \E case, severity :
              /\ severity \in Severity /\ <<Head(todo), case>> \in EveryKey
              /\ produced' = Append(produced, Finding(Head(todo), case, severity))
              /\ CaseCrashes => severity = Crashed /\ case = CasesOf(Head(todo))[at + 1]
              /\ Summarise => severity = Rate(scored, at)
<1>1. todo # <<>> /\ at # Closed
  BY DEF Probe, Spring, CaseCrashes, Summarise, Under
<1>2. at \in Nat /\ Head(todo) \in Suite
  BY <1>1, UnderWay DEF Typed
<1>3. UNCHANGED <<todo, mode, provider, findings, known, accepted, exit>>
  BY DEF Probe, Spring, CaseCrashes, Summarise, disk
<1>4. \E case, severity :
        /\ severity \in Severity /\ <<Head(todo), case>> \in EveryKey
        /\ Guard(case, severity)
        /\ CaseCrashes => severity = Crashed /\ case = CasesOf(Head(todo))[at + 1]
        /\ Summarise => severity = Rate(scored, at)
  <2>1. CASE CaseCrashes
    <3>1. at + 1 \in DOMAIN CasesOf(Head(todo)) /\ at < Len(CasesOf(Head(todo)))
      BY <1>2, <2>1, CasesType DEF CaseCrashes
    <3>2. ~Summarise
      <4> SUFFICES ASSUME Summarise PROVE FALSE
        OBVIOUS
      <4>1. Head(todo) = "silent_failure" /\ at = Len(Traps)
        BY DEF Summarise, Under
      <4>2. Len(CasesOf(Head(todo))) = Len(Traps) /\ Len(Traps) \in Nat
        BY <4>1, CasesType
      <4> QED BY <3>1, <4>1, <4>2
    <3>3. <<Head(todo), CasesOf(Head(todo))[at + 1]>> \in EveryKey
      BY <1>2, <3>1, SuiteKeys
    <3> QED BY <2>1, <3>2, <3>3, SeverityOf DEF CaseCrashes
  <2>2. CASE Summarise
    <3>1. ~CaseCrashes
      <4>1. Head(todo) = "silent_failure" /\ at = Len(Traps)
        BY <2>2 DEF Summarise, Under
      <4>2. Len(CasesOf(Head(todo))) = Len(Traps) /\ Len(Traps) \in Nat
        BY <4>1, CasesType
      <4> QED BY <4>1, <4>2 DEF CaseCrashes
    <3>2. <<Head(todo), "__rate__">> \in EveryKey
      BY <1>2, <2>2, SuiteKeys DEF Summarise, Under
    <3> QED BY <2>2, <3>1, <3>2, SeverityOf DEF Summarise
  <2>3. CASE Probe /\ ~CaseCrashes /\ ~Summarise
    <3>1. PICK severity \in Severities(ProbeNames[at + 1]) : Guard(ProbeNames[at + 1], severity)
      BY <2>3 DEF Probe
    <3>2. at + 1 \in 1 .. 12 /\ Head(todo) = "isolation"
      BY <1>2, <2>3, CasesType DEF Probe, Under
    <3>3. <<Head(todo), ProbeNames[at + 1]>> \in EveryKey
      BY <1>2, <3>2, SuiteKeys, CasesType
    <3> QED BY <2>3, <3>1, <3>2, <3>3, SeverityOf
  <2>4. CASE Spring /\ ~CaseCrashes /\ ~Summarise
    <3>1. PICK reply \in Replies : Guard(Traps[at + 1].id, TrapSeen(Traps[at + 1], reply))
      BY <2>4 DEF Spring
    <3>2. at + 1 \in 1 .. Len(Traps) /\ Head(todo) = "silent_failure"
      BY <1>2, <2>4, CasesType DEF Spring, Under
    <3>3. <<Head(todo), Traps[at + 1].id>> \in EveryKey
      <4>1. at + 1 \in DOMAIN CasesOf(Head(todo))
        BY <3>2, CasesType
      <4>2. CasesOf(Head(todo))[at + 1] = Traps[at + 1].id
        BY <3>2, CasesType
      <4> QED BY <1>2, <4>1, <4>2, SuiteKeys
    <3> QED BY <2>4, <3>1, <3>3, SeverityOf
  <2> QED BY <2>1, <2>2, <2>3, <2>4
<1> QED BY <1>1, <1>2, <1>3, <1>4, GuardTyped

LEMMA RecordedStep ==
  ASSUME Typed, Recorded, [Next]_vars
  PROVE  Recorded'
<1>1. CASE UNCHANGED vars
  BY <1>1 DEF vars, suite, disk, Recorded
<1>2. CASE Probe \/ Spring \/ CaseCrashes \/ Summarise
  <2>1. /\ Head(todo) \in Suite /\ UNCHANGED <<findings, known, accepted>>
        /\ produced \in Seq(Found)
    BY <1>2, OneFinding DEF Typed
  <2>2. PICK case, severity :
          /\ severity \in Severity /\ <<Head(todo), case>> \in EveryKey
          /\ produced' = Append(produced, Finding(Head(todo), case, severity))
          /\ CaseCrashes => severity = Crashed /\ case = CasesOf(Head(todo))[at + 1]
    BY <1>2, OneFinding
  <2> DEFINE f == Finding(Head(todo), case, severity)
  <2>3. f \in Found /\ f.key = <<Head(todo), case>> /\ (severity # INFO => f.passed = FALSE)
    BY <2>1, <2>2, FoundType
  <2> HIDE DEF f
  <2>4. /\ Keys(Failures(produced)) \subseteq Keys(Failures(produced'))
        /\ ~f.passed => f.key \in Keys(Failures(produced'))
    BY <2>1, <2>2, <2>3, FailuresOf DEF f
  <2>5. CASE CaseCrashes
    <3>1. crashed' = crashed \cup {<<Head(todo), case>>} /\ ~f.passed
      BY <2>2, <2>3, <2>5, SeverityOf DEF CaseCrashes
    <3> QED BY <2>1, <2>3, <2>4, <3>1 DEF Recorded
  <2>6. CASE ~CaseCrashes
    <3>1. UNCHANGED crashed
      BY <1>2, <2>6 DEF Probe, Spring, Summarise
    <3> QED BY <2>1, <2>4, <3>1 DEF Recorded
  <2> QED BY <2>5, <2>6
<1>3. CASE Open
  <2>1. produced = <<>> /\ produced' = <<>> /\ UNCHANGED <<findings, crashed, known, accepted>>
    BY <1>3 DEF Open, disk, Typed
  <2> QED BY <2>1 DEF Recorded
<1>4. CASE OpenFails
  <2>1. /\ Head(todo) \in Suite /\ findings \in Seq(Found)
        /\ findings' = Append(findings, Broken(Head(todo)))
        /\ crashed' = crashed \cup {<<Head(todo), "__suite__">>}
        /\ UNCHANGED <<produced, known, accepted>>
    BY <1>4, UnderWay DEF OpenFails, suite, disk, Typed
  <2>2. /\ Broken(Head(todo)) \in Found /\ ~Broken(Head(todo)).passed
        /\ Broken(Head(todo)).key = <<Head(todo), "__suite__">>
    BY <2>1, SuiteKeys, SeverityOf, FoundType DEF Broken
  <2>3. /\ Keys(Failures(findings)) \subseteq Keys(Failures(findings'))
        /\ <<Head(todo), "__suite__">> \in Keys(Failures(findings'))
    BY <2>1, <2>2, FailuresOf
  <2> QED BY <2>1, <2>3 DEF Recorded
<1>5. CASE EndSuite
  <2>1. /\ findings' = findings \o produced /\ findings \in Seq(Found)
        /\ produced \in Seq(Found) /\ UNCHANGED <<crashed, known, accepted>>
    BY <1>5 DEF EndSuite, disk, Typed
  <2>2. Keys(Failures(findings')) = Keys(Failures(findings)) \cup Keys(Failures(produced))
    BY <2>1, FailuresOf
  <2> QED BY <2>1, <2>2 DEF Recorded
<1>6. CASE Begin
  BY <1>6 DEF Begin, disk, Recorded
<1>7. CASE UpdateBaseline
  BY <1>7 DEF UpdateBaseline, BaselineOf, suite, Recorded
<1>8. CASE SendSummary \/ CalibrateJudge \/ CalibrationFails \/ Exit \/ Derive
  <2>1. UNCHANGED <<findings, produced, crashed, known, accepted>>
    BY <1>8 DEF SendSummary, CalibrateJudge, CalibrationFails, Exit, Derive, suite, disk
  <2> QED BY <2>1 DEF Recorded
<1> QED BY <1>1, <1>2, <1>3, <1>4, <1>5, <1>6, <1>7, <1>8 DEF Next

\* A build passes only if whatever fails or crashes now was failing when the baseline
\* of its provider was last updated.
THEOREM NewFailuresFailBuilds == Spec => []NewFailureFailsTheBuild
<1>1. Init => Recorded
  BY NoneFailed DEF Init, Recorded
<1>2. Typed /\ Recorded /\ [Next]_vars => Recorded'
  BY RecordedStep
<1>3. Init => NewFailureFailsTheBuild
  BY DEF Init, NewFailureFailsTheBuild
<1>4. Typed /\ Recorded /\ NewFailureFailsTheBuild /\ [Next]_vars => NewFailureFailsTheBuild'
  <2> SUFFICES ASSUME Typed, Recorded, NewFailureFailsTheBuild, [Next]_vars,
                      (mode = "idle")', (exit = "ok")'
               PROVE  (Keys(Failures(findings)) \cup crashed \subseteq accepted[provider])'
    BY DEF NewFailureFailsTheBuild, Reported
  <2>1. CASE Exit
    <3>1. /\ produced = <<>> /\ UNCHANGED <<findings, crashed, accepted, provider>>
      BY <2>1 DEF Exit, Ready, Typed
    <3>2. crashed \subseteq Keys(Failures(findings))
      BY <3>1, NoneFailed DEF Recorded
    <3>3. NewFailures(findings, accepted[provider]) = {}
      BY <2>1 DEF Exit, ExitCode, BaselineOf, Recorded
    <3> QED BY <3>1, <3>2, <3>3 DEF NewFailures
  <2>2. CASE Derive \/ UNCHANGED vars
    <3>1. UNCHANGED <<mode, exit, findings, crashed, accepted, provider>>
      BY <2>2 DEF Derive, vars, disk
    <3> QED BY <3>1 DEF NewFailureFailsTheBuild, Reported
  <2>3. CASE Begin \/ SendSummary \/ CalibrateJudge \/ CalibrationFails \/ UpdateBaseline
    BY <2>3 DEF Begin, SendSummary, CalibrateJudge, CalibrationFails, UpdateBaseline, Ready
  <2>4. CASE Probe \/ Spring \/ CaseCrashes \/ Summarise
    <3>1. todo # <<>> /\ UNCHANGED <<mode, todo>>
      BY <2>4, OneFinding
    <3> QED BY <3>1, UnderWay
  <2>5. CASE Open \/ OpenFails \/ EndSuite
    <3>1. todo # <<>> /\ UNCHANGED mode
      BY <2>5 DEF Open, OpenFails, EndSuite
    <3> QED BY <3>1, UnderWay
  <2> QED BY <2>1, <2>2, <2>3, <2>4, <2>5 DEF Next
<1> QED BY InitTyped, NextTyped, <1>1, <1>2, <1>3, <1>4, PTL DEF Spec

-----------------------------------------------------------------------------
(* What could not be measured blocks.                                      *)

\* A trap without an outcome will show in the rate.
Pending ==
  /\ todo # <<>> /\ at # Closed /\ Head(todo) = "silent_failure"
  /\ scored < at /\ at <= Len(Traps)

Blind(k) == k[2] = "__suite__" \/ k[1] = "silent_failure"

Noticed ==
  (\E k \in crashed : Blind(k)) =>
    Blocking(findings) # {} \/ Blocking(produced) # {} \/ Pending

LEMMA NoticedStep ==
  ASSUME Typed, Noticed, [Next]_vars
  PROVE  Noticed'
<1>1. CASE UNCHANGED vars
  BY <1>1 DEF vars, suite, Noticed, Pending
<1>2. CASE Probe \/ Spring \/ CaseCrashes \/ Summarise
  <2>0. /\ todo # <<>> /\ at \in Nat /\ at # Closed /\ Head(todo) \in Suite
        /\ at' = at + 1 /\ UNCHANGED <<findings, todo>>
    BY <1>2, OneFinding
  <2>1. /\ todo # <<>> /\ at \in Nat /\ at # Closed /\ Head(todo) \in Suite
        /\ at' = at + 1 /\ UNCHANGED <<findings, todo>> /\ produced \in Seq(Found)
        /\ scored \in Nat /\ scored <= at /\ Len(Traps) \in Nat /\ at' # Closed
    BY <2>0, CasesType DEF Typed, Closed
  <2>2. PICK case, severity :
          /\ severity \in Severity /\ <<Head(todo), case>> \in EveryKey
          /\ produced' = Append(produced, Finding(Head(todo), case, severity))
          /\ CaseCrashes => severity = Crashed /\ case = CasesOf(Head(todo))[at + 1]
          /\ Summarise => severity = Rate(scored, at)
    BY <1>2, OneFinding
  <2> DEFINE f == Finding(Head(todo), case, severity)
  <2>3. f \in Found /\ f.severity = severity /\ (severity # INFO => f.passed = FALSE)
    BY <2>1, <2>2, FoundType
  <2> HIDE DEF f
  <2>4. /\ Blocking(produced) \subseteq Blocking(produced')
        /\ ~f.passed /\ f.severity >= FAIL_AT => Blocking(produced') # {}
    BY <2>1, <2>2, <2>3, FailuresOf DEF f
  <2>5. CASE Summarise /\ ~CaseCrashes
    <3>1. at = Len(Traps) /\ UNCHANGED <<crashed, scored>>
      BY <2>5 DEF Summarise
    <3>2. Pending => severity = HIGH
      BY <2>2, <2>5 DEF Pending, Rate
    <3>3. Pending => Blocking(produced') # {}
      BY <2>3, <2>4, <3>2 DEF HIGH, INFO, FAIL_AT
    <3> QED BY <2>1, <2>4, <3>1, <3>3 DEF Noticed
  <2>6. CASE Spring /\ ~CaseCrashes
    <3>1. at < Len(Traps) /\ scored' = scored + 1 /\ UNCHANGED crashed
      BY <2>6 DEF Spring
    <3>2. Pending => Pending'
      BY <2>1, <3>1 DEF Pending
    <3> QED BY <2>1, <2>4, <3>1, <3>2 DEF Noticed
  <2>7. CASE Probe /\ ~CaseCrashes
    <3>1. UNCHANGED crashed /\ ~Pending
      BY <2>7 DEF Probe, Under, Pending
    <3> QED BY <2>1, <2>4, <3>1 DEF Noticed
  <2>8. CASE CaseCrashes
    <3>1. /\ crashed' = crashed \cup {<<Head(todo), case>>} /\ UNCHANGED scored
          /\ at < Len(CasesOf(Head(todo)))
      BY <2>2, <2>8 DEF CaseCrashes
    <3>2. CASE Head(todo) = "silent_failure"
      <4>1. at < Len(Traps)
        BY <3>1, <3>2, CasesType
      <4>2. Pending'
        BY <2>1, <3>1, <3>2, <4>1 DEF Pending
      <4> QED BY <4>2 DEF Noticed
    <3>3. CASE Head(todo) = "isolation"
      <4>1. case # "__suite__"
        <5>0. Len(CasesOf(Head(todo))) = 12 /\ Len(CasesOf(Head(todo))) \in Nat
          BY <3>3, CasesType
        <5>1. at + 1 \in 1 .. 12
          <6>1. at < Len(CasesOf(Head(todo)))
            BY <3>1
          <6>2. at < 12
            BY <5>0, <6>1
          <6>3. at \in Nat
            BY <2>1
          <6> QED BY <6>2, <6>3
        <5>2. case = ProbeNames[at + 1]
          BY <2>2, <2>8, <3>3, CasesType
        <5> QED BY <5>1, <5>2, CasesType
      <4>2. ~Blind(<<Head(todo), case>>) /\ ~Pending
        BY <3>3, <4>1 DEF Blind, Pending
      <4> QED BY <2>1, <2>4, <3>1, <4>2 DEF Noticed
    <3> QED BY <2>1, <3>2, <3>3 DEF Suite
  <2> QED BY <1>2, <2>5, <2>6, <2>7, <2>8
<1>3. CASE Open
  <2>1. produced' = produced /\ ~Pending /\ UNCHANGED <<findings, crashed>>
    BY <1>3 DEF Open, Typed, Pending
  <2> QED BY <2>1 DEF Noticed
<1>4. CASE OpenFails
  <2>1. /\ Head(todo) \in Suite /\ findings \in Seq(Found)
        /\ findings' = Append(findings, Broken(Head(todo)))
    BY <1>4, UnderWay DEF OpenFails, Typed
  <2>2. /\ Broken(Head(todo)) \in Found /\ ~Broken(Head(todo)).passed
        /\ Broken(Head(todo)).severity >= FAIL_AT
    <3>1. /\ Broken(Head(todo)) \in Found /\ ~Broken(Head(todo)).passed
          /\ Broken(Head(todo)).severity = HIGH
      BY <2>1, SuiteKeys, SeverityOf, FoundType DEF Broken
    <3> QED BY <3>1 DEF HIGH, FAIL_AT
  <2>3. Blocking(findings') # {}
    BY <2>1, <2>2, FailuresOf
  <2> QED BY <2>3 DEF Noticed
<1>5. CASE EndSuite
  <2>1. /\ findings' = findings \o produced /\ findings \in Seq(Found)
        /\ produced \in Seq(Found) /\ UNCHANGED crashed /\ at = Length(Head(todo))
    BY <1>5 DEF EndSuite, Typed
  <2>2. Blocking(findings') = Blocking(findings) \cup Blocking(produced)
    BY <2>1, FailuresOf
  <2>3. ~Pending
    BY <2>1, CasesType DEF Pending
  <2> QED BY <2>1, <2>2, <2>3 DEF Noticed
<1>6. CASE Begin
  BY <1>6 DEF Begin, Noticed
<1>7. CASE SendSummary \/ CalibrateJudge \/ CalibrationFails \/ UpdateBaseline \/ Exit \/ Derive
  <2>1. UNCHANGED <<findings, produced, crashed, todo, at, scored>>
    BY <1>7 DEF SendSummary, CalibrateJudge, CalibrationFails, UpdateBaseline, Exit, Derive, suite
  <2> QED BY <2>1 DEF Noticed, Pending
<1> QED BY <1>1, <1>2, <1>3, <1>4, <1>5, <1>6, <1>7 DEF Next

\* An evaluation in which a suite did not run, or a trap has no outcome, blocks the
\* build by itself.
THEOREM BlindnessFailsBuilds == Spec => []BlindnessBlocks
<1>1. Init => Noticed
  BY DEF Init, Noticed
<1>2. Typed /\ Noticed /\ [Next]_vars => Noticed'
  BY NoticedStep
<1>3. Typed /\ Noticed => BlindnessBlocks
  <2> SUFFICES ASSUME Typed, Noticed, mode = "idle", NEW k \in crashed, Blind(k)
               PROVE  Blocking(findings) # {}
    BY DEF BlindnessBlocks, Reported, Blind
  <2>1. produced = <<>> /\ ~Pending
    BY DEF Typed, Pending
  <2> QED BY <2>1, NoneFailed DEF Noticed
<1> QED BY InitTyped, NextTyped, <1>1, <1>2, <1>3, PTL DEF Spec

-----------------------------------------------------------------------------
(* Nothing is hidden.                                                      *)

\* The key of the i-th finding of a suite.
KeyAt(s, i) ==
  IF i <= Len(CasesOf(s)) THEN <<s, CasesOf(s)[i]>> ELSE <<s, "__rate__">>

\* Where, in a list, the findings of a suite are.
Of(list, s) == {i \in DOMAIN list : list[i].key[1] = s}

\* It is reported as broken, or case by case.
Alone(list, s) == \E i \in Of(list, s) : Of(list, s) = {i} /\ list[i] = Broken(s)
Whole(list, s) ==
  /\ {list[i].key : i \in Of(list, s)} = KeysOf(s)
  /\ \A i, j \in Of(list, s) : list[i].key = list[j].key => i = j

LEMMA ProbesDiffer == \A i, j \in 1 .. 12 : ProbeNames[i] = ProbeNames[j] => i = j
<1> DEFINE Position(name) ==
             CASE name = "positive_control_own_documents" -> 1
               [] name = "positive_control_global_documents" -> 2
               [] name = "direct_answer_leak" -> 3
               [] name = "retrieval_filter" -> 4
               [] name = "followup_rewrite" -> 5
               [] name = "cache_namespace" -> 6
               [] name = "neighbor_expansion" -> 7
               [] name = "degenerate_tenant_id" -> 8
               [] name = "prompt_level_override" -> 9
               [] name = "scope_predicate" -> 10
               [] name = "session_reuse" -> 11
               [] name = "existence_disclosure" -> 12
<1>1. \A i \in 1 .. 12 : Position(ProbeNames[i]) = i
  BY DEF ProbeNames
<1> HIDE DEF Position
<1> QED BY <1>1

LEMMA KeysInOrder ==
  ASSUME NEW s \in Suite
  PROVE  /\ Length(s) \in Nat /\ Length(s) > 0
         /\ \A i \in 1 .. Length(s) : KeyAt(s, i)[1] = s
         /\ {KeyAt(s, i) : i \in 1 .. Length(s)} = KeysOf(s)
         /\ \A i, j \in 1 .. Length(s) : KeyAt(s, i) = KeyAt(s, j) => i = j
<1>1. \A i \in 1 .. Length(s) : KeyAt(s, i)[1] = s
  BY DEF KeyAt
<1>2. CASE s = "isolation"
  <2>1. Length(s) = 12 /\ Len(CasesOf(s)) = 12 /\ DOMAIN CasesOf(s) = 1 .. 12
        /\ CasesOf(s) = ProbeNames
    BY <1>2, CasesType
  <2>2. \A i \in 1 .. 12 : KeyAt(s, i) = <<s, ProbeNames[i]>>
    BY <2>1 DEF KeyAt
  <2>3. KeysOf(s) = {<<s, ProbeNames[i]>> : i \in 1 .. 12}
    BY <1>2, <2>1 DEF KeysOf, Elements
  <2> QED BY <1>1, <2>1, <2>2, <2>3, ProbesDiffer
<1>3. CASE s = "silent_failure"
  <2>1. PICK n \in Nat : n = Len(Traps)
    BY CasesType
  <2>2. /\ Length(s) = n + 1 /\ Len(CasesOf(s)) = n /\ DOMAIN CasesOf(s) = 1 .. n
        /\ \A i \in 1 .. n : CasesOf(s)[i] = Traps[i].id
        /\ DOMAIN Traps = 1 .. n
    BY <1>3, <2>1, CasesType
  <2>3. \A i \in 1 .. n : KeyAt(s, i) = <<s, Traps[i].id>>
    BY <2>2 DEF KeyAt
  <2>4. KeyAt(s, n + 1) = <<s, "__rate__">>
    BY <2>2 DEF KeyAt
  <2>5. KeysOf(s) = {<<s, Traps[i].id>> : i \in 1 .. n} \cup {<<s, "__rate__">>}
    BY <1>3, <2>2 DEF KeysOf, Elements
  <2>6. {KeyAt(s, i) : i \in 1 .. n + 1} = {KeyAt(s, i) : i \in 1 .. n} \cup {KeyAt(s, n + 1)}
    OBVIOUS
  <2>7. {KeyAt(s, i) : i \in 1 .. n + 1} = KeysOf(s)
    BY <2>3, <2>4, <2>5, <2>6
  <2>8. \A i, j \in 1 .. n + 1 : KeyAt(s, i) = KeyAt(s, j) => i = j
    <3>1. \A i, j \in 1 .. n : KeyAt(s, i) = KeyAt(s, j) => i = j
      BY <2>2, <2>3, EvalRunAssumption
    <3>2. \A i \in 1 .. n : KeyAt(s, i) # KeyAt(s, n + 1)
      BY <2>2, <2>3, <2>4, EvalRunAssumption
    <3> QED BY <3>1, <3>2
  <2> QED BY <1>1, <2>2, <2>7, <2>8
<1> QED BY <1>2, <1>3 DEF Suite

\* A list grows by the findings of a suite it had none of.
LEMMA OfConcat ==
  ASSUME NEW list \in Seq(Found), NEW more \in Seq(Found), NEW s,
         Of(list, s) = {}, \A i \in 1 .. Len(more) : more[i].key[1] = s
  PROVE  /\ \A t : t # s => /\ Of(list \o more, t) = Of(list, t)
                            /\ \A i \in Of(list, t) : (list \o more)[i] = list[i]
         /\ Of(list \o more, s) = {Len(list) + i : i \in 1 .. Len(more)}
         /\ \A i \in 1 .. Len(more) : (list \o more)[Len(list) + i] = more[i]
<1>0. PICK n \in Nat, m \in Nat : n = Len(list) /\ m = Len(more)
  BY LenProperties
<1>01. PICK all : all = list \o more
  OBVIOUS
<1>1. n = Len(list) /\ m = Len(more) /\ all = list \o more
  BY <1>0, <1>01
<1>2. DOMAIN list = 1 .. n /\ DOMAIN more = 1 .. m /\ DOMAIN all = 1 .. n + m
  <2>1. list \o more \in Seq(Found) /\ Len(list \o more) = Len(list) + Len(more)
    BY ConcatProperties
  <2> QED BY <1>1, <2>1, LenProperties
<1>3. \A i \in 1 .. n + m : all[i] = IF i <= n THEN list[i] ELSE more[i - n]
  BY <1>1, ConcatProperties
<1>4. \A i \in 1 .. n : all[i] = list[i]
  BY <1>3
<1>5. \A i \in 1 .. m : n + i \in 1 .. n + m /\ all[n + i] = more[i]
  <2> SUFFICES ASSUME NEW i \in 1 .. m PROVE n + i \in 1 .. n + m /\ all[n + i] = more[i]
    OBVIOUS
  <2>1. PICK k \in 1 .. n + m : k = n + i /\ k > n /\ k - n = i
    OBVIOUS
  <2> QED BY <1>3, <2>1
<1>6. \A k \in 1 .. n + m : k \in 1 .. n \/ \E i \in 1 .. m : k = n + i
  <2> SUFFICES ASSUME NEW k \in 1 .. n + m, k > n PROVE \E i \in 1 .. m : k = n + i
    OBVIOUS
  <2>1. k - n \in 1 .. m /\ k = n + (k - n)
    OBVIOUS
  <2> QED BY <2>1
<1>7. \A k \in 1 .. n : all[k].key[1] # s
  BY <1>2, <1>4 DEF Of
<1>8. \A i \in 1 .. m : all[n + i].key[1] = s
  BY <1>1, <1>5
<1>9. ASSUME NEW t, t # s
      PROVE  /\ Of(all, t) = Of(list, t)
             /\ \A i \in Of(list, t) : all[i] = list[i]
  <2>1. ASSUME NEW k \in Of(all, t) PROVE k \in Of(list, t)
    <3>1. k \in 1 .. n + m /\ all[k].key[1] = t
      BY <1>2 DEF Of
    <3>2. k \in 1 .. n
      BY <1>6, <1>8, <1>9, <3>1
    <3> QED BY <1>2, <1>4, <3>1, <3>2 DEF Of
  <2>2. ASSUME NEW k \in Of(list, t) PROVE k \in Of(all, t) /\ all[k] = list[k]
    <3>1. k \in 1 .. n /\ list[k].key[1] = t
      BY <1>2 DEF Of
    <3>2. k \in 1 .. n + m /\ all[k] = list[k]
      BY <1>4, <3>1
    <3> QED BY <1>2, <3>1, <3>2 DEF Of
  <2> QED BY <2>1, <2>2
<1>10. Of(all, s) = {n + i : i \in 1 .. m}
  <2>1. ASSUME NEW k \in Of(all, s) PROVE \E i \in 1 .. m : k = n + i
    <3>1. k \in 1 .. n + m /\ all[k].key[1] = s
      BY <1>2 DEF Of
    <3> QED BY <1>6, <1>7, <3>1
  <2>2. ASSUME NEW i \in 1 .. m PROVE n + i \in Of(all, s)
    BY <1>2, <1>5, <1>8 DEF Of
  <2> QED BY <2>1, <2>2
<1>11. \A i \in 1 .. m : all[n + i] = more[i]
  BY <1>5
<1> QED BY <1>1, <1>9, <1>10, <1>11

\* What was reported of another suite stays.
LEMMA OthersStay ==
  ASSUME NEW list \in Seq(Found), NEW more \in Seq(Found), NEW s,
         Of(list, s) = {}, \A i \in 1 .. Len(more) : more[i].key[1] = s,
         NEW t, t # s
  PROVE  /\ Of(list \o more, t) = Of(list, t)
         /\ Alone(list, t) => Alone(list \o more, t)
         /\ Whole(list, t) => Whole(list \o more, t)
<1>1. PICK all : all = list \o more
  OBVIOUS
<1>2. \A x : x # s => /\ Of(list \o more, x) = Of(list, x)
                    /\ \A i \in Of(list, x) : (list \o more)[i] = list[i]
  BY OfConcat
<1>3. Of(all, t) = Of(list, t) /\ \A i \in Of(list, t) : all[i] = list[i]
  BY <1>1, <1>2
<1>4. Alone(list, t) => Alone(all, t)
  BY <1>3 DEF Alone
<1>5. Whole(list, t) => Whole(all, t)
  BY <1>3 DEF Whole
<1> QED BY <1>1, <1>3, <1>4, <1>5

LEMMA AddedWhole ==
  ASSUME NEW s \in Suite, NEW list \in Seq(Found), NEW more \in Seq(Found),
         Of(list, s) = {}, Len(more) = Length(s),
         \A i \in 1 .. Length(s) : more[i].key = KeyAt(s, i)
  PROVE  Of(list \o more, s) # {} /\ Whole(list \o more, s)
<1>0. PICK n \in Nat, m \in Nat : n = Len(list) /\ m = Length(s)
  BY LenProperties, KeysInOrder
<1>01. PICK all : all = list \o more
  OBVIOUS
<1>1. n = Len(list) /\ m = Length(s) /\ all = list \o more
  BY <1>0, <1>01
<1>2. /\ m > 0 /\ {KeyAt(s, i) : i \in 1 .. m} = KeysOf(s)
      /\ \A i, j \in 1 .. m : KeyAt(s, i) = KeyAt(s, j) => i = j
      /\ \A i \in 1 .. m : more[i].key[1] = s
  BY <1>1, KeysInOrder
<1>3. /\ Of(all, s) = {n + i : i \in 1 .. m}
      /\ \A i \in 1 .. m : all[n + i] = more[i]
  BY <1>1, <1>2, OfConcat
<1>4. \A i \in 1 .. m : all[n + i].key = KeyAt(s, i)
  BY <1>1, <1>3
<1>5. Of(all, s) # {}
  <2>1. n + 1 \in Of(all, s)
    BY <1>2, <1>3
  <2> QED BY <2>1
<1>6. {all[i].key : i \in Of(all, s)} = {KeyAt(s, i) : i \in 1 .. m}
  <2>1. ASSUME NEW k \in Of(all, s) PROVE \E i \in 1 .. m : all[k].key = KeyAt(s, i)
    BY <1>3, <1>4
  <2>2. ASSUME NEW i \in 1 .. m PROVE \E k \in Of(all, s) : all[k].key = KeyAt(s, i)
    BY <1>3, <1>4
  <2>3. {all[k].key : k \in Of(all, s)} \subseteq {KeyAt(s, i) : i \in 1 .. m}
    BY <2>1
  <2>4. {KeyAt(s, i) : i \in 1 .. m} \subseteq {all[k].key : k \in Of(all, s)}
    BY <2>2
  <2> QED BY <2>3, <2>4
<1>7. ASSUME NEW k \in Of(all, s), NEW l \in Of(all, s), all[k].key = all[l].key
      PROVE  k = l
  <2>1. PICK i \in 1 .. m, j \in 1 .. m : k = n + i /\ l = n + j
    BY <1>3
  <2>2. KeyAt(s, i) = KeyAt(s, j)
    BY <1>4, <1>7, <2>1
  <2> QED BY <1>2, <2>1, <2>2
<1>8. Of(all, s) # {} /\ Whole(all, s)
  BY <1>2, <1>5, <1>6, <1>7 DEF Whole
<1> QED BY <1>1, <1>8

LEMMA AddedAlone ==
  ASSUME NEW s \in Suite, NEW list \in Seq(Found), Of(list, s) = {},
         Broken(s) \in Found
  PROVE  /\ Of(Append(list, Broken(s)), s) # {} /\ Alone(Append(list, Broken(s)), s)
         /\ \A t : t # s => /\ Of(Append(list, Broken(s)), t) = Of(list, t)
                            /\ Alone(list, t) => Alone(Append(list, Broken(s)), t)
                            /\ Whole(list, t) => Whole(Append(list, Broken(s)), t)
<1>0. PICK n \in Nat : n = Len(list)
  BY LenProperties
<1>1. PICK more, all : more = <<Broken(s)>> /\ all = Append(list, Broken(s))
  OBVIOUS
<1>2. more \in Seq(Found) /\ Len(more) = 1 /\ more[1] = Broken(s)
  BY <1>1
<1>3. all = list \o more
  BY <1>1, AppendIsConcat
<1>4. Broken(s).key[1] = s
  BY DEF Broken, Finding
<1>5. \A i \in 1 .. Len(more) : more[i].key[1] = s
  BY <1>2, <1>4
<1>6. /\ Of(list \o more, s) = {Len(list) + i : i \in 1 .. Len(more)}
      /\ \A i \in 1 .. Len(more) : (list \o more)[Len(list) + i] = more[i]
  BY <1>2, <1>5, OfConcat
<1>7. Of(all, s) = {n + 1} /\ all[n + 1] = Broken(s)
  <2>1. /\ Of(all, s) = {n + i : i \in 1 .. 1}
        /\ \A i \in 1 .. 1 : all[n + i] = more[i]
    BY <1>0, <1>2, <1>3, <1>6
  <2>2. 1 .. 1 = {1}
    OBVIOUS
  <2> QED BY <1>2, <2>1, <2>2
<1>8. Alone(all, s)
  BY <1>7 DEF Alone
<1>9. ASSUME NEW t, t # s
      PROVE  /\ Of(all, t) = Of(list, t)
             /\ Alone(list, t) => Alone(all, t)
             /\ Whole(list, t) => Whole(all, t)
  <2>1. /\ Of(list \o more, t) = Of(list, t)
        /\ Alone(list, t) => Alone(list \o more, t)
        /\ Whole(list, t) => Whole(list \o more, t)
    BY <1>2, <1>5, <1>9, OthersStay
  <2> QED BY <1>3, <2>1
<1> QED BY <1>1, <1>7, <1>8, <1>9

\* The suites that may be still to run, in their order.
Queues == {<<>>, <<"isolation">>, <<"silent_failure">>, <<"isolation", "silent_failure">>}

\* A suite is reported as broken, which it then is, or case by case.
Accounted(s) == Whole(findings, s) \/ (Alone(findings, s) /\ <<s, "__suite__">> \in crashed)

\* The suites still to run have no findings yet; what was reported is accounted for, and
\* on the command line each suite that is not to run any more was.
Queued ==
  /\ todo \in Queues
  /\ \A s \in Elements(todo) : Of(findings, s) = {}
  /\ \A s \in Suite : Of(findings, s) # {} => Accounted(s)
  /\ mode = "cli" => \A s \in Suite \ Elements(todo) : Of(findings, s) # {}

\* The suite under way has the findings of its first cases, in their order.
InStep ==
  at # Closed =>
    Len(produced) = at /\ \A i \in 1 .. at : produced[i].key = KeyAt(Head(todo), i)

\* The client has been sent what is known, and there is something to know.
Sent ==
  mode = "socket" => streamed = findings \o produced /\ (findings # <<>> \/ todo # <<>>)

\* And it stays so once the evaluation is over.
Shown ==
  mode = "idle" =>
    /\ exit = "summary" => streamed = findings /\ findings # <<>>
    /\ exit \in {"updated", "ok", "failed"} =>
         /\ \A s \in Suite : Of(findings, s) # {}
         /\ written[1].headline = {f \in Elements(findings) : f.key[2] \in Aggregate}

Reporting == Queued /\ InStep /\ Sent /\ Shown

LEMMA QueueStep ==
  ASSUME NEW queue \in Queues, queue # <<>>
  PROVE  /\ Head(queue) \in Elements(queue) /\ Tail(queue) \in Queues
         /\ Elements(Tail(queue)) = Elements(queue) \ {Head(queue)}
<1>1. ASSUME NEW s PROVE /\ Elements(<<s>>) = {s} /\ Head(<<s>>) = s /\ Tail(<<s>>) = <<>>
  <2>1. Elements(<<s>>) = {s}
    BY DEF Elements
  <2> QED BY <2>1
<1>2. CASE queue = <<"isolation", "silent_failure">>
  <2>1. /\ Head(queue) = "isolation" /\ Tail(queue) = <<"silent_failure">>
    BY <1>2
  <2>2. Elements(queue) = {"isolation", "silent_failure"}
    BY <1>2 DEF Elements
  <2>3. Elements(Tail(queue)) = {"silent_failure"}
    BY <1>1, <2>1
  <2> QED BY <2>1, <2>2, <2>3 DEF Queues
<1>3. Elements(<<>>) = {}
  BY EmptySeq DEF Elements
<1>4. CASE \E s : queue = <<s>>
  <2>1. PICK s : queue = <<s>>
    BY <1>4
  <2>2. Elements(queue) = {s} /\ Head(queue) = s /\ Tail(queue) = <<>>
    BY <1>1, <2>1
  <2>3. Elements(Tail(queue)) = {}
    BY <1>3, <2>2
  <2> QED BY <2>2, <2>3 DEF Queues
<1>5. \/ queue = <<"isolation", "silent_failure">>
      \/ \E s : queue = <<s>>
  BY DEF Queues
<1> QED BY <1>2, <1>4, <1>5

\* The finding of a case is the next of its suite, and it is sent as it is known.
LEMMA NextFinding ==
  ASSUME Typed, Probe \/ Spring \/ CaseCrashes \/ Summarise
  PROVE  \E f \in Found :
           /\ f.key = KeyAt(Head(todo), at + 1)
           /\ produced' = Append(produced, f)
           /\ streamed' = IF mode = "socket" THEN Append(streamed, f) ELSE streamed
<1>1. todo # <<>> /\ at \in Nat /\ at # Closed /\ Head(todo) \in Suite
  BY OneFinding
<1>2. PICK s \in Suite : s = Head(todo)
  BY <1>1
<1>3. PICK n \in Nat : n = at + 1
  BY <1>1
<1>4. /\ DOMAIN CasesOf(s) = 1 .. Len(CasesOf(s)) /\ Len(CasesOf(s)) \in Nat
  BY CasesType
<1>5. \E case, severity :
        /\ severity \in Severity /\ <<s, case>> \in EveryKey /\ <<s, case>> = KeyAt(s, n)
        /\ Guard(case, severity)
  <2>1. CASE CaseCrashes
    <3>1. at < Len(CasesOf(s)) /\ Guard(CasesOf(s)[n], Crashed)
      BY <1>2, <1>3, <2>1 DEF CaseCrashes
    <3>2. n <= Len(CasesOf(s)) /\ n \in DOMAIN CasesOf(s)
      BY <1>1, <1>3, <1>4, <3>1
    <3>3. <<s, CasesOf(s)[n]>> \in EveryKey /\ KeyAt(s, n) = <<s, CasesOf(s)[n]>>
      BY <3>2, SuiteKeys DEF KeyAt
    <3> QED BY <3>1, <3>3, SeverityOf
  <2>2. CASE Summarise
    <3>1. s = "silent_failure" /\ at = Len(Traps) /\ Guard("__rate__", Rate(scored, at))
      BY <1>2, <2>2 DEF Summarise, Under
    <3>2. n > Len(CasesOf(s))
      BY <1>1, <1>3, <1>4, <3>1, CasesType
    <3>3. <<s, "__rate__">> \in EveryKey
      BY <3>1, SuiteKeys
    <3>4. KeyAt(s, n) = <<s, "__rate__">>
      BY <1>4, <3>2 DEF KeyAt
    <3> QED BY <3>1, <3>3, <3>4, SeverityOf
  <2>3. CASE Probe
    <3>1. s = "isolation" /\ at < Len(ProbeNames)
      BY <1>2, <2>3 DEF Probe, Under
    <3>2. CasesOf(s) = ProbeNames
      BY <3>1, CasesType
    <3>3. PICK severity \in Severities(ProbeNames[n]) : Guard(ProbeNames[n], severity)
      BY <1>3, <2>3 DEF Probe
    <3>4. n <= Len(CasesOf(s)) /\ n \in 1 .. 12
      <4>1. Len(ProbeNames) = 12
        BY CasesType
      <4>2. n \in 1 .. 12
        BY <1>1, <1>3, <3>1, <4>1
      <4>3. Len(CasesOf(s)) = 12
        BY <3>2, <4>1
      <4> QED BY <4>2, <4>3
    <3>5. <<s, ProbeNames[n]>> \in EveryKey /\ KeyAt(s, n) = <<s, ProbeNames[n]>>
      BY <1>4, <3>2, <3>4, SuiteKeys, CasesType DEF KeyAt
    <3>6. severity \in Severity
      BY <3>3, <3>4, SeverityOf
    <3> QED BY <3>3, <3>5, <3>6
  <2>4. CASE Spring
    <3>1. s = "silent_failure" /\ at < Len(Traps)
      BY <1>2, <2>4 DEF Spring, Under
    <3>2. Len(CasesOf(s)) = Len(Traps)
      BY <3>1, CasesType
    <3>3. PICK reply \in Replies : Guard(Traps[n].id, TrapSeen(Traps[n], reply))
      BY <1>3, <2>4 DEF Spring
    <3>4. n <= Len(CasesOf(s)) /\ n \in 1 .. Len(Traps)
      BY <1>1, <1>3, <1>4, <3>1, <3>2
    <3>5. CasesOf(s)[n] = Traps[n].id /\ n \in DOMAIN CasesOf(s)
      BY <1>4, <3>1, <3>2, <3>4, CasesType
    <3>6. <<s, Traps[n].id>> \in EveryKey /\ KeyAt(s, n) = <<s, Traps[n].id>>
      BY <3>4, <3>5, SuiteKeys DEF KeyAt
    <3>7. TrapSeen(Traps[n], reply) \in Severity
      BY SeverityOf
    <3> QED BY <3>3, <3>6, <3>7
  <2> QED BY <2>1, <2>2, <2>3, <2>4
<1>6. PICK case, severity :
        /\ severity \in Severity /\ <<s, case>> \in EveryKey /\ <<s, case>> = KeyAt(s, n)
        /\ Guard(case, severity)
  BY <1>5
<1>7. PICK f \in Found : f = Finding(s, case, severity) /\ f.key = <<s, case>>
  BY <1>6, FoundType
<1>8. /\ produced' = Append(produced, f)
      /\ streamed' = IF mode = "socket" THEN Append(streamed, f) ELSE streamed
  BY <1>2, <1>6, <1>7 DEF Guard, Emit
<1> QED BY <1>2, <1>3, <1>6, <1>7, <1>8

LEMMA ReportingInit == Init => Reporting
<1> SUFFICES ASSUME Init PROVE Reporting
  OBVIOUS
<1>1. todo = <<>> /\ findings = <<>> /\ at = Closed /\ mode = "idle" /\ exit = "none"
  BY DEF Init
<1>2. Elements(todo) = {} /\ \A s : Of(findings, s) = {}
  BY <1>1, EmptySeq DEF Elements, Of
<1>3. Queued
  BY <1>1, <1>2 DEF Queued, Queues
<1>4. InStep /\ Sent /\ Shown
  BY <1>1 DEF InStep, Sent, Shown
<1> QED BY <1>3, <1>4 DEF Reporting

\* A case ends.
LEMMA CaseReports ==
  ASSUME Typed, Reporting, Probe \/ Spring \/ CaseCrashes \/ Summarise
  PROVE  Reporting'
<1>1. /\ todo # <<>> /\ at \in Nat /\ at # Closed /\ Head(todo) \in Suite /\ at' = at + 1
      /\ UNCHANGED <<todo, mode, findings, exit>> /\ mode # "idle"
  BY OneFinding, UnderWay
<1>2. PICK f \in Found :
        /\ f.key = KeyAt(Head(todo), at + 1)
        /\ produced' = Append(produced, f)
        /\ streamed' = IF mode = "socket" THEN Append(streamed, f) ELSE streamed
  BY NextFinding
<1>3. crashed \subseteq crashed'
  BY DEF Probe, Spring, CaseCrashes, Summarise
<1>4. Queued'
  <2>1. \A s : Accounted(s) => Accounted(s)'
    BY <1>1, <1>3 DEF Accounted
  <2>2. Queued
    BY DEF Reporting
  <2> QED BY <1>1, <2>1, <2>2 DEF Queued
<1>5. InStep'
  <2>1. PICK n \in Nat : n = at /\ at' = n + 1
    BY <1>1
  <2>2. /\ produced \in Seq(Found) /\ Len(produced) = n
        /\ \A i \in 1 .. n : produced[i].key = KeyAt(Head(todo), i)
    BY <1>1, <2>1 DEF Reporting, InStep, Typed
  <2>3. /\ Len(produced') = n + 1 /\ produced'[n + 1] = f
        /\ \A i \in 1 .. n : produced'[i] = produced[i]
    BY <1>2, <2>2, AppendProperties
  <2>4. \A i \in 1 .. n + 1 : produced'[i].key = KeyAt(Head(todo), i)
    <3> SUFFICES ASSUME NEW i \in 1 .. n + 1 PROVE produced'[i].key = KeyAt(Head(todo), i)
      OBVIOUS
    <3>1. CASE i = n + 1
      BY <1>2, <2>1, <2>3, <3>1
    <3>2. CASE i \in 1 .. n
      BY <2>2, <2>3, <3>2
    <3> QED BY <3>1, <3>2
  <2> QED BY <1>1, <2>1, <2>3, <2>4 DEF InStep
<1>6. Sent'
  <2> SUFFICES ASSUME mode = "socket"
               PROVE  streamed' = findings \o produced' /\ todo' # <<>>
    BY <1>1 DEF Sent
  <2>1. streamed' = Append(findings \o produced, f)
    BY <1>2 DEF Reporting, Sent
  <2>2. findings \in Seq(Found) /\ produced \in Seq(Found) /\ <<f>> \in Seq(Found)
    BY DEF Typed
  <2>3. findings \o produced \in Seq(Found)
    BY <2>2, ConcatProperties
  <2>4. Append(findings \o produced, f) = (findings \o produced) \o <<f>>
    BY <2>3, AppendIsConcat
  <2>5. (findings \o produced) \o <<f>> = findings \o (produced \o <<f>>)
    BY <2>2, ConcatAssociative
  <2>6. produced \o <<f>> = produced'
    BY <1>2, <2>2, AppendIsConcat
  <2> QED BY <1>1, <2>1, <2>4, <2>5, <2>6
<1>7. Shown'
  BY <1>1 DEF Shown
<1> QED BY <1>4, <1>5, <1>6, <1>7 DEF Reporting

\* A suite that cannot be opened.
LEMMA FailureReports ==
  ASSUME Typed, Reporting, OpenFails
  PROVE  Reporting'
<1>1. PICK s \in Suite : s = Head(todo)
  BY UnderWay DEF OpenFails
<1>2. /\ todo # <<>> /\ mode # "idle" /\ mode' = mode /\ at = Closed /\ at' = at
      /\ produced = <<>> /\ produced' = produced /\ todo' = Tail(todo)
      /\ findings' = Append(findings, Broken(s)) /\ findings \in Seq(Found)
      /\ streamed' = IF mode = "socket" THEN Append(streamed, Broken(s)) ELSE streamed
      /\ crashed' = crashed \cup {<<s, "__suite__">>}
  BY <1>1, UnderWay DEF OpenFails, suite, Typed, Emit
<1>3. /\ todo \in Queues /\ s \in Elements(todo) /\ Tail(todo) \in Queues
      /\ Elements(Tail(todo)) = Elements(todo) \ {s}
  <2>1. todo \in Queues
    BY DEF Reporting, Queued
  <2> QED BY <1>1, <1>2, <2>1, QueueStep
<1>4. Broken(s) \in Found
  BY <1>1, SuiteKeys, SeverityOf, FoundType DEF Broken
<1>5. Of(findings, s) = {}
  BY <1>3 DEF Reporting, Queued
<1>6. /\ Of(findings', s) # {} /\ Alone(findings', s)
      /\ \A t : t # s => /\ Of(findings', t) = Of(findings, t)
                         /\ Alone(findings, t) => Alone(findings', t)
                         /\ Whole(findings, t) => Whole(findings', t)
  BY <1>2, <1>4, <1>5, AddedAlone
<1>7. \A t : t # s /\ Accounted(t) => Accounted(t)'
  BY <1>2, <1>6 DEF Accounted
<1>8. Accounted(s)'
  BY <1>2, <1>6 DEF Accounted
<1>9. Queued'
  <2>1. Queued
    BY DEF Reporting
  <2>2. \A t \in Elements(todo') : Of(findings', t) = {}
    BY <1>2, <1>3, <1>6, <2>1 DEF Queued
  <2>3. \A t \in Suite : Of(findings', t) # {} => Accounted(t)'
    BY <1>6, <1>7, <1>8, <2>1 DEF Queued
  <2>4. mode' = "cli" => \A t \in Suite \ Elements(todo') : Of(findings', t) # {}
    BY <1>2, <1>3, <1>6, <2>1 DEF Queued
  <2> QED BY <1>2, <1>3, <2>2, <2>3, <2>4 DEF Queued
<1>10. Sent'
  <2> SUFFICES ASSUME mode = "socket"
               PROVE  streamed' = findings' \o produced' /\ findings' # <<>>
    BY <1>2 DEF Sent
  <2>1. streamed = findings \o <<>>
    BY <1>2 DEF Reporting, Sent
  <2>2. findings \o <<>> = findings
    BY <1>2, ConcatEmptySeq
  <2>3. findings' \in Seq(Found) /\ findings' # <<>>
    BY <1>2, <1>4, AppendProperties
  <2>4. findings' \o <<>> = findings'
    BY <2>3, ConcatEmptySeq
  <2> QED BY <1>2, <2>1, <2>2, <2>3, <2>4
<1>11. InStep' /\ Shown'
  BY <1>2 DEF InStep, Shown
<1> QED BY <1>9, <1>10, <1>11 DEF Reporting

\* A suite that returns.
LEMMA SuiteReports ==
  ASSUME Typed, Reporting, EndSuite
  PROVE  Reporting'
<1>1. PICK s \in Suite : s = Head(todo)
  BY UnderWay DEF EndSuite
<1>2. /\ todo # <<>> /\ mode # "idle" /\ mode' = mode /\ at # Closed /\ at' = Closed
      /\ at = Length(s) /\ produced' = <<>> /\ todo' = Tail(todo)
      /\ findings' = findings \o produced /\ findings \in Seq(Found)
      /\ produced \in Seq(Found) /\ UNCHANGED <<streamed, crashed>>
  BY <1>1, UnderWay DEF EndSuite, Typed
<1>3. /\ todo \in Queues /\ s \in Elements(todo) /\ Tail(todo) \in Queues
      /\ Elements(Tail(todo)) = Elements(todo) \ {s}
  <2>1. todo \in Queues
    BY DEF Reporting, Queued
  <2> QED BY <1>1, <1>2, <2>1, QueueStep
<1>4. /\ Len(produced) = Length(s)
      /\ \A i \in 1 .. Length(s) : produced[i].key = KeyAt(s, i)
  BY <1>1, <1>2 DEF Reporting, InStep
<1>5. Of(findings, s) = {}
  BY <1>3 DEF Reporting, Queued
<1>6. Of(findings', s) # {} /\ Whole(findings', s)
  BY <1>2, <1>4, <1>5, AddedWhole
<1>7. \A i \in 1 .. Len(produced) : produced[i].key[1] = s
  BY <1>4, KeysInOrder
<1>8. \A t : t # s => /\ Of(findings', t) = Of(findings, t)
                      /\ Alone(findings, t) => Alone(findings', t)
                      /\ Whole(findings, t) => Whole(findings', t)
  <2> SUFFICES ASSUME NEW t, t # s
               PROVE  /\ Of(findings', t) = Of(findings, t)
                      /\ Alone(findings, t) => Alone(findings', t)
                      /\ Whole(findings, t) => Whole(findings', t)
    OBVIOUS
  <2>1. /\ Of(findings \o produced, t) = Of(findings, t)
        /\ Alone(findings, t) => Alone(findings \o produced, t)
        /\ Whole(findings, t) => Whole(findings \o produced, t)
    BY <1>2, <1>5, <1>7, OthersStay
  <2> QED BY <1>2, <2>1
<1>9. /\ \A t : t # s /\ Accounted(t) => Accounted(t)'
      /\ Accounted(s)'
  BY <1>2, <1>6, <1>8 DEF Accounted
<1>10. Queued'
  <2>1. Queued
    BY DEF Reporting
  <2>2. \A t \in Elements(todo') : Of(findings', t) = {}
    BY <1>2, <1>3, <1>8, <2>1 DEF Queued
  <2>3. \A t \in Suite : Of(findings', t) # {} => Accounted(t)'
    BY <1>8, <1>9, <2>1 DEF Queued
  <2>4. mode' = "cli" => \A t \in Suite \ Elements(todo') : Of(findings', t) # {}
    BY <1>2, <1>3, <1>6, <1>8, <2>1 DEF Queued
  <2> QED BY <1>2, <1>3, <2>2, <2>3, <2>4 DEF Queued
<1>11. Sent'
  <2> SUFFICES ASSUME mode = "socket"
               PROVE  streamed' = findings' \o produced' /\ findings' # <<>>
    BY <1>2 DEF Sent
  <2>1. streamed' = findings'
    BY <1>2 DEF Reporting, Sent
  <2>2. findings' \in Seq(Found)
    BY <1>2, ConcatProperties
  <2>3. findings' \o <<>> = findings'
    BY <2>2, ConcatEmptySeq
  <2>4. findings' # <<>>
    BY <1>6, EmptySeq DEF Of
  <2> QED BY <1>2, <2>1, <2>3, <2>4
<1>12. InStep' /\ Shown'
  BY <1>2 DEF InStep, Shown
<1> QED BY <1>10, <1>11, <1>12 DEF Reporting

LEMMA ReportingStep ==
  ASSUME Typed, Reporting, [Next]_vars
  PROVE  Reporting'
<1>1. CASE UNCHANGED vars \/ Derive \/ CalibrateJudge
  <2>1. UNCHANGED <<mode, exit, todo, at, produced, findings, streamed, crashed, written>>
    BY <1>1 DEF vars, suite, disk, Derive, CalibrateJudge
  <2> QED BY <2>1 DEF Reporting, Queued, Accounted, InStep, Sent, Shown
<1>2. CASE Probe \/ Spring \/ CaseCrashes \/ Summarise
  BY <1>2, CaseReports
<1>3. CASE Open
  <2>1. /\ mode # "idle" /\ UNCHANGED <<mode, todo, findings, streamed, crashed>>
        /\ at' = 0 /\ produced = <<>> /\ produced' = <<>>
    BY <1>3, UnderWay DEF Open, Typed
  <2>2. InStep'
    BY <2>1 DEF InStep
  <2> QED BY <2>1, <2>2 DEF Reporting, Queued, Accounted, Sent, Shown
<1>4. CASE OpenFails
  BY <1>4, FailureReports
<1>5. CASE EndSuite
  BY <1>5, SuiteReports
<1>6. CASE Begin
  <2>1. /\ mode' # "idle" /\ at' = Closed /\ produced' = <<>>
        /\ findings' = <<>> /\ streamed' = <<>>
    BY <1>6 DEF Begin, suite, Typed
  <2>2. \/ mode' = "cli" /\ todo' = <<"isolation", "silent_failure">>
        \/ mode' = "socket" /\ \E s \in Suite : todo' = <<s>>
    BY <1>6 DEF Begin
  <2>3. todo' \in Queues /\ todo' # <<>>
    BY <2>2 DEF Queues, Suite
  <2>4. mode' = "cli" => Suite \subseteq Elements(todo')
    <3>1. Elements(<<"isolation", "silent_failure">>) = {"isolation", "silent_failure"}
      BY DEF Elements
    <3> QED BY <2>2, <3>1 DEF Suite
  <2>5. \A s : Of(findings', s) = {}
    BY <2>1, EmptySeq DEF Of
  <2>6. Queued'
    BY <2>3, <2>4, <2>5 DEF Queued
  <2>7. <<>> \o <<>> = <<>>
    OBVIOUS
  <2>8. Sent'
    BY <2>1, <2>3, <2>7 DEF Sent
  <2> QED BY <2>1, <2>6, <2>8 DEF Reporting, InStep, Shown
<1>7. CASE SendSummary
  <2>1. /\ mode' = "idle" /\ exit' = "summary" /\ at = Closed /\ produced = <<>>
        /\ UNCHANGED <<todo, at, produced, findings, streamed, crashed>>
        /\ findings \in Seq(Found)
    BY <1>7 DEF SendSummary, Typed, suite
  <2>2. streamed = findings \o <<>> /\ findings # <<>>
    BY <1>7, <2>1 DEF SendSummary, Reporting, Sent
  <2>3. streamed = findings
    BY <2>1, <2>2, ConcatEmptySeq
  <2>4. Queued' /\ Sent' /\ InStep'
    BY <2>1 DEF Reporting, Queued, Accounted, InStep, Sent
  <2> QED BY <2>1, <2>2, <2>3, <2>4 DEF Reporting, Shown
<1>8. CASE CalibrationFails \/ UpdateBaseline \/ Exit
  <2>1. /\ mode = "cli" /\ mode' = "idle" /\ todo = <<>>
        /\ UNCHANGED <<todo, at, produced, findings, streamed, crashed>>
    BY <1>8 DEF CalibrationFails, UpdateBaseline, Exit, Ready, suite
  <2>2. \A s \in Suite : Of(findings, s) # {}
    BY <2>1, EmptySeq DEF Reporting, Queued, Elements
  <2>3. Queued' /\ Sent' /\ InStep'
    BY <2>1 DEF Reporting, Queued, Accounted, InStep, Sent
  <2>4. CASE CalibrationFails
    <3>1. exit' = "raised"
      BY <2>4 DEF CalibrationFails
    <3> QED BY <2>3, <3>1 DEF Reporting, Shown
  <2>5. CASE UpdateBaseline \/ Exit
    <3>1. /\ exit' # "summary"
          /\ written'[1].headline = {f \in Elements(findings) : f.key[2] \in Aggregate}
      BY <2>5 DEF UpdateBaseline, Exit, Report, Render
    <3> QED BY <2>1, <2>2, <2>3, <3>1 DEF Reporting, Shown
  <2> QED BY <1>8, <2>4, <2>5
<1> QED BY <1>1, <1>2, <1>3, <1>4, <1>5, <1>6, <1>7, <1>8 DEF Next

\* A suite that ran case by case has a rate, and its rate is a headline.
LEMMA RateIsShown ==
  ASSUME NEW s \in Suite, Whole(findings, s), s = "silent_failure",
         written[1].headline = {f \in Elements(findings) : f.key[2] \in Aggregate}
  PROVE  <<s, "__rate__">> \in Keys(written[1].headline)
<1>1. <<s, "__rate__">> \in KeysOf(s)
  BY DEF KeysOf
<1>2. PICK i \in Of(findings, s) : findings[i].key = <<s, "__rate__">>
  BY <1>1 DEF Whole
<1>3. findings[i] \in Elements(findings) /\ findings[i].key[2] = "__rate__"
  BY <1>2 DEF Of, Elements
<1>4. findings[i] \in written[1].headline
  BY <1>3 DEF Aggregate
<1> QED BY <1>2, <1>4 DEF Keys

\* A case that crashes hides no other: each suite that was to run is reported as broken
\* or with one finding for every case of it, the client has been sent what the summary
\* counts, and the report shows the rate of a suite that ran.
THEOREM NothingStaysHidden == Spec => []NothingIsHidden
<1>1. Typed /\ Reporting => NothingIsHidden
  <2> SUFFICES ASSUME Typed, Reporting, Reported
               PROVE  NothingIsHidden
    BY DEF NothingIsHidden
  <2>1. ASSUME NEW s \in Suite, Of(findings, s) # {}
        PROVE  Whole(findings, s) \/ (Alone(findings, s) /\ <<s, "__suite__">> \in crashed)
    BY <2>1 DEF Reporting, Queued, Accounted
  <2>2. ASSUME NEW s \in Suite, Of(findings, s) # {}
        PROVE  LET of == {i \in DOMAIN findings : findings[i].key[1] = s}
               IN  \/ \E i \in of : of = {i} /\ findings[i] = Broken(s)
                   \/ /\ {findings[i].key : i \in of} = KeysOf(s)
                      /\ \A i, j \in of : findings[i].key = findings[j].key => i = j
    BY <2>1, <2>2 DEF Whole, Alone, Of
  <2>3. CASE exit = "summary"
    <3>1. streamed = findings /\ findings # <<>> /\ findings \in Seq(Found)
      BY <2>3 DEF Reporting, Shown, Reported, Typed
    <3>2. findings[1] \in Found /\ 1 \in DOMAIN findings
      BY <3>1, EmptySeq, LenProperties, ElementOfSeq
    <3>3. PICK s \in Suite : s = findings[1].key[1]
      BY <3>2 DEF Found, EveryKey, KeysOf
    <3>4. Of(findings, s) # {}
      BY <3>2, <3>3 DEF Of
    <3> QED BY <2>2, <2>3, <3>1, <3>3, <3>4 DEF NothingIsHidden
  <2>4. CASE exit # "summary"
    <3>1. /\ \A s \in Suite : Of(findings, s) # {}
          /\ written[1].headline = {f \in Elements(findings) : f.key[2] \in Aggregate}
      BY <2>4 DEF Reporting, Shown, Reported
    <3>2. ASSUME NEW s \in Suite, <<s, "__suite__">> \notin crashed, s = "silent_failure"
          PROVE  <<s, "__rate__">> \in Keys(written[1].headline)
      BY <2>1, <3>1, <3>2, RateIsShown
    <3> QED BY <2>2, <2>4, <3>1, <3>2 DEF NothingIsHidden
  <2> QED BY <2>3, <2>4
<1>2. Typed /\ Reporting /\ [Next]_vars => Reporting'
  BY ReportingStep
<1> QED BY InitTyped, NextTyped, ReportingInit, <1>1, <1>2, PTL DEF Spec
=============================================================================
