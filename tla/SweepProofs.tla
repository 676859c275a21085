----------------------------- MODULE SweepProofs -----------------------------
(***************************************************************************)
(* Proofs about the sweep, for any number of cases, ablations and workers, *)
(* any plan of calls and any service that answers them.                    *)
(***************************************************************************)
EXTENDS Sweep, SequenceTheorems, FiniteSetTheorems, TLAPS

-----------------------------------------------------------------------------
(* Types.                                                                  *)

\* A value of a cache, by the run that computed it.
Value == [by : Run, usage : {1}]

Filled(cache) == \A k \in DOMAIN cache : cache[k] \in Value

Typed ==
  /\ future \in [Case -> {"pending", "running", "done", "raised", "cancelled"}]
  /\ turn \in [Case -> Turn] /\ step \in [Case -> Step]
  /\ got \in [Case -> Seq(Value)]
  /\ tokens \in [Case -> Nat] /\ failed \in [Case -> BOOLEAN]
  /\ attempt \in [Case -> 0 .. MaxRetries] /\ faults \in 0 .. MaxFaults
  /\ main \in {"collecting", "draining", "published", "aborted"}
  /\ collected \in 0 .. Cases /\ closed \in BOOLEAN
  /\ Filled(stage_cache) /\ Filled(embed_cache)

\* What a case is in the middle of.
Busy ==
  \A c \in Case :
    /\ step[c] # "next" => future[c] = "running"
    /\ step[c] = "call" => ~Ended(c)
    /\ step[c] = "judge" => Ended(c) /\ turn[c] # 0
    /\ Len(got[c]) <= Len(Calls(c))
    /\ future[c] # "running" => turn[c] = 0

LEMMA Constants ==
  /\ Caller = Case /\ Cases \in Nat /\ MaxWorkers \in Nat \ {0}
  /\ MaxRetries \in Nat \ {0} /\ MaxFaults \in Nat
  /\ Len(Ablations) \in Nat /\ 0 \in Turn
  /\ CacheEnabled \in BOOLEAN
BY SweepAssumption, ChatCallAssumption, CacheAssumption DEF Turn

LEMMA PlanType ==
  ASSUME NEW r \in Run
  PROVE  /\ Plan[r] \in Seq([stage : Stage, payload : Payload])
         /\ Len(Plan[r]) \in Nat
<1>1. Plan \in [Run -> Seq([stage : Stage, payload : Payload])]
  BY SweepAssumption
<1>2. Plan[r] \in Seq([stage : Stage, payload : Payload])
  BY <1>1
<1> QED BY <1>2

LEMMA EmptyType == <<>> \in Seq(Value) /\ Len(<<>>) = 0 /\ DOMAIN <<>> = {}
<1>1. <<>> \in Seq(Value) /\ Len(<<>>) = 0
  OBVIOUS
<1>2. DOMAIN <<>> = {}
  BY EmptySeq
<1> QED BY <1>1, <1>2

LEMMA PlanLength == ASSUME NEW c \in Case, NEW n \in Turn PROVE Len(Plan[<<c, n>>]) \in Nat
<1>1. <<c, n>> \in Run
  BY DEF Run
<1> QED BY <1>1, PlanType

LEMMA CallsType ==
  ASSUME Typed, NEW c \in Case
  PROVE  /\ Calls(c) = Plan[<<c, turn[c]>>] /\ <<c, turn[c]>> \in Run
         /\ Calls(c) \in Seq([stage : Stage, payload : Payload])
         /\ Len(Calls(c)) \in Nat /\ Len(got[c]) \in Nat
<1>1. <<c, turn[c]>> \in Run
  BY DEF Typed, Run
<1>2. got[c] \in Seq(Value) /\ Len(got[c]) \in Nat
  BY DEF Typed
<1>3. Calls(c) = Plan[<<c, turn[c]>>]
  BY DEF Calls
<1> QED BY <1>1, <1>2, <1>3, PlanType

\* The service's share of a step.
LEMMA AskingTyped ==
  ASSUME Typed, NEW c \in Case,
         Retry(c) \/ (\E unusable \in BOOLEAN : GiveUp(c, unusable)) \/ Answered(c)
           \/ UNCHANGED callVars
  PROVE  attempt' \in [Case -> 0 .. MaxRetries] /\ faults' \in 0 .. MaxFaults
<1> USE Constants
<1>1. attempt[c] \in 0 .. MaxRetries /\ faults \in 0 .. MaxFaults
  BY DEF Typed
<1>2. CASE Retry(c)
  <2>1. attempt[c] + 1 \in 0 .. MaxRetries
    BY <1>1, <1>2 DEF Retry, Retried
  <2> QED BY <2>1, <1>2 DEF Retry, Typed
<1>3. CASE \E unusable \in BOOLEAN : GiveUp(c, unusable)
  <2>1. faults + 1 \in 0 .. MaxFaults /\ 0 \in 0 .. MaxRetries
    BY <1>1, <1>3 DEF GiveUp
  <2> QED BY <2>1, <1>3 DEF GiveUp, Typed
<1>4. CASE Answered(c) \/ UNCHANGED callVars
  <2>1. 0 \in 0 .. MaxRetries
    OBVIOUS
  <2> QED BY <2>1, <1>4 DEF Answered, callVars, Typed
<1> QED BY <1>2, <1>3, <1>4

LEMMA InitTyped == Init => Typed /\ Busy
<1> SUFFICES ASSUME Init PROVE Typed /\ Busy
  OBVIOUS
<1>1. Typed
  <2>1. got \in [Case -> Seq(Value)]
    BY EmptyType DEF Init
  <2>2. Filled(stage_cache) /\ Filled(embed_cache)
    BY EmptyType DEF Init, CacheInit, Filled
  <2>3. attempt \in [Case -> 0 .. MaxRetries] /\ faults \in 0 .. MaxFaults
    BY Constants DEF Init, CallInit
  <2>4. /\ future \in [Case -> {"pending", "running", "done", "raised", "cancelled"}]
        /\ step \in [Case -> Step] /\ failed \in [Case -> BOOLEAN]
    BY DEF Init, Step
  <2>5. turn \in [Case -> Turn] /\ tokens \in [Case -> Nat]
    BY Constants DEF Init
  <2>6. collected \in 0 .. Cases
    BY Constants DEF Init
  <2>7. main = "collecting" /\ closed \in BOOLEAN
    BY Zenon DEF Init
  <2> QED BY <2>1, <2>2, <2>3, <2>4, <2>5, <2>6, <2>7 DEF Typed
<1>2. ASSUME NEW c \in Case PROVE Len(got[c]) = 0 /\ Len(Calls(c)) >= 0
  BY <1>1, CallsType, EmptyType DEF Init
<1>3. Busy
  BY <1>1, <1>2, CallsType DEF Init, Busy
<1> QED BY <1>1, <1>3

\* The run that follows another has nothing done yet.
LEMMA GoOnTyped ==
  ASSUME Typed, Busy, NEW c \in Case, future[c] = "running", GoOn(c) \/ Raise(c),
         UNCHANGED <<main, collected, closed, cacheVars>>,
         attempt' \in [Case -> 0 .. MaxRetries], faults' \in 0 .. MaxFaults
  PROVE  Typed' /\ Busy'
<1> USE Constants, EmptyType
<1>1. \E n \in Turn :
        /\ NextRun(c, n)
        /\ \/ future' = future
           \/ /\ n = 0
              /\ \E f \in {"done", "raised"} : future' = [future EXCEPT ![c] = f]
  <2>1. turn[c] # Len(Ablations) => turn[c] + 1 \in Turn
    BY DEF Typed, Turn
  <2> QED BY <2>1 DEF GoOn, Raise
<1>2. Typed'
  BY <1>1 DEF Typed, NextRun, Step, cacheVars, Filled
<1>3. ASSUME NEW d \in Case, d # c
      PROVE  /\ step'[d] = step[d] /\ future'[d] = future[d] /\ turn'[d] = turn[d]
             /\ got'[d] = got[d] /\ failed'[d] = failed[d]
             /\ Calls(d)' = Calls(d)
  BY <1>1, <1>3 DEF NextRun, Typed, Calls
<1>4. step'[c] = "next" /\ got'[c] = <<>>
  BY <1>1 DEF NextRun, Typed
<1>5. future'[c] # "running" => turn'[c] = 0
  BY <1>1 DEF NextRun, Typed, Busy
<1>6. Len(got'[c]) <= Len(Calls(c)')
  <2>1. Len(Calls(c)') \in Nat
    BY <1>2, PlanLength DEF Typed, Calls
  <2> QED BY <2>1, <1>4
<1>7. Busy'
  BY <1>3, <1>4, <1>5, <1>6 DEF Busy, Ended
<1> QED BY <1>2, <1>7

\* A call that returned.
LEMMA TakenTyped ==
  ASSUME Typed, Busy, NEW c \in Case, NEW v \in Value, ~Ended(c), future[c] = "running",
         step[c] \in {"next", "call"}, got' = [got EXCEPT ![c] = Append(@, v)],
         tokens' \in [Case -> Nat], step' = [step EXCEPT ![c] = "next"],
         attempt' \in [Case -> 0 .. MaxRetries], UNCHANGED faults,
         Filled(stage_cache'), Filled(embed_cache'),
         UNCHANGED <<future, turn, failed, baseline, out, thread>>
  PROVE  Typed' /\ Busy'
<1>1. got[c] \in Seq(Value) /\ Len(got[c]) \in Nat /\ Len(Calls(c)) \in Nat
  BY CallsType DEF Typed
<1>2. /\ Append(got[c], v) \in Seq(Value)
      /\ Len(Append(got[c], v)) = Len(got[c]) + 1
  BY <1>1, AppendProperties
<1>3. Typed'
  BY <1>2 DEF Typed, thread, Step
<1>4. \A d \in Case : Calls(d)' = Calls(d)
  BY DEF Calls
<1>5. Len(got'[c]) <= Len(Calls(c)')
  BY <1>1, <1>2, <1>4 DEF Busy, Ended, Typed
<1>6. ASSUME NEW d \in Case, d # c
      PROVE  got'[d] = got[d] /\ step'[d] = step[d]
  BY <1>6 DEF Typed
<1>7. step'[c] = "next"
  BY DEF Typed
<1>8. Busy'
  BY <1>4, <1>5, <1>6, <1>7 DEF Busy, Ended
<1> QED BY <1>3, <1>8

LEMMA UseCachedTyped == ASSUME Typed, Busy, NEW c \in Case, UseCached(c) PROVE Typed' /\ Busy'
<1> DEFINE v == Cache(Next1(c).stage)[KeyOf(c)]
<1>1. v \in Value
  BY DEF UseCached, Hit, Typed, Filled, Cache
<1>2. v.usage = 1
  BY <1>1 DEF Value
<1>3. tokens' \in [Case -> Nat]
  BY <1>2 DEF UseCached, Typed
<1>4. step' = [step EXCEPT ![c] = "next"]
  BY DEF UseCached, Typed
<1>5. /\ ~Ended(c) /\ future[c] = "running" /\ step[c] = "next"
      /\ got' = [got EXCEPT ![c] = Append(@, v)]
      /\ UNCHANGED <<future, turn, failed, baseline, out, thread, callVars, cacheVars>>
  BY DEF UseCached
<1>6. /\ UNCHANGED <<future, turn, failed, baseline, out, thread>> /\ UNCHANGED faults
      /\ attempt' \in [Case -> 0 .. MaxRetries]
      /\ Filled(stage_cache') /\ Filled(embed_cache')
  BY <1>5 DEF callVars, cacheVars, Typed
<1> HIDE DEF v
<1> QED BY <1>1, <1>3, <1>4, <1>5, <1>6, TakenTyped

LEMMA StoredType ==
  ASSUME NEW cache, NEW key, NEW v \in Value, Filled(cache)
  PROVE  Filled(Stored(cache, key, v))
BY DEF Stored, Filled

LEMMA ComputeTyped == ASSUME Typed, Busy, NEW c \in Case, Compute(c) PROVE Typed' /\ Busy'
<1> DEFINE v == [by |-> <<c, turn[c]>>, usage |-> Usage(c)]
<1>1. v \in Value /\ v.usage = 1
  BY CallsType DEF Value, Usage
<1>2. tokens' \in [Case -> Nat]
  BY <1>1 DEF Compute, Typed
<1>3. step[c] = "call" /\ ~Ended(c) /\ future[c] = "running"
  BY DEF Compute, Busy
<1>4. attempt' \in [Case -> 0 .. MaxRetries] /\ UNCHANGED faults
  BY Constants DEF Compute, Answered, Typed
<1>5. /\ Store(Next1(c).stage, KeyOf(c), v)
      /\ got' = [got EXCEPT ![c] = Append(@, v)]
      /\ step' = [step EXCEPT ![c] = "next"]
      /\ UNCHANGED <<future, turn, failed, baseline, out, thread>>
  BY DEF Compute
<1> HIDE DEF v
<1>6. Filled(stage_cache') /\ Filled(embed_cache')
  BY <1>1, <1>5, StoredType DEF Store, Typed
<1> QED BY <1>1, <1>2, <1>3, <1>4, <1>5, <1>6, TakenTyped

\* The rest of what a run does with its calls.
LEMMA CallTyped ==
  ASSUME Typed, Busy, NEW c \in Case,
         Start(c) \/ Miss(c) \/ CallAgain(c) \/ CallFails(c) \/ AskJudge(c)
  PROVE  Typed' /\ Busy'
<1> USE Constants
<1>1. attempt' \in [Case -> 0 .. MaxRetries] /\ faults' \in 0 .. MaxFaults
  <2>1. CASE CallFails(c)
    <3>1. (Next1(c).stage \in {"embed", "rerank"}) \in BOOLEAN
      OBVIOUS
    <3>2. \E unusable \in BOOLEAN : GiveUp(c, unusable)
      BY <2>1, <3>1 DEF CallFails
    <3> QED BY <3>2, AskingTyped
  <2>2. CASE CallAgain(c)
    BY <2>2, AskingTyped DEF CallAgain
  <2>3. CASE Start(c) \/ Miss(c) \/ AskJudge(c)
    BY <2>3, AskingTyped DEF Start, Miss, AskJudge
  <2> QED BY <2>1, <2>2, <2>3
<1>2. Filled(stage_cache') /\ Filled(embed_cache')
  BY DEF Start, Miss, CallAgain, CallFails, AskJudge, cacheVars, Typed
<1>3. Typed'
  BY <1>1, <1>2 DEF Start, Miss, CallAgain, CallFails, AskJudge, Typed, thread, worker, Step
<1>4. UNCHANGED <<turn, got>> /\ \A d \in Case : Calls(d)' = Calls(d)
  BY DEF Start, Miss, CallAgain, CallFails, AskJudge, worker, Calls
<1>5. ASSUME NEW d \in Case, d # c
      PROVE  step'[d] = step[d] /\ failed'[d] = failed[d] /\ future'[d] = future[d]
  BY <1>5 DEF Start, Miss, CallAgain, CallFails, AskJudge, worker, Typed
<1>6. /\ step'[c] # "next" => future'[c] = "running"
      /\ step'[c] = "call" => ~Ended(c)'
      /\ step'[c] = "judge" => Ended(c)' /\ turn'[c] # 0
      /\ future'[c] # "running" => turn'[c] = 0
  BY <1>4 DEF Start, Miss, CallAgain, CallFails, AskJudge, worker, Typed, Busy, Ended, AtEnd
<1>7. Busy'
  BY <1>4, <1>5, <1>6 DEF Busy, Ended
<1> QED BY <1>3, <1>7

LEMMA RunTyped ==
  ASSUME Typed, Busy, NEW c \in Case,
         Refuse(c) \/ KeepBaseline(c) \/ Compare(c) \/ HearJudge(c) \/ JudgeFails(c) \/ SinkFails(c)
  PROVE  Typed' /\ Busy'
<1> USE Constants
<1>1. attempt' \in [Case -> 0 .. MaxRetries] /\ faults' \in 0 .. MaxFaults
  <2>1. CASE SinkFails(c)
    BY <2>1 DEF SinkFails, Typed
  <2>2. CASE JudgeFails(c)
    BY <2>2, AskingTyped DEF JudgeFails
  <2>3. CASE Refuse(c) \/ KeepBaseline(c) \/ Compare(c) \/ HearJudge(c)
    BY <2>3, AskingTyped DEF Refuse, KeepBaseline, Compare, HearJudge
  <2> QED BY <2>1, <2>2, <2>3
<1>2. UNCHANGED <<main, collected, closed, cacheVars>>
  BY DEF Refuse, KeepBaseline, Compare, HearJudge, JudgeFails, SinkFails, thread
<1>3. future[c] = "running"
  BY DEF Refuse, KeepBaseline, Compare, HearJudge, JudgeFails, SinkFails, AtEnd, Busy
<1>4. GoOn(c) \/ Raise(c)
  BY DEF Refuse, KeepBaseline, Compare, HearJudge, JudgeFails, SinkFails
<1> QED BY <1>1, <1>2, <1>3, <1>4, GoOnTyped

LEMMA ThreadTyped ==
  ASSUME Typed, Busy, Collect \/ Abort \/ Leave \/ Publish \/ Close
  PROVE  Typed' /\ Busy'
<1> USE Constants
<1>1. UNCHANGED <<turn, step, got, tokens, failed, callVars, cacheVars>>
  BY DEF Collect, Abort, Leave, Publish, Close, worker
<1>2. \A c \in Case : future'[c] = future[c] \/ (future[c] = "pending" /\ future'[c] = "cancelled")
  BY DEF Collect, Abort, Leave, Publish, Close, worker
<1>3. future' \in [Case -> {"pending", "running", "done", "raised", "cancelled"}]
  BY DEF Collect, Abort, Leave, Publish, Close, worker, Typed
<1>4. collected' \in 0 .. Cases
  BY DEF Collect, Abort, Leave, Publish, Close, Typed
<1>5. main' \in {"collecting", "draining", "published", "aborted"} /\ closed' \in BOOLEAN
  BY DEF Collect, Abort, Leave, Publish, Close, Typed
<1>6. Typed'
  BY <1>1, <1>3, <1>4, <1>5 DEF Typed, callVars, cacheVars
<1>7. Busy'
  BY <1>1, <1>2 DEF Busy, Ended, Calls
<1> QED BY <1>6, <1>7

LEMMA NextTyped == ASSUME Typed, Busy, [Next]_vars PROVE Typed' /\ Busy'
<1>1. CASE UNCHANGED vars
  <2>1. UNCHANGED <<worker, thread, callVars, cacheVars>>
    BY <1>1 DEF vars
  <2> QED BY <2>1 DEF worker, thread, callVars, cacheVars, Typed, Busy, Ended, Calls
<1>2. ASSUME NEW c \in Case, Start(c) \/ Work(c) PROVE Typed' /\ Busy'
  BY <1>2, UseCachedTyped, ComputeTyped, CallTyped, RunTyped DEF Work
<1>3. CASE Collect \/ Abort \/ Leave \/ Publish \/ Close
  BY <1>3, ThreadTyped
<1> QED BY <1>1, <1>2, <1>3 DEF Next


LEMMA TypedInvariant == Spec => [](Typed /\ Busy)
<1>1. Typed /\ Busy /\ [Next]_vars => (Typed /\ Busy)'
  BY NextTyped
<1> QED BY InitTyped, <1>1, PTL DEF Spec

\* A case at work is running.
LEMMA Working ==
  ASSUME Typed, Busy, NEW c \in Case, Work(c)
  PROVE  /\ future[c] = "running"
         /\ UNCHANGED thread
         /\ \/ future' = future
            \/ future' = [future EXCEPT ![c] = "done"]
            \/ future' = [future EXCEPT ![c] = "raised"]
<1>1. CASE Refuse(c) \/ KeepBaseline(c) \/ Compare(c) \/ HearJudge(c) \/ JudgeFails(c)
             \/ SinkFails(c)
  <2>1. UNCHANGED thread
    BY <1>1 DEF Refuse, KeepBaseline, Compare, HearJudge, JudgeFails, SinkFails
  <2>2. GoOn(c) \/ Raise(c)
    BY <1>1 DEF Refuse, KeepBaseline, Compare, HearJudge, JudgeFails, SinkFails
  <2>3. future[c] = "running"
    BY <1>1 DEF Refuse, KeepBaseline, Compare, HearJudge, JudgeFails, SinkFails, AtEnd, Busy
  <2> QED BY <2>1, <2>2, <2>3 DEF GoOn, Raise
<1>2. CASE UseCached(c) \/ Miss(c) \/ CallAgain(c) \/ Compute(c) \/ CallFails(c) \/ AskJudge(c)
  <2>1. UNCHANGED <<thread, future>>
    BY <1>2 DEF UseCached, Miss, CallAgain, Compute, CallFails, AskJudge, worker
  <2>2. future[c] = "running"
    BY <1>2 DEF UseCached, Miss, CallAgain, Compute, CallFails, AskJudge, AtEnd, Busy
  <2> QED BY <2>1, <2>2
<1> QED BY <1>1, <1>2 DEF Work

-----------------------------------------------------------------------------
(* The pool and the main thread.                                           *)

Lifecycle ==
  /\ \A c \in 1 .. collected : future[c] = "done"
  /\ main = "published" => collected = Cases
  /\ main \in {"draining", "aborted"} => \A c \in Case : future[c] # "pending"
  /\ main = "aborted" => \A c \in Case : future[c] # "running"
  /\ closed => main \in {"published", "aborted"}

LEMMA LifecycleStep ==
  ASSUME Typed, Busy, Lifecycle, [Next]_vars
  PROVE  Lifecycle'
<1> USE Constants
<1>0. 1 .. collected \subseteq Case
  BY DEF Typed, Case
<1>1. CASE UNCHANGED vars
  BY <1>1 DEF vars, worker, thread, Lifecycle
<1>2. ASSUME NEW c \in Case, Start(c) PROVE Lifecycle'
  <2>1. future[c] = "pending" /\ future' = [future EXCEPT ![c] = "running"] /\ UNCHANGED thread
    BY <1>2 DEF Start
  <2>2. main # "published"
    BY <2>1 DEF Lifecycle, Case
  <2> QED BY <1>0, <2>1, <2>2 DEF Lifecycle, thread, Typed
<1>3. ASSUME NEW c \in Case, Work(c) PROVE Lifecycle'
  <2>1. /\ future[c] = "running" /\ UNCHANGED thread
        /\ \A d \in Case : future'[d] = future[d] \/ (d = c /\ future'[d] \in {"done", "raised"})
    BY <1>3, Working DEF Typed
  <2> QED BY <1>0, <2>1 DEF Lifecycle, thread
<1>4. CASE Collect
  <2>1. /\ main = "collecting" /\ future[collected + 1] = "done" /\ collected' = collected + 1
        /\ UNCHANGED <<future, main, closed>>
    BY <1>4 DEF Collect, worker
  <2>2. \A c \in 1 .. collected' : c \in 1 .. collected \/ c = collected + 1
    BY <2>1 DEF Typed
  <2> QED BY <2>1, <2>2 DEF Lifecycle
<1>5. CASE Abort
  BY <1>0, <1>5 DEF Abort, Lifecycle
<1>6. CASE Leave \/ Publish \/ Close
  BY <1>6 DEF Leave, Publish, Close, worker, Running, Lifecycle
<1> QED BY <1>1, <1>2, <1>3, <1>4, <1>5, <1>6 DEF Next

\* The pipeline is closed only when no worker runs on it any more: the pool waits
\* for its threads, and a report waits for every case.
THEOREM PipelineOutlivesItsWorkers == Spec => []PipelineOutlivesWorkers
<1>1. Init => Lifecycle
  BY Constants DEF Init, Lifecycle
<1>2. Typed /\ Busy /\ Lifecycle /\ [Next]_vars => Lifecycle'
  BY LifecycleStep
<1>3. Typed /\ Lifecycle => PipelineOutlivesWorkers
  <2> SUFFICES ASSUME Typed, Lifecycle, closed, NEW c \in Case PROVE future[c] # "running"
    BY DEF PipelineOutlivesWorkers, Running
  <2>1. CASE main = "published"
    BY <2>1 DEF Lifecycle, Case
  <2>2. CASE main = "aborted"
    BY <2>2 DEF Lifecycle
  <2> QED BY <2>1, <2>2 DEF Lifecycle
<1> QED BY <1>1, <1>2, <1>3, TypedInvariant, PTL DEF Spec

-----------------------------------------------------------------------------
(* Why a sweep is abandoned.                                               *)

\* Leaving out the embedder or the reranker never makes a trace incomparable.
LEMMA AlwaysComparable == ASSUME NEW n \in Turn PROVE Comparable(Versions(0), Versions(n))
<1>1. Stamp \in [COMPARABLE_KEYS -> STRING]
  BY SweepAssumption
<1>2. /\ Semantic[0] \in BOOLEAN /\ Semantic[n] \in BOOLEAN
      /\ Rerank[0] \in BOOLEAN /\ Rerank[n] \in BOOLEAN
  BY SweepAssumption, Constants
<1> QED BY <1>1, <1>2 DEF Comparable, Versions, VersionsOf, COMPARABLE_KEYS

Blamed ==
  /\ (\E c \in Case : future[c] = "raised") => faults > 0
  /\ main \in {"draining", "aborted"} => faults > 0

LEMMA BlamedStep ==
  ASSUME Typed, Busy, Blamed, [Next]_vars
  PROVE  Blamed'
<1> USE Constants
<1>0. faults \in Nat
  BY DEF Typed
<1>1. CASE UNCHANGED vars
  BY <1>1 DEF vars, worker, thread, callVars, Blamed
<1>2. ASSUME NEW c \in Case, Start(c) PROVE Blamed'
  BY <1>2 DEF Start, thread, callVars, Blamed, Typed
<1>3. ASSUME NEW c \in Case, JudgeFails(c) \/ SinkFails(c) PROVE Blamed'
  <2>1. faults' = faults + 1
    BY <1>3 DEF JudgeFails, SinkFails, GiveUp
  <2> QED BY <1>0, <2>1 DEF Blamed
<1>4. ASSUME NEW c \in Case,
             \/ Refuse(c) \/ UseCached(c) \/ Miss(c) \/ CallAgain(c) \/ Compute(c)
             \/ CallFails(c) \/ KeepBaseline(c) \/ Compare(c) \/ AskJudge(c) \/ HearJudge(c)
      PROVE  Blamed'
  <2>1. turn[c] \in Turn
    BY DEF Typed
  <2>2. \/ UNCHANGED future
        \/ future' = [future EXCEPT ![c] = "done"]
    BY <1>4, <2>1, AlwaysComparable DEF Refuse, UseCached, Miss, CallAgain, Compute, CallFails,
       KeepBaseline, Compare, AskJudge, HearJudge, GoOn, worker
  <2>3. UNCHANGED thread
    BY <1>4, Working DEF Work
  <2>4. faults' \in {faults, faults + 1}
    BY <1>4 DEF Refuse, UseCached, Miss, CallAgain, Compute, CallFails,
       KeepBaseline, Compare, AskJudge, HearJudge, callVars, Retry, GiveUp, Answered
  <2>5. \A d \in Case : future'[d] = "raised" => future[d] = "raised"
    BY <2>2 DEF Typed
  <2> QED BY <1>0, <2>3, <2>4, <2>5 DEF Blamed, thread
<1>5. CASE Abort
  <2>1. future[collected + 1] = "raised" /\ collected + 1 \in Case
    BY <1>5 DEF Abort, Typed, Case
  <2>2. \A d \in Case : future'[d] = "raised" => future[d] = "raised"
    BY <1>5 DEF Abort
  <2> QED BY <1>5, <2>1, <2>2 DEF Abort, Blamed, callVars
<1>6. CASE Collect \/ Leave \/ Publish \/ Close
  BY <1>6 DEF Collect, Leave, Publish, Close, worker, callVars, Blamed
<1> QED BY <1>1, <1>2, <1>3, <1>4, <1>5, <1>6 DEF Next, Work

\* No ablation can make a sweep raise by itself, whatever its stages: only a call
\* that raised, the judge or the trace sink does.
THEOREM OnlyFaultsAbort == Spec => []AbortsOnlyOnAFault
<1>1. Init => Blamed
  BY DEF Init, Blamed
<1>2. Typed /\ Busy /\ Blamed /\ [Next]_vars => Blamed'
  BY BlamedStep
<1>3. Blamed => AbortsOnlyOnAFault
  BY DEF Blamed, AbortsOnlyOnAFault
<1> QED BY <1>1, <1>2, <1>3, TypedInvariant, PTL DEF Spec

-----------------------------------------------------------------------------
(* What a run takes for its calls.                                         *)

\* What a step of one case leaves of the others, and of a run that goes on.
LEMMA OwnRunOnly ==
  ASSUME Typed, Busy, NEW c \in Case, Start(c) \/ Work(c)
  PROVE  /\ \A d \in Case : d # c => got'[d] = got[d] /\ tokens'[d] = tokens[d]
                                     /\ turn'[d] = turn[d]
         /\ \/ UNCHANGED <<got, tokens, turn>>
            \/ got'[c] = <<>> /\ tokens'[c] = 0
            \/ UseCached(c)
            \/ Compute(c)
<1>1. CASE Refuse(c) \/ KeepBaseline(c) \/ Compare(c) \/ HearJudge(c) \/ JudgeFails(c)
             \/ SinkFails(c)
  <2>1. GoOn(c) \/ Raise(c)
    BY <1>1 DEF Refuse, KeepBaseline, Compare, HearJudge, JudgeFails, SinkFails
  <2>2. \E n : NextRun(c, n)
    BY <2>1 DEF GoOn, Raise
  <2> QED BY <2>2 DEF NextRun, Typed
<1>2. CASE Start(c) \/ Miss(c) \/ CallAgain(c) \/ CallFails(c) \/ AskJudge(c)
  BY <1>2 DEF Start, Miss, CallAgain, CallFails, AskJudge, worker
<1>3. CASE UseCached(c) \/ Compute(c)
  BY <1>3 DEF UseCached, Compute, Typed
<1> QED BY <1>1, <1>2, <1>3 DEF Work

\* What the pool and the main thread leave alone.
LEMMA OthersOnly ==
  ASSUME UNCHANGED vars \/ Collect \/ Abort \/ Leave \/ Publish \/ Close
  PROVE  UNCHANGED <<turn, got, tokens, out, failed, step, baseline, stage_cache, embed_cache>>
BY DEF vars, worker, cacheVars, Collect, Abort, Leave, Publish, Close

\* A call that is used adds its value, and its usage unless it was found embedded.
LEMMA TakingStep ==
  ASSUME Typed, Busy, NEW c \in Case, UseCached(c) \/ Compute(c)
  PROVE  /\ Len(got[c]) \in Nat /\ Len(got[c]) + 1 \in DOMAIN Calls(c)
         /\ UNCHANGED turn
         /\ \E v \in Value :
              /\ got' = [got EXCEPT ![c] = Append(@, v)]
              /\ \/ /\ UseCached(c)
                    /\ Hit(Next1(c).stage, KeyOf(c))
                    /\ v = Cache(Next1(c).stage)[KeyOf(c)]
                 \/ /\ Compute(c)
                    /\ v.by = <<c, turn[c]>>
         /\ tokens'[c] \in {tokens[c], tokens[c] + 1}
<1>1. ~Ended(c)
  BY DEF UseCached, Compute, Busy
<1>2. /\ Len(got[c]) \in Nat /\ Len(Calls(c)) \in Nat /\ Len(got[c]) <= Len(Calls(c))
      /\ DOMAIN Calls(c) = 1 .. Len(Calls(c))
  BY CallsType, LenProperties DEF Busy
<1>3. Len(got[c]) + 1 \in DOMAIN Calls(c)
  BY <1>1, <1>2 DEF Ended
<1>4. CASE UseCached(c)
  <2> DEFINE v == Cache(Next1(c).stage)[KeyOf(c)]
  <2>1. v \in Value
    BY <1>4 DEF UseCached, Hit, Typed, Filled, Cache
  <2>2. v.usage = 1
    BY <2>1 DEF Value
  <2>3. tokens'[c] \in {tokens[c], tokens[c] + 1}
    BY <1>4, <2>2 DEF UseCached, Typed
  <2>4. got' = [got EXCEPT ![c] = Append(@, v)] /\ Hit(Next1(c).stage, KeyOf(c)) /\ UNCHANGED turn
    BY <1>4 DEF UseCached
  <2> HIDE DEF v
  <2> QED BY <1>2, <1>3, <1>4, <2>1, <2>3, <2>4 DEF v
<1>5. CASE Compute(c)
  <2> DEFINE v == [by |-> <<c, turn[c]>>, usage |-> Usage(c)]
  <2>1. v \in Value /\ v.usage = 1 /\ v.by = <<c, turn[c]>>
    BY CallsType DEF Value, Usage
  <2>2. tokens'[c] = tokens[c] + 1
    BY <1>5, <2>1 DEF Compute, Typed
  <2>3. got' = [got EXCEPT ![c] = Append(@, v)] /\ UNCHANGED turn
    BY <1>5 DEF Compute
  <2> HIDE DEF v
  <2> QED BY <1>2, <1>3, <1>5, <2>1, <2>2, <2>3
<1> QED BY <1>4, <1>5

\* However often its requests are sent again, a run counts one answer for each of
\* its calls at most.
THEOREM OneUsagePerCall == Spec => []RetriesAreNotCounted
<1>1. Init => RetriesAreNotCounted
  BY EmptyType DEF Init, RetriesAreNotCounted
<1>2. Typed /\ Busy /\ RetriesAreNotCounted /\ [Next]_vars => RetriesAreNotCounted'
  <2> SUFFICES ASSUME Typed, Busy, RetriesAreNotCounted, [Next]_vars
               PROVE  RetriesAreNotCounted'
    OBVIOUS
  <2>1. ASSUME NEW c \in Case, Start(c) \/ Work(c) PROVE RetriesAreNotCounted'
    <3>1. CASE UseCached(c) \/ Compute(c)
      <4>1. PICK v \in Value : got' = [got EXCEPT ![c] = Append(@, v)]
        BY <3>1, TakingStep
      <4>2. got[c] \in Seq(Value) /\ Len(got[c]) \in Nat /\ got'[c] = Append(got[c], v)
        BY <4>1 DEF Typed
      <4>3. Len(got'[c]) = Len(got[c]) + 1
        BY <4>2, AppendProperties
      <4>4. tokens[c] \in Nat /\ tokens'[c] \in {tokens[c], tokens[c] + 1}
        BY <3>1, TakingStep DEF Typed
      <4>5. tokens[c] <= Len(got[c])
        BY DEF RetriesAreNotCounted
      <4>6. tokens'[c] <= Len(got'[c])
        BY <4>2, <4>3, <4>4, <4>5
      <4> QED BY <2>1, <4>6, OwnRunOnly DEF RetriesAreNotCounted
    <3>2. CASE ~(UseCached(c) \/ Compute(c))
      BY <2>1, <3>2, OwnRunOnly, EmptyType DEF RetriesAreNotCounted
    <3> QED BY <3>1, <3>2
  <2>2. CASE UNCHANGED vars \/ Collect \/ Abort \/ Leave \/ Publish \/ Close
    BY <2>2, OthersOnly DEF RetriesAreNotCounted
  <2> QED BY <2>1, <2>2 DEF Next
<1> QED BY <1>1, <1>2, TypedInvariant, PTL DEF Spec

\* Every value of a cache is under the key of a call of the run that computed it.
StageKeys ==
  \A k \in DOMAIN stage_cache : LET by == stage_cache[k].by IN
    \E call \in Elements(Plan[by]) :
      k = <<Config[by[2]], Tenant[by[1]], call.stage, call.payload>>

EmbedKeys ==
  \A k \in DOMAIN embed_cache :
    \E call \in Elements(Plan[embed_cache[k].by]) : call.stage = "embed" /\ k = <<call.payload>>

\* What OwnAnswers says of one value.
Owned(c, call, by) ==
  /\ call \in Elements(Plan[by])
  /\ call.stage # "embed" => /\ Config[by[2]] = Config[turn[c]]
                             /\ Tenant[by[1]] = Tenant[c]

LEMMA CallType ==
  ASSUME NEW r \in Run, NEW call \in Elements(Plan[r])
  PROVE  call = [stage |-> call.stage, payload |-> call.payload]
<1>1. PICK i \in DOMAIN Plan[r] : call = Plan[r][i]
  BY DEF Elements
<1>2. call \in [stage : Stage, payload : Payload]
  BY <1>1, PlanType, ElementOfSeq, LenProperties
<1> QED BY <1>2

LEMMA NextCall ==
  ASSUME Typed, NEW c \in Case, Len(got[c]) + 1 \in DOMAIN Calls(c)
  PROVE  Next1(c) \in Elements(Plan[<<c, turn[c]>>])
BY DEF Next1, Calls, Elements

\* A value found under the key of a call is one of that call's.
LEMMA FoundIsOwned ==
  ASSUME Typed, StageKeys, EmbedKeys, NEW c \in Case, Len(got[c]) + 1 \in DOMAIN Calls(c),
         Hit(Next1(c).stage, KeyOf(c))
  PROVE  Owned(c, Next1(c), Cache(Next1(c).stage)[KeyOf(c)].by)
<1> DEFINE call == Next1(c)
<1>0. /\ <<c, turn[c]>> \in Run /\ call \in Elements(Plan[<<c, turn[c]>>])
      /\ call = [stage |-> call.stage, payload |-> call.payload]
  BY CallsType, NextCall, CallType
<1>1. CASE call.stage = "embed"
  <2>1. KeyOf(c) = <<call.payload>> /\ KeyOf(c) \in DOMAIN embed_cache
    BY <1>1 DEF KeyOf, Hit, Cache
  <2>2. embed_cache[KeyOf(c)].by \in Run
    BY <2>1 DEF Typed, Filled, Value
  <2>3. PICK other \in Elements(Plan[embed_cache[KeyOf(c)].by]) :
          other.stage = "embed" /\ KeyOf(c) = <<other.payload>>
    BY <2>1 DEF EmbedKeys
  <2>4. other = call
    BY <1>0, <1>1, <2>1, <2>2, <2>3, CallType
  <2> QED BY <1>1, <2>3, <2>4 DEF Owned, Cache
<1>2. CASE call.stage # "embed"
  <2>1. /\ KeyOf(c) = <<Config[turn[c]], Tenant[c], call.stage, call.payload>>
        /\ KeyOf(c) \in DOMAIN stage_cache
    BY <1>2 DEF KeyOf, Key, Hit, Cache
  <2> DEFINE by == stage_cache[KeyOf(c)].by
  <2>2. by \in Run
    BY <2>1 DEF Typed, Filled, Value
  <2>3. PICK other \in Elements(Plan[by]) :
          KeyOf(c) = <<Config[by[2]], Tenant[by[1]], other.stage, other.payload>>
    BY <2>1 DEF StageKeys
  <2>4. other = [stage |-> other.stage, payload |-> other.payload]
    BY <2>2, CallType
  <2>5. other = call /\ Config[by[2]] = Config[turn[c]] /\ Tenant[by[1]] = Tenant[c]
    BY <1>0, <2>1, <2>3, <2>4
  <2> QED BY <1>2, <2>3, <2>5 DEF Owned, Cache
<1> QED BY <1>1, <1>2

LEMMA StoredKeys ==
  ASSUME Typed, Busy, StageKeys, EmbedKeys, NEW c \in Case, Compute(c)
  PROVE  StageKeys' /\ EmbedKeys'
<1> DEFINE v == [by |-> <<c, turn[c]>>, usage |-> Usage(c)]
           call == Next1(c)
<1>1. call \in Elements(Plan[v.by])
  BY TakingStep, NextCall
<1>2. Store(call.stage, KeyOf(c), v)
  BY DEF Compute
<1>3. v.by = <<c, turn[c]>> /\ v.by[1] = c /\ v.by[2] = turn[c]
  OBVIOUS
<1>4. CASE call.stage = "embed"
  <2>1. /\ embed_cache' = Stored(embed_cache, KeyOf(c), v) /\ UNCHANGED stage_cache
        /\ KeyOf(c) = <<call.payload>>
    BY <1>2, <1>4 DEF Store, KeyOf
  <2> HIDE DEF v, call
  <2> QED BY <1>1, <1>4, <2>1 DEF StageKeys, EmbedKeys, Stored
<1>5. CASE call.stage # "embed"
  <2>1. /\ stage_cache' = Stored(stage_cache, KeyOf(c), v) /\ UNCHANGED embed_cache
        /\ KeyOf(c) = <<Config[v.by[2]], Tenant[v.by[1]], call.stage, call.payload>>
    BY <1>2, <1>3, <1>5 DEF Store, KeyOf, Key
  <2> HIDE DEF v, call
  <2>2. EmbedKeys'
    BY <2>1 DEF EmbedKeys
  <2>3. ASSUME NEW k \in DOMAIN stage_cache'
        PROVE  \E other \in Elements(Plan[stage_cache'[k].by]) :
                 k = <<Config[stage_cache'[k].by[2]], Tenant[stage_cache'[k].by[1]],
                       other.stage, other.payload>>
    <3>1. \/ k = KeyOf(c) /\ stage_cache'[k] = v
          \/ k \in DOMAIN stage_cache /\ stage_cache'[k] = stage_cache[k]
      BY <2>1, <2>3 DEF Stored
    <3>2. CASE k = KeyOf(c) /\ stage_cache'[k] = v
      BY <1>1, <2>1, <3>2
    <3>3. CASE k \in DOMAIN stage_cache /\ stage_cache'[k] = stage_cache[k]
      BY <3>3 DEF StageKeys
    <3> QED BY <3>1, <3>2, <3>3
  <2> QED BY <2>2, <2>3 DEF StageKeys
<1> QED BY <1>4, <1>5

LEMMA OwnAnswersStep ==
  ASSUME Typed, Busy, StageKeys, EmbedKeys, OwnAnswers, [Next]_vars
  PROVE  StageKeys' /\ EmbedKeys' /\ OwnAnswers'
<1>1. CASE UNCHANGED vars \/ Collect \/ Abort \/ Leave \/ Publish \/ Close
  BY <1>1, OthersOnly DEF StageKeys, EmbedKeys, OwnAnswers, Calls
<1>2. ASSUME NEW c \in Case, Start(c) \/ Work(c) PROVE StageKeys' /\ EmbedKeys'
  <2>1. CASE Compute(c)
    BY <2>1, StoredKeys
  <2>2. CASE ~Compute(c)
    <3>1. UNCHANGED <<stage_cache, embed_cache>>
      BY <1>2, <2>2 DEF Start, Work, cacheVars, Refuse, UseCached, Miss, CallAgain, CallFails,
         KeepBaseline, Compare, AskJudge, HearJudge, JudgeFails, SinkFails
    <3> QED BY <3>1 DEF StageKeys, EmbedKeys
  <2> QED BY <2>1, <2>2
<1>3. ASSUME NEW c \in Case, Start(c) \/ Work(c) PROVE OwnAnswers'
  <2>1. \A d \in Case : d # c => got'[d] = got[d] /\ turn'[d] = turn[d] /\ Calls(d)' = Calls(d)
    BY <1>3, OwnRunOnly DEF Calls
  <2>2. ASSUME NEW i \in DOMAIN got'[c] PROVE Owned(c, Calls(c)[i], got[c][i].by)'
    <3>1. CASE UNCHANGED <<got, tokens, turn>>
      BY <2>2, <3>1 DEF OwnAnswers, Owned, Calls
    <3>2. CASE got'[c] = <<>>
      BY <2>2, <3>2, EmptyType
    <3>3. CASE UseCached(c) \/ Compute(c)
      <4>1. /\ Len(got[c]) \in Nat /\ Len(got[c]) + 1 \in DOMAIN Calls(c) /\ UNCHANGED turn
            /\ Calls(c)' = Calls(c)
        BY <3>3, TakingStep DEF Calls
      <4>2. PICK v \in Value :
              /\ got' = [got EXCEPT ![c] = Append(@, v)]
              /\ \/ /\ UseCached(c)
                    /\ Hit(Next1(c).stage, KeyOf(c))
                    /\ v = Cache(Next1(c).stage)[KeyOf(c)]
                 \/ /\ Compute(c)
                    /\ v.by = <<c, turn[c]>>
        BY <3>3, TakingStep
      <4>3. Owned(c, Next1(c), v.by)
        <5>1. CASE UseCached(c) /\ Hit(Next1(c).stage, KeyOf(c))
                     /\ v = Cache(Next1(c).stage)[KeyOf(c)]
          BY <4>1, <5>1, FoundIsOwned
        <5>2. CASE Compute(c) /\ v.by = <<c, turn[c]>>
          <6>1. v.by[1] = c /\ v.by[2] = turn[c]
            BY <5>2
          <6> QED BY <4>1, <5>2, <6>1, NextCall DEF Owned
        <5> QED BY <4>2, <5>1, <5>2
      <4>4. got[c] \in Seq(Value) /\ got'[c] = Append(got[c], v)
        BY <4>2 DEF Typed
      <4>5. CASE i = Len(got[c]) + 1
        <5>1. got'[c][i] = v
          BY <4>4, <4>5, AppendProperties
        <5>2. Calls(c)'[i] = Next1(c)
          BY <4>1, <4>5 DEF Next1
        <5> QED BY <4>1, <4>3, <5>1, <5>2 DEF Owned
      <4>6. CASE i # Len(got[c]) + 1
        <5>1. i \in DOMAIN got[c] /\ got'[c][i] = got[c][i]
          <6>1. Len(got'[c]) = Len(got[c]) + 1 /\ got'[c] \in Seq(Value)
            BY <4>4, AppendProperties
          <6>2. i \in 1 .. Len(got[c])
            BY <2>2, <4>1, <4>6, <6>1, LenProperties
          <6> QED BY <4>4, <6>2, AppendProperties, LenProperties
        <5> QED BY <4>1, <5>1 DEF OwnAnswers, Owned
      <4> QED BY <4>5, <4>6
    <3> QED BY <1>3, <3>1, <3>2, <3>3, OwnRunOnly
  <2> QED BY <2>1, <2>2 DEF OwnAnswers, Owned
<1> QED BY <1>1, <1>2, <1>3 DEF Next

\* What a run takes from a cache was computed for its own config, tenant and
\* payload, whoever else was filling the cache meanwhile.
THEOREM CachesKeepApart == Spec => []OwnAnswers
<1>1. Init => StageKeys /\ EmbedKeys /\ OwnAnswers
  BY EmptyType DEF Init, CacheInit, StageKeys, EmbedKeys, OwnAnswers
<1>2. /\ Typed /\ Busy /\ StageKeys /\ EmbedKeys /\ OwnAnswers /\ [Next]_vars
      => (StageKeys /\ EmbedKeys /\ OwnAnswers)'
  BY OwnAnswersStep
<1> QED BY <1>1, <1>2, TypedInvariant, PTL DEF Spec

-----------------------------------------------------------------------------
(* The diffs.                                                              *)

LEMMA ClassifyShape ==
  ASSUME NEW b, NEW v, NEW expect, NEW verdict
  PROVE  /\ Classify(b, v, expect, verdict) \in Outcome
         /\ Classify(b, v, expect, verdict) = "error" \/ ~(b.failed \/ v.failed)
<1>1. ByTruth(b.answer, v.answer, expect) \in Outcome
  BY DEF ByTruth, Outcome
<1>2. ByJudge(v.answer, verdict) \in Outcome
  BY DEF ByJudge, Outcome
<1>3. CompareAnswers(b, v, expect, verdict) \in Outcome
  BY <1>1, <1>2 DEF CompareAnswers, Outcome
<1> HIDE DEF CompareAnswers
<1>4. CASE b.failed \/ v.failed
  BY <1>4 DEF Classify, Outcome
<1>5. CASE ~(b.failed \/ v.failed)
  BY <1>3, <1>5 DEF Classify
<1> QED BY <1>4, <1>5

\* Both runs of a case came to an answer.
BothAnswered(c) == ~baseline[c].failed /\ ~failed[c] /\ Len(got[c]) = Len(Calls(c))

\* The row a case's current run adds.
Row(c, d) ==
  /\ d.case = c /\ d.ablation = Ablations[turn[c]] /\ d.outcome \in Outcome
  /\ d.outcome = "error" \/ BothAnswered(c)

LEMMA DiffShape ==
  ASSUME NEW c \in Case, turn[c] # 0, Ended(c), NEW verdict
  PROVE  Row(c, Diff(c, TraceOf(c), verdict))
<1> DEFINE v == TraceOf(c)
           said == Classify(baseline[c], v, Expecting[c], verdict)
<1>1. v.failed = failed[c]
  BY DEF TraceOf
<1>2. said \in Outcome /\ (said = "error" \/ ~(baseline[c].failed \/ v.failed))
  BY ClassifyShape
<1>3. said = "error" \/ BothAnswered(c)
  BY <1>1, <1>2 DEF BothAnswered, Ended
<1>4. /\ Diff(c, v, verdict).case = c /\ Diff(c, v, verdict).ablation = Ablations[turn[c]]
      /\ Diff(c, v, verdict).outcome = said
  BY DEF Diff, Name
<1> QED BY <1>2, <1>3, <1>4 DEF Row

LEMMA ErrorShape == ASSUME NEW c \in Case, turn[c] # 0 PROVE Row(c, ErrorDiff(c))
BY DEF Row, ErrorDiff, Name, Outcome

\* What a step of a run does to the diffs of its case.
LEMMA WorkShape ==
  ASSUME Typed, Busy, NEW c \in Case, Work(c)
  PROVE  \/ turn[c] # 0 /\ GoOn(c) /\ \E d : Row(c, d) /\ AddDiff(c, d)
         \/ turn[c] = 0 /\ GoOn(c) /\ UNCHANGED out
         \/ Raise(c)
         \/ UNCHANGED <<out, future, turn>>
<1>1. CASE Refuse(c)
  <2>1. turn[c] # 0
    BY <1>1, SweepAssumption DEF Refuse, Name
  <2> QED BY <1>1, <2>1, ErrorShape DEF Refuse
<1>2. CASE KeepBaseline(c)
  BY <1>2 DEF KeepBaseline
<1>3. CASE Compare(c)
  BY <1>3, DiffShape DEF Compare, AtEnd
<1>4. CASE HearJudge(c)
  <2>1. Ended(c) /\ turn[c] # 0 /\ GoOn(c)
    BY <1>4 DEF HearJudge, Busy
  <2>2. PICK verdict : AddDiff(c, Diff(c, TraceOf(c), verdict))
    BY <1>4 DEF HearJudge
  <2> QED BY <2>1, <2>2, DiffShape
<1>5. CASE JudgeFails(c)
  BY <1>5 DEF JudgeFails
<1>6. CASE SinkFails(c)
  BY <1>6, ErrorShape DEF SinkFails
<1>7. CASE UseCached(c) \/ Miss(c) \/ CallAgain(c) \/ Compute(c) \/ CallFails(c) \/ AskJudge(c)
  BY <1>7 DEF UseCached, Miss, CallAgain, Compute, CallFails, AskJudge, worker
<1> QED BY <1>1, <1>2, <1>3, <1>4, <1>5, <1>6, <1>7 DEF Work

\* The diffs of a case are those of its first ablations.
RowsOf(c) ==
  /\ Len(out[c]) <= Len(Ablations)
  /\ future[c] = "pending" => Len(out[c]) = 0
  /\ future[c] = "running" => Len(out[c]) = IF turn[c] = 0 THEN 0 ELSE turn[c] - 1
  /\ future[c] = "done" => Len(out[c]) = Len(Ablations)
  /\ \A i \in 1 .. Len(out[c]) :
       /\ out[c][i].case = c /\ out[c][i].ablation = Ablations[i]
       /\ out[c][i].outcome \in Outcome

Rows ==
  /\ \E S : out \in [Case -> Seq(S)]
  /\ \A c \in Case : RowsOf(c)

LEMMA RowAdded ==
  ASSUME NEW S, out \in [Case -> Seq(S)], NEW c \in Case, NEW d, AddDiff(c, d)
  PROVE  /\ \E T : out' \in [Case -> Seq(T)]
         /\ \A b \in Case : b # c => out'[b] = out[b]
         /\ Len(out[c]) \in Nat /\ Len(out'[c]) = Len(out[c]) + 1
         /\ \A i \in 1 .. Len(out[c]) : out'[c][i] = out[c][i]
         /\ out'[c][Len(out[c]) + 1] = d
<1> DEFINE T == S \cup {d}
<1>1. \A s \in Seq(S) : s \in Seq(T)
  OBVIOUS
<1>2. out[c] \in Seq(T) /\ d \in T /\ \A b \in Case : out[b] \in Seq(T)
  BY <1>1
<1>3. out' = [out EXCEPT ![c] = Append(out[c], d)]
  BY DEF AddDiff
<1> HIDE DEF T
<1>4. Append(out[c], d) \in Seq(T) /\ Len(Append(out[c], d)) = Len(out[c]) + 1
  BY <1>2, AppendProperties
<1>5. out' \in [Case -> Seq(T)] /\ out'[c] = Append(out[c], d)
  BY <1>2, <1>3, <1>4
<1>6. \A i \in 1 .. Len(out[c]) : Append(out[c], d)[i] = out[c][i]
  BY <1>2, AppendProperties
<1>7. Append(out[c], d)[Len(out[c]) + 1] = d
  BY <1>2, AppendProperties
<1> QED BY <1>3, <1>2, <1>4, <1>5, <1>6, <1>7

LEMMA RowsStep ==
  ASSUME Typed, Busy, Rows, [Next]_vars
  PROVE  Rows'
<1> USE Constants
<1>1. CASE UNCHANGED vars \/ Collect \/ Leave \/ Publish \/ Close
  <2>1. UNCHANGED <<out, turn, future>>
    BY <1>1 DEF vars, worker, Collect, Leave, Publish, Close
  <2> QED BY <2>1 DEF Rows, RowsOf
<1>2. CASE Abort
  <2>1. UNCHANGED <<out, turn>> /\ \A c \in Case : future'[c] \in {future[c], "cancelled"}
    BY <1>2 DEF Abort
  <2> QED BY <2>1 DEF Rows, RowsOf
<1>3. ASSUME NEW c \in Case, Start(c) PROVE Rows'
  <2>1. /\ UNCHANGED <<out, turn>> /\ future[c] = "pending"
        /\ turn[c] = 0 /\ future' = [future EXCEPT ![c] = "running"]
    BY <1>3 DEF Start, Busy
  <2> QED BY <2>1 DEF Rows, RowsOf, Typed
<1>4. ASSUME NEW c \in Case, Work(c) PROVE Rows'
  <2>0. PICK S : out \in [Case -> Seq(S)]
    BY DEF Rows, RowsOf
  <2>1. /\ future[c] = "running" /\ turn[c] \in 0 .. Len(Ablations)
        /\ Len(out[c]) = IF turn[c] = 0 THEN 0 ELSE turn[c] - 1
    BY <1>4, Working DEF Rows, RowsOf, Typed, Turn
  <2>2. CASE turn[c] # 0 /\ GoOn(c) /\ \E d : Row(c, d) /\ AddDiff(c, d)
    <3>1. PICK d : Row(c, d) /\ AddDiff(c, d)
      BY <2>2
    <3>2. /\ \E T : out' \in [Case -> Seq(T)]
          /\ \A b \in Case : b # c => out'[b] = out[b]
          /\ Len(out[c]) \in Nat /\ Len(out'[c]) = Len(out[c]) + 1
          /\ \A i \in 1 .. Len(out[c]) : out'[c][i] = out[c][i]
          /\ out'[c][Len(out[c]) + 1] = d
      BY <2>0, <3>1, RowAdded
    <3>3. Len(out'[c]) = turn[c]
      BY <2>1, <2>2, <3>2
    <3>4. /\ \A b \in Case : b # c => future'[b] = future[b] /\ turn'[b] = turn[b]
          /\ \/ turn[c] = Len(Ablations) /\ future'[c] = "done"
             \/ future'[c] = "running" /\ turn'[c] = turn[c] + 1
      BY <2>1, <2>2 DEF GoOn, NextRun, Typed
    <3>5. ASSUME NEW i \in 1 .. Len(out'[c])
          PROVE  /\ out'[c][i].case = c /\ out'[c][i].ablation = Ablations[i]
                 /\ out'[c][i].outcome \in Outcome
      <4>1. CASE i \in 1 .. Len(out[c])
        BY <3>2, <4>1 DEF Rows, RowsOf
      <4>2. CASE i = Len(out[c]) + 1
        BY <2>1, <2>2, <3>1, <3>2, <3>3, <4>2 DEF Row
      <4> QED BY <3>2, <4>1, <4>2
    <3>6. /\ Len(out'[c]) <= Len(Ablations)
          /\ future'[c] # "pending"
          /\ future'[c] = "running" => Len(out'[c]) = IF turn'[c] = 0 THEN 0 ELSE turn'[c] - 1
          /\ future'[c] = "done" => Len(out'[c]) = Len(Ablations)
      BY <2>1, <3>3, <3>4
    <3>7. RowsOf(c)'
      BY <3>5, <3>6 DEF RowsOf
    <3>8. ASSUME NEW b \in Case, b # c PROVE RowsOf(b)'
      <4>1. out'[b] = out[b] /\ future'[b] = future[b] /\ turn'[b] = turn[b] /\ RowsOf(b)
        BY <3>2, <3>4, <3>8 DEF Rows
      <4> QED BY <4>1 DEF RowsOf
    <3> QED BY <3>2, <3>7, <3>8 DEF Rows
  <2>3. CASE turn[c] = 0 /\ GoOn(c) /\ UNCHANGED out
    <3>1. /\ \A b \in Case : b # c => future'[b] = future[b] /\ turn'[b] = turn[b]
          /\ \/ Len(Ablations) = 0 /\ future'[c] = "done"
             \/ future'[c] = "running" /\ turn'[c] = 1
      BY <2>1, <2>3 DEF GoOn, NextRun, Typed
    <3>2. /\ Len(out[c]) = 0 /\ Len(out[c]) <= Len(Ablations)
          /\ future'[c] # "pending"
          /\ future'[c] = "running" => turn'[c] = 1
          /\ future'[c] = "done" => Len(Ablations) = 0
      BY <2>1, <2>3, <3>1
    <3> QED BY <2>3, <3>1, <3>2 DEF Rows, RowsOf
  <2>4. CASE Raise(c)
    BY <2>1, <2>4 DEF Raise, NextRun, Typed, Rows, RowsOf
  <2>5. CASE UNCHANGED <<out, future, turn>>
    BY <2>5 DEF Rows, RowsOf
  <2> QED BY <1>4, <2>2, <2>3, <2>4, <2>5, WorkShape
<1> QED BY <1>1, <1>2, <1>3, <1>4 DEF Next

LEMMA RowsInit == Init => Rows
<1> SUFFICES ASSUME Init PROVE Rows
  OBVIOUS
<1>1. out \in [Case -> Seq({})] /\ \A c \in Case : Len(out[c]) = 0 /\ future[c] = "pending"
  BY DEF Init
<1> QED BY <1>1, Constants DEF Rows, RowsOf

\* Every variable of the sweep keeps to its values.
THEOREM TypeInvariant == Spec => []TypeOK
<1>1. Typed /\ Busy /\ Rows /\ [Next]_vars => Rows'
  BY RowsStep
<1>2. Typed /\ Busy /\ Rows => TypeOK
  BY DEF Typed, Busy, Rows, RowsOf, TypeOK
<1> QED BY RowsInit, <1>1, <1>2, TypedInvariant, PTL DEF Spec

\* Nothing but ERROR is said of a pair of runs of which one was lost.
THEOREM LostRunsSayError == Spec => LostRunsAreErrors
<1>1. /\ Typed /\ Busy /\ Rows /\ [Next]_vars
      => [\A c \in Case : Len(out'[c]) > Len(out[c]) =>
            \/ out'[c][Len(out'[c])].outcome = "error"
            \/ ~baseline[c].failed /\ ~failed[c] /\ Len(got[c]) = Len(Calls(c))]_vars
  <2> SUFFICES ASSUME Typed, Busy, Rows, Next, NEW c \in Case, Len(out'[c]) > Len(out[c])
               PROVE  out'[c][Len(out'[c])].outcome = "error" \/ BothAnswered(c)
    BY DEF BothAnswered
  <2>0. PICK S : out \in [Case -> Seq(S)]
    BY DEF Rows, RowsOf
  <2>1. out'[c] # out[c]
    <3>1. Len(out[c]) \in Nat
      BY <2>0
    <3> QED BY <3>1
  <2>2. PICK b \in Case : Work(b)
    BY <2>1, OthersOnly DEF Next, Start
  <2>3. PICK d : turn[b] # 0 /\ Row(b, d) /\ AddDiff(b, d)
    BY <2>1, <2>2, WorkShape DEF Raise
  <2>4. b = c /\ out'[c][Len(out'[c])] = d
    BY <2>0, <2>1, <2>3, RowAdded
  <2> QED BY <2>3, <2>4 DEF Row
<1>2. Typed /\ Busy /\ Rows /\ [Next]_vars => Rows'
  BY RowsStep
<1> QED BY RowsInit, <1>1, <1>2, TypedInvariant, PTL DEF Spec, LostRunsAreErrors

-----------------------------------------------------------------------------
(* The sweep implements Study.                                             *)

LEMMA AblationsType ==
  /\ DOMAIN Ablations = 1 .. Len(Ablations)
  /\ \A i, j \in 1 .. Len(Ablations) : Ablations[i] = Ablations[j] => i = j
  /\ \A x \in Cell : \E i \in 1 .. Len(Ablations) :
       x[1] \in Case /\ x[2] = Ablations[i] /\ x = <<x[1], Ablations[i]>>
  /\ \A c \in Case : \A i \in 1 .. Len(Ablations) : <<c, Ablations[i]>> \in Cell
<1>1. DOMAIN Ablations = 1 .. Len(Ablations)
  BY SweepAssumption, LenProperties
<1>2. \A i, j \in 1 .. Len(Ablations) : Ablations[i] = Ablations[j] => i = j
  BY <1>1, SweepAssumption
<1>3. Elements(Ablations) = {Ablations[i] : i \in 1 .. Len(Ablations)}
  BY <1>1 DEF Elements
<1>4. ASSUME NEW x \in Cell
      PROVE  \E i \in 1 .. Len(Ablations) :
               x[1] \in Case /\ x[2] = Ablations[i] /\ x = <<x[1], Ablations[i]>>
  BY <1>3 DEF Cell
<1>5. ASSUME NEW c \in Case, NEW i \in 1 .. Len(Ablations) PROVE <<c, Ablations[i]>> \in Cell
  BY <1>3 DEF Cell
<1> QED BY <1>1, <1>2, <1>4, <1>5

\* A cell has the outcome of its one row.
LEMMA MeasuredOnce ==
  ASSUME NEW rows, NEW x, NEW k \in DOMAIN rows, rows[k].case = x[1], rows[k].ablation = x[2],
         \A j \in DOMAIN rows : rows[j].case = x[1] /\ rows[j].ablation = x[2] => j = k
  PROVE  MeasuredIn(rows, x) = rows[k].outcome
<1> DEFINE found == {i \in DOMAIN rows : rows[i].case = x[1] /\ rows[i].ablation = x[2]}
<1>1. found = {k}
  OBVIOUS
<1>2. Cardinality(found) = 1
  BY <1>1, FS_Singleton
<1>3. (CHOOSE i \in found : TRUE) = k
  BY <1>1
<1>4. found # {} /\ ~(Cardinality(found) > 1)
  BY <1>1, <1>2
<1> QED BY <1>3, <1>4 DEF MeasuredIn

LEMMA NotMeasured ==
  ASSUME NEW rows, NEW x,
         \A j \in DOMAIN rows : ~(rows[j].case = x[1] /\ rows[j].ablation = x[2])
  PROVE  MeasuredIn(rows, x) = "undecided"
<1>1. {i \in DOMAIN rows : rows[i].case = x[1] /\ rows[i].ablation = x[2]} = {}
  OBVIOUS
<1> QED BY <1>1 DEF MeasuredIn

\* The rows of a case, as cells.
LEMMA CellOfRows ==
  ASSUME Rows, NEW c \in Case, NEW i \in 1 .. Len(Ablations)
  PROVE  /\ i <= Len(out[c]) => MeasuredIn(out[c], <<c, Ablations[i]>>) = out[c][i].outcome
         /\ i > Len(out[c]) => MeasuredIn(out[c], <<c, Ablations[i]>>) = "undecided"
<1> DEFINE x == <<c, Ablations[i]>>
<1>1. /\ Len(out[c]) \in Nat /\ Len(out[c]) <= Len(Ablations)
      /\ DOMAIN out[c] = 1 .. Len(out[c])
  BY LenProperties DEF Rows, RowsOf
<1>2. \A j \in DOMAIN out[c] : out[c][j].case = c /\ out[c][j].ablation = Ablations[j]
  BY <1>1 DEF Rows, RowsOf
<1>3. \A j \in DOMAIN out[c] : out[c][j].ablation = x[2] => j = i
  BY <1>1, <1>2, AblationsType, Constants
<1>4. x[1] = c /\ x[2] = Ablations[i]
  OBVIOUS
<1> HIDE DEF x
<1>5. CASE i <= Len(out[c])
  <2>1. i \in DOMAIN out[c]
    BY <1>1, <1>5
  <2>2. MeasuredIn(out[c], x) = out[c][i].outcome
    BY <1>2, <1>3, <1>4, <2>1, MeasuredOnce
  <2> QED BY <1>1, <1>5, <2>2 DEF x
<1>6. CASE i > Len(out[c])
  <2>1. i \notin DOMAIN out[c]
    BY <1>1, <1>6
  <2>2. MeasuredIn(out[c], x) = "undecided"
    BY <1>3, <1>4, <2>1, NotMeasured
  <2> QED BY <1>1, <1>6, <2>2 DEF x
<1> QED BY <1>1, <1>5, <1>6

\* What is collected has the rows of its cases, each once.
Found(c, i, k) ==
  /\ diffs[k].case = c /\ diffs[k].ablation = Ablations[i]
  /\ diffs[k].outcome = out[c][i].outcome
  /\ \A j \in DOMAIN diffs : diffs[j].case = c /\ diffs[j].ablation = Ablations[i] => j = k

Collected ==
  /\ \E S : diffs \in Seq(S)
  /\ \A k \in DOMAIN diffs : /\ diffs[k].case \in 1 .. collected
                             /\ \E i \in 1 .. Len(Ablations) : diffs[k].ablation = Ablations[i]
  /\ \A c \in 1 .. collected : \A i \in 1 .. Len(Ablations) :
       \E k \in DOMAIN diffs : Found(c, i, k)

LEMMA CollectedGrows ==
  ASSUME Typed, Busy, Lifecycle, Rows, Collected, Collect
  PROVE  Collected'
<1> DEFINE c == collected + 1
           m == Len(diffs)
           n == Len(Ablations)
<1>0. /\ c \in Case /\ future[c] = "done" /\ diffs' = diffs \o out[c] /\ collected' = c
      /\ UNCHANGED out /\ collected \in Nat
  BY Constants DEF Collect, worker, Typed, Case
<1>1. PICK S, T : diffs \in Seq(S) /\ out \in [Case -> Seq(T)]
  BY DEF Collected, Rows
<1>2. /\ diffs \in Seq(S \cup T) /\ out[c] \in Seq(S \cup T)
      /\ m \in Nat /\ n \in Nat /\ Len(out[c]) = n
      /\ DOMAIN diffs = 1 .. m
  BY <1>0, <1>1, Constants, LenProperties DEF Rows, RowsOf
<1>3. /\ diffs' \in Seq(S \cup T) /\ Len(diffs') = m + n
      /\ \A k \in 1 .. m + n : diffs'[k] = IF k <= m THEN diffs[k] ELSE out[c][k - m]
  <2> HIDE DEF c, m, n
  <2>1. /\ diffs \o out[c] \in Seq(S \cup T)
        /\ Len(diffs \o out[c]) = Len(diffs) + Len(out[c])
        /\ \A k \in 1 .. Len(diffs) + Len(out[c]) :
             (diffs \o out[c])[k] = IF k <= Len(diffs) THEN diffs[k] ELSE out[c][k - Len(diffs)]
    BY <1>2, ConcatProperties
  <2> QED BY <1>0, <1>2, <2>1 DEF m
<1>4. DOMAIN diffs' = 1 .. m + n
  BY <1>3, LenProperties
<1>5. \A i \in 1 .. n : out[c][i].case = c /\ out[c][i].ablation = Ablations[i]
  BY <1>0, <1>2 DEF Rows, RowsOf
<1>6. \A k \in 1 .. m : diffs[k].case \in 1 .. collected
  BY <1>2 DEF Collected
<1>7. \A k \in 1 .. m + n :
        /\ k <= m => diffs'[k] = diffs[k] /\ diffs'[k].case \in 1 .. collected
        /\ k > m => /\ k - m \in 1 .. n /\ diffs'[k] = out[c][k - m]
                    /\ diffs'[k].case = c /\ diffs'[k].ablation = Ablations[k - m]
  <2> HIDE DEF c, m, n
  <2> QED BY <1>2, <1>3, <1>5, <1>6
<1>8. ASSUME NEW k \in DOMAIN diffs'
      PROVE  diffs'[k].case \in 1 .. c /\ \E i \in 1 .. n : diffs'[k].ablation = Ablations[i]
  <2>1. CASE k <= m
    <3>1. k \in DOMAIN diffs /\ diffs'[k] = diffs[k] /\ diffs'[k].case \in 1 .. collected
      BY <1>2, <1>4, <1>7, <2>1
    <3>2. \E i \in 1 .. n : diffs[k].ablation = Ablations[i]
      BY <3>1 DEF Collected
    <3> QED BY <1>0, <3>1, <3>2
  <2>2. CASE k > m
    <3>1. k - m \in 1 .. n /\ diffs'[k].case = c /\ diffs'[k].ablation = Ablations[k - m]
      BY <1>4, <1>7, <2>2
    <3> QED BY <1>0, <3>1
  <2> QED BY <1>2, <1>4, <2>1, <2>2
<1>9. ASSUME NEW b \in 1 .. c, NEW i \in 1 .. n
      PROVE  \E k \in DOMAIN diffs' : Found(b, i, k)'
  <2>1. CASE b \in 1 .. collected
    <3>1. PICK k \in DOMAIN diffs : Found(b, i, k)
      BY <2>1 DEF Collected
    <3>2. k \in 1 .. m /\ k \in 1 .. m + n /\ diffs'[k] = diffs[k]
      BY <1>2, <1>7, <3>1
    <3>3. ASSUME NEW j \in 1 .. m + n, diffs'[j].case = b
          PROVE  j \in 1 .. m /\ diffs'[j] = diffs[j]
      <4>1. b # c
        BY <1>0, <2>1
      <4>2. ~(j > m)
        BY <1>7, <3>3, <4>1
      <4> QED BY <1>2, <1>7, <4>2
    <3>4. Found(b, i, k)'
      BY <1>0, <1>2, <1>4, <3>1, <3>2, <3>3 DEF Found
    <3> QED BY <1>4, <3>2, <3>4
  <2>2. CASE b = c
    <3>1. PICK k \in 1 .. m + n : k = m + i /\ k > m /\ k - m = i
      BY <1>2
    <3>2. /\ diffs'[k] = out[c][i] /\ diffs'[k].case = c
          /\ diffs'[k].ablation = Ablations[i]
      BY <1>7, <3>1
    <3>3. ASSUME NEW j \in 1 .. m + n, diffs'[j].case = c, diffs'[j].ablation = Ablations[i]
          PROVE  j = k
      <4>1. j > m
        BY <1>0, <1>2, <1>7, <3>3
      <4>2. j - m \in 1 .. n /\ Ablations[j - m] = Ablations[i]
        BY <1>7, <3>3, <4>1
      <4>3. j - m = i
        BY <4>2, AblationsType
      <4> QED BY <1>2, <3>1, <4>3
    <3>4. Found(b, i, k)'
      BY <1>0, <1>4, <2>2, <3>2, <3>3 DEF Found
    <3> QED BY <1>4, <3>1, <3>4
  <2> QED BY <1>0, <2>1, <2>2
<1> QED BY <1>0, <1>3, <1>8, <1>9 DEF Collected

LEMMA CollectedStep ==
  ASSUME Typed, Busy, Lifecycle, Rows, Collected, [Next]_vars
  PROVE  Collected'
<1> USE Constants
<1>0. 1 .. collected \subseteq Case /\ \A c \in 1 .. collected : future[c] = "done"
  BY DEF Typed, Case, Lifecycle
<1>1. CASE UNCHANGED vars \/ Abort \/ Leave \/ Publish \/ Close
  <2>1. UNCHANGED <<diffs, collected, out>>
    BY <1>1 DEF vars, worker, thread, Abort, Leave, Publish, Close
  <2> QED BY <2>1 DEF Collected, Found
<1>2. ASSUME NEW b \in Case, Start(b) \/ Work(b) PROVE Collected'
  <2>1. UNCHANGED <<diffs, collected>>
    BY <1>2, Working DEF Start, thread
  <2>2. \A c \in 1 .. collected : out'[c] = out[c]
    <3>1. CASE Start(b)
      BY <3>1 DEF Start
    <3>2. CASE Work(b)
      <4>1. b \notin 1 .. collected
        BY <1>0, <3>2, Working
      <4>2. \/ \E d : AddDiff(b, d)
            \/ UNCHANGED out
        BY <3>2, WorkShape DEF Raise
      <4>3. PICK S : out \in [Case -> Seq(S)]
        BY DEF Rows
      <4> QED BY <1>0, <4>1, <4>2, <4>3, RowAdded
    <3> QED BY <1>2, <3>1, <3>2
  <2>3. ASSUME NEW c \in 1 .. collected, NEW i \in 1 .. Len(Ablations)
        PROVE  \E k \in DOMAIN diffs' : Found(c, i, k)'
    <3>1. PICK k \in DOMAIN diffs : Found(c, i, k)
      BY DEF Collected
    <3>2. out'[c] = out[c]
      BY <2>2
    <3>3. Found(c, i, k)'
      BY <2>1, <3>1, <3>2 DEF Found
    <3> QED BY <2>1, <3>1, <3>3
  <2>4. /\ \E S : diffs' \in Seq(S)
        /\ \A k \in DOMAIN diffs' :
             /\ diffs'[k].case \in 1 .. collected'
             /\ \E i \in 1 .. Len(Ablations) : diffs'[k].ablation = Ablations[i]
    BY <2>1 DEF Collected
  <2> QED BY <2>1, <2>3, <2>4 DEF Collected
<1>3. CASE Collect
  BY <1>3, CollectedGrows
<1> QED BY <1>1, <1>2, <1>3 DEF Next

\* What is published is what was measured, once every case is collected.
LEMMA AllPublished ==
  ASSUME Typed, Lifecycle, Rows, Collected, collected = Cases, NEW x \in Cell
  PROVE  /\ MeasuredIn(diffs, x) = MeasuredIn(out[x[1]], x)
         /\ MeasuredIn(out[x[1]], x) # "undecided"
<1>1. PICK i \in 1 .. Len(Ablations) :
        x[1] \in Case /\ x[2] = Ablations[i] /\ x = <<x[1], Ablations[i]>>
  BY AblationsType
<1>2. x[1] \in 1 .. collected
  BY <1>1 DEF Case
<1>3. PICK k \in DOMAIN diffs : Found(x[1], i, k)
  BY <1>2 DEF Collected
<1>4. MeasuredIn(diffs, x) = out[x[1]][i].outcome
  BY <1>1, <1>3, MeasuredOnce DEF Found
<1>5. Len(out[x[1]]) = Len(Ablations) /\ i <= Len(out[x[1]])
  BY <1>1, <1>2, Constants DEF Lifecycle, Rows, RowsOf
<1>6. MeasuredIn(out[x[1]], x) = out[x[1]][i].outcome
  BY <1>1, <1>5, CellOfRows
<1>7. out[x[1]][i].outcome \in Outcome
  BY <1>1, <1>5 DEF Rows, RowsOf
<1>8. out[x[1]][i].outcome # "undecided"
  BY <1>7 DEF Outcome
<1> QED BY <1>4, <1>6, <1>8

\* A step of a case measures at most its next cell.
LEMMA WorkMeasures ==
  ASSUME Typed, Busy, Lifecycle, Rows, NEW c \in Case, Work(c)
  PROVE  UNCHANGED <<Measured, Published, Status>> \/ \E x \in Cell : Promise!Decide(x)
<1>1. UNCHANGED <<main, diffs, collected>> /\ future[c] = "running"
  BY Working DEF thread
<1>2. UNCHANGED <<Published, Status>>
  BY <1>1 DEF Published, Status
<1>3. CASE UNCHANGED out
  BY <1>2, <1>3 DEF Measured
<1>4. CASE turn[c] # 0 /\ GoOn(c) /\ \E d : Row(c, d) /\ AddDiff(c, d)
  <2>1. PICK d : Row(c, d) /\ AddDiff(c, d)
    BY <1>4
  <2>2. PICK S : out \in [Case -> Seq(S)]
    BY DEF Rows
  <2>3. /\ \A b \in Case : b # c => out'[b] = out[b]
        /\ Len(out[c]) \in Nat /\ Len(out'[c]) = Len(out[c]) + 1
        /\ \A i \in 1 .. Len(out[c]) : out'[c][i] = out[c][i]
        /\ out'[c][Len(out[c]) + 1] = d
    BY <2>1, <2>2, RowAdded
  <2>4. PICK n \in 1 .. Len(Ablations) : n = turn[c] /\ n = Len(out[c]) + 1
    <3>1. turn[c] \in 1 .. Len(Ablations)
      BY <1>4, Constants DEF Typed, Turn
    <3>2. Len(out[c]) = turn[c] - 1
      BY <1>1, <1>4 DEF Rows, RowsOf
    <3> QED BY <3>1, <3>2, Constants
  <2>5. PICK x \in Cell : x = <<c, Ablations[n]>> /\ x[1] = c /\ x[2] = Ablations[n]
    <3>1. <<c, Ablations[n]>> \in Cell
      BY AblationsType
    <3>2. <<c, Ablations[n]>>[1] = c /\ <<c, Ablations[n]>>[2] = Ablations[n]
      OBVIOUS
    <3> QED BY <3>1, <3>2
  <2>6. Measured[x] = "undecided"
    BY <2>3, <2>4, <2>5, CellOfRows DEF Measured
  <2>7. Rows'
    BY RowsStep DEF Next
  <2>8. Measured'[x] \in Outcome
    <3>1. n <= Len(out'[c]) /\ out'[c][n].outcome \in Outcome
      BY <2>1, <2>3, <2>4 DEF Row
    <3>2. MeasuredIn(out'[c], x) = out'[c][n].outcome
      <4>1. DOMAIN out'[c] = 1 .. n
        BY <2>3, <2>4, <2>7, LenProperties DEF Rows
      <4>2. \A j \in 1 .. n : out'[c][j].case = c /\ out'[c][j].ablation = Ablations[j]
        BY <2>3, <2>4, <2>7 DEF Rows, RowsOf
      <4>3. \A j \in 1 .. n : Ablations[j] = Ablations[n] => j = n
        BY AblationsType, Constants
      <4> QED BY <2>5, <4>1, <4>2, <4>3, MeasuredOnce
    <3> QED BY <2>5, <3>1, <3>2 DEF Measured
  <2>9. ASSUME NEW y \in Cell \ {x} PROVE Measured'[y] = Measured[y]
    <3>1. PICK j \in 1 .. Len(Ablations) :
            y[1] \in Case /\ y[2] = Ablations[j] /\ y = <<y[1], Ablations[j]>>
      BY <2>9, AblationsType
    <3>2. CASE y[1] # c
      BY <2>3, <3>1, <3>2 DEF Measured
    <3>3. CASE y[1] = c
      <4>1. j # n
        BY <2>5, <2>9, <3>1, <3>3
      <4>2. DOMAIN out'[c] = 1 .. n /\ DOMAIN out[c] = 1 .. n - 1
        BY <2>2, <2>3, <2>4, <2>7, LenProperties DEF Rows
      <4>3. \A k \in 1 .. n : out'[c][k].case = c /\ out'[c][k].ablation = Ablations[k]
        BY <2>3, <2>4, <2>7 DEF Rows, RowsOf
      <4>4. CASE j < n
        <5>1. j \in DOMAIN out'[c] /\ j <= Len(out[c]) /\ out'[c][j] = out[c][j]
          BY <2>3, <2>4, <4>2, <4>4
        <5>2. MeasuredIn(out'[c], y) = out'[c][j].outcome
          <6>1. \A k \in 1 .. n : Ablations[k] = Ablations[j] => k = j
            BY AblationsType, Constants
          <6> QED BY <3>1, <3>3, <4>2, <4>3, <5>1, <6>1, MeasuredOnce
        <5>3. MeasuredIn(out[c], y) = out[c][j].outcome
          BY <3>1, <3>3, <5>1, CellOfRows
        <5> QED BY <3>3, <5>1, <5>2, <5>3 DEF Measured
      <4>5. CASE j > n
        <5>1. MeasuredIn(out'[c], y) = "undecided"
          <6>1. \A k \in 1 .. n : Ablations[k] # Ablations[j]
            BY <4>5, AblationsType, Constants
          <6> QED BY <3>1, <4>2, <4>3, <6>1, NotMeasured
        <5>2. MeasuredIn(out[c], y) = "undecided"
          BY <2>3, <2>4, <3>1, <3>3, <4>5, CellOfRows
        <5> QED BY <3>3, <5>1, <5>2 DEF Measured
      <4> QED BY <4>1, <4>4, <4>5
    <3> QED BY <3>2, <3>3
  <2>10. Status # "published"
    BY <1>1 DEF Status, Lifecycle, Case
  <2> QED BY <1>2, <2>6, <2>8, <2>9, <2>10 DEF Promise!Decide
<1> QED BY <1>3, <1>4, WorkShape DEF Raise

LEMMA StudyStep ==
  ASSUME Typed, Busy, Lifecycle, Rows, Collected, [Next]_vars
  PROVE  Promise!Next \/ UNCHANGED <<Measured, Published, Status>>
<1>1. CASE UNCHANGED vars
  BY <1>1 DEF vars, worker, thread, Measured, Published, Status
<1>2. ASSUME NEW c \in Case, Start(c) PROVE UNCHANGED <<Measured, Published, Status>>
  BY <1>2 DEF Start, thread, Measured, Published, Status
<1>3. ASSUME NEW c \in Case, Work(c)
      PROVE  Promise!Next \/ UNCHANGED <<Measured, Published, Status>>
  BY <1>3, WorkMeasures DEF Promise!Next
<1>4. CASE Collect
  <2>1. UNCHANGED out /\ main = "collecting" /\ main' = "collecting"
    BY <1>4 DEF Collect, worker
  <2> QED BY <2>1 DEF Measured, Published, Status
<1>5. CASE Leave \/ Close
  <2>1. UNCHANGED <<out, diffs>> /\ (main' = main \/ (main = "draining" /\ main' = "aborted"))
    BY <1>5 DEF Leave, Close, worker
  <2> QED BY <2>1 DEF Measured, Published, Status
<1>6. CASE Abort
  <2>1. UNCHANGED <<out, diffs>> /\ main = "collecting" /\ main' = "draining"
    BY <1>6 DEF Abort
  <2> QED BY <2>1 DEF Measured, Published, Status, Promise!Abandon, Promise!Next
<1>7. CASE Publish
  <2>1. /\ UNCHANGED <<out, diffs>> /\ main = "collecting" /\ main' = "published"
        /\ collected = Cases
    BY <1>7 DEF Publish, worker
  <2>2. \A x \in Cell : Measured[x] # "undecided" /\ MeasuredIn(diffs, x) = Measured[x]
    BY <2>1, AllPublished DEF Measured
  <2>3. Published' = Measured
    BY <2>1, <2>2 DEF Published, Measured
  <2>4. Status = "running" /\ Status' = "published" /\ UNCHANGED Measured
    BY <2>1 DEF Status, Measured
  <2> QED BY <2>2, <2>3, <2>4 DEF Promise!Publish, Promise!Next
<1> QED BY <1>1, <1>2, <1>3, <1>4, <1>5, <1>6, <1>7 DEF Next

LEMMA StudyInit == Init => Promise!Init /\ Collected
<1> SUFFICES ASSUME Init PROVE Promise!Init /\ Collected
  OBVIOUS
<1>1. /\ DOMAIN diffs = {} /\ diffs \in Seq({}) /\ collected = 0 /\ main = "collecting"
      /\ \A c \in Case : DOMAIN out[c] = {}
  BY EmptyType DEF Init
<1>2. Measured = [x \in Cell |-> "undecided"]
  <2>1. ASSUME NEW x \in Cell PROVE MeasuredIn(out[x[1]], x) = "undecided"
    <3>1. x[1] \in Case
      BY DEF Cell
    <3> QED BY <1>1, <3>1, NotMeasured
  <2> QED BY <2>1 DEF Measured
<1>3. Published = [x \in Cell |-> "undecided"] /\ Status = "running"
  BY <1>1 DEF Published, Status
<1> QED BY <1>1, <1>2, <1>3 DEF Promise!Init, Collected

\* The sweep implements Study: each case is measured once under each ablation, and
\* the report shows all of these measurements, or there is none.
THEOREM SweepKeepsStudy == Spec => StudyIsKept
<1>1. Init => Lifecycle
  BY Constants DEF Init, Lifecycle
<1>2. Typed /\ Busy /\ Lifecycle /\ [Next]_vars => Lifecycle'
  BY LifecycleStep
<1>3. Typed /\ Busy /\ Rows /\ [Next]_vars => Rows'
  BY RowsStep
<1>4. Typed /\ Busy /\ Lifecycle /\ Rows /\ Collected /\ [Next]_vars => Collected'
  BY CollectedStep
<1>5. /\ Typed /\ Busy /\ Lifecycle /\ Rows /\ Collected /\ [Next]_vars
      => [Promise!Next]_<<Measured, Published, Status>>
  BY StudyStep
<1> QED BY RowsInit, StudyInit, <1>1, <1>2, <1>3, <1>4, <1>5, TypedInvariant, PTL
    DEF Spec, StudyIsKept, Promise!Spec

-----------------------------------------------------------------------------
(* What the report says of an ablation.                                    *)

\* The report is that of all cases.
Reports ==
  report # <<>> =>
    /\ collected = Cases
    /\ DOMAIN report.verdict = {diffs[i].ablation : i \in DOMAIN diffs}
    /\ \A a \in DOMAIN report.verdict : report.verdict[a] = Verdict(diffs, a)

LEMMA ReportsStep ==
  ASSUME Typed, Busy, Reports, [Next]_vars
  PROVE  Reports'
<1>1. CASE Publish
  <2>1. /\ report' = RenderReport(diffs, Parts, Slack) /\ collected = Cases
        /\ UNCHANGED <<diffs, collected>>
    BY <1>1 DEF Publish
  <2> DEFINE table == Tabulate(diffs)
  <2>2. DOMAIN table = {diffs[i].ablation : i \in DOMAIN diffs}
    BY DEF Tabulate
  <2>3. report'.verdict = [a \in DOMAIN table |-> Verdict(diffs, a)]
    BY <2>1 DEF RenderReport
  <2> HIDE DEF table
  <2> QED BY <2>1, <2>2, <2>3 DEF Reports
<1>2. CASE Collect
  <2>1. collected < Cases /\ UNCHANGED report
    BY <1>2 DEF Collect
  <2> QED BY <2>1, Constants DEF Reports, Typed
<1>3. CASE UNCHANGED vars \/ Abort \/ Leave \/ Close
  BY <1>3 DEF vars, thread, Abort, Leave, Close, Reports
<1>4. ASSUME NEW c \in Case, Start(c) \/ Work(c) PROVE Reports'
  <2>1. UNCHANGED thread
    BY <1>4, Working DEF Start
  <2> QED BY <2>1 DEF thread, Reports
<1> QED BY <1>1, <1>2, <1>3, <1>4 DEF Next

\* The rows of a set of outcomes.
RowsIn(a, outcomes) == {i \in DOMAIN diffs : diffs[i].ablation = a /\ diffs[i].outcome \in outcomes}

\* Each case has one row under an ablation.
LEMMA RowsArePerCase ==
  ASSUME Typed, Lifecycle, Rows, Collected, collected = Cases,
         NEW j \in 1 .. Len(Ablations), NEW outcomes
  PROVE  LET a == Ablations[j]
             measured == {c \in Case : \E i \in DOMAIN diffs :
                            /\ diffs[i].case = c /\ diffs[i].ablation = a
                            /\ diffs[i].outcome \in outcomes}
         IN  /\ Cardinality(RowsIn(a, outcomes)) \in Nat
             /\ Cardinality(measured) \in Nat
             /\ Cardinality(RowsIn(a, outcomes)) <= Cardinality(measured)
             /\ Outcome \subseteq outcomes => Cases <= Cardinality(RowsIn(a, outcomes))
<1> DEFINE a == Ablations[j]
           measured == {c \in Case : \E i \in DOMAIN diffs :
                          /\ diffs[i].case = c /\ diffs[i].ablation = a
                          /\ diffs[i].outcome \in outcomes}
           shown == RowsIn(a, outcomes)
<1>1. IsFiniteSet(Case) /\ Cardinality(Case) = Cases /\ Cases \in Nat
  BY Constants, FS_Interval DEF Case
<1>2. IsFiniteSet(DOMAIN diffs)
  <2>1. PICK S : diffs \in Seq(S)
    BY DEF Collected
  <2>2. DOMAIN diffs = 1 .. Len(diffs) /\ Len(diffs) \in Nat
    BY <2>1, LenProperties
  <2>3. IsFiniteSet(1 .. Len(diffs))
    BY <2>2, FS_Interval
  <2> QED BY <2>2, <2>3
<1>3. measured \in SUBSET Case /\ shown \in SUBSET DOMAIN diffs
  BY DEF RowsIn
<1>4. /\ IsFiniteSet(measured) /\ Cardinality(measured) \in Nat
      /\ IsFiniteSet(shown) /\ Cardinality(shown) \in Nat
  BY <1>1, <1>2, <1>3, FS_Subset, FS_CardinalityType
<1>5. \A i, k \in shown : diffs[i].case = diffs[k].case => i = k
  <2> SUFFICES ASSUME NEW i \in shown, NEW k \in shown, diffs[i].case = diffs[k].case
               PROVE  i = k
    OBVIOUS
  <2>1. /\ i \in DOMAIN diffs /\ diffs[i].ablation = a
        /\ k \in DOMAIN diffs /\ diffs[k].ablation = a
    BY DEF RowsIn
  <2>2. diffs[i].case \in 1 .. collected
    BY <2>1 DEF Collected
  <2>3. PICK only \in DOMAIN diffs : Found(diffs[i].case, j, only)
    BY <2>2 DEF Collected
  <2> QED BY <2>1, <2>3 DEF Found
<1>6. Cardinality(shown) <= Cardinality(measured)
  <2> DEFINE f == [i \in shown |-> diffs[i].case]
  <2>1. f \in [shown -> measured]
    <3>1. \A i \in shown : diffs[i].case \in measured
      BY DEF RowsIn, Collected, Case
    <3> QED BY <3>1
  <2>2. f \in Injection(shown, measured)
    BY <1>5, <2>1 DEF Injection, IsInjective
  <2> HIDE DEF f, shown, measured
  <2> QED BY <1>4, <2>2, FS_Injection
<1>7. ASSUME Outcome \subseteq outcomes PROVE Cases <= Cardinality(shown)
  <2>1. \A c \in Case : \E k \in shown : diffs[k].case = c
    <3> SUFFICES ASSUME NEW c \in Case PROVE \E k \in shown : diffs[k].case = c
      OBVIOUS
    <3>1. PICK k \in DOMAIN diffs : Found(c, j, k)
      BY DEF Collected, Case
    <3>2. future[c] = "done"
      BY DEF Lifecycle, Case
    <3>3. Len(out[c]) = Len(Ablations) /\ RowsOf(c)
      BY <3>2 DEF Rows, RowsOf
    <3>4. out[c][j].outcome \in Outcome
      BY <3>3 DEF RowsOf
    <3> QED BY <1>7, <3>1, <3>4 DEF Found, RowsIn
  <2> DEFINE g == [c \in Case |-> CHOOSE k \in shown : diffs[k].case = c]
  <2>2. \A c \in Case : g[c] \in shown /\ diffs[g[c]].case = c
    BY <2>1
  <2>3. g \in [Case -> shown] /\ \A b, c \in Case : g[b] = g[c] => b = c
    BY <2>2
  <2>4. g \in Injection(Case, shown)
    BY <2>3 DEF Injection, IsInjective
  <2> HIDE DEF g, shown
  <2> QED BY <1>1, <1>4, <2>4, FS_Injection
<1> QED BY <1>4, <1>6, <1>7

\* An ablation is called harmless only if nearly every case was measured under it
\* and found unchanged.
THEOREM HarmlessMeansMeasured == Spec => []NoEffectMeansMeasured
<1>1. Init => Lifecycle /\ Reports
  BY Constants DEF Init, Lifecycle, Reports
<1>2. Typed /\ Busy /\ Lifecycle /\ [Next]_vars => Lifecycle'
  BY LifecycleStep
<1>3. Typed /\ Busy /\ Rows /\ [Next]_vars => Rows'
  BY RowsStep
<1>4. Typed /\ Busy /\ Lifecycle /\ Rows /\ Collected /\ [Next]_vars => Collected'
  BY CollectedStep
<1>5. Typed /\ Busy /\ Reports /\ [Next]_vars => Reports'
  BY ReportsStep
<1>6. Typed /\ Lifecycle /\ Rows /\ Collected /\ Reports => NoEffectMeansMeasured
  <2> SUFFICES ASSUME Typed, Lifecycle, Rows, Collected, Reports, report # <<>>,
                      NEW a \in DOMAIN report.verdict, report.verdict[a] = "no_effect"
               PROVE  100 * Cardinality({c \in Case : \E i \in DOMAIN diffs :
                        /\ diffs[i].case = c /\ diffs[i].ablation = a
                        /\ diffs[i].outcome \in {"identical", "equivalent"}}) >= 98 * Cases
    BY DEF NoEffectMeansMeasured
  <2> DEFINE measured == Cardinality({c \in Case : \E i \in DOMAIN diffs :
                           /\ diffs[i].case = c /\ diffs[i].ablation = a
                           /\ diffs[i].outcome \in {"identical", "equivalent"}})
             same == Cardinality(RowsIn(a, {"identical", "equivalent"}))
             all  == Cardinality(RowsIn(a, Outcome))
  <2>1. collected = Cases /\ Verdict(diffs, a) = "no_effect"
    BY DEF Reports
  <2>2. PICK j \in 1 .. Len(Ablations) : a = Ablations[j]
    BY DEF Reports, Collected
  <2>3. 100 * same >= 98 * all
    BY <2>1 DEF Verdict, VerdictOf, Count, RowsIn
  <2>4. /\ same \in Nat /\ measured \in Nat /\ same <= measured
    BY <2>1, <2>2, RowsArePerCase
  <2>5. all \in Nat /\ Cases <= all /\ Cases \in Nat
    BY <2>1, <2>2, RowsArePerCase, Constants
  <2>6. 100 * measured >= 98 * Cases
    <3> HIDE DEF measured, same, all
    <3> QED BY <2>3, <2>4, <2>5
  <2> QED BY <2>6
<1> QED BY RowsInit, StudyInit, <1>1, <1>2, <1>3, <1>4, <1>5, <1>6, TypedInvariant, PTL
    DEF Spec
=============================================================================
