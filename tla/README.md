# Retrieval Autopsy: a TLA+ model

Retrieval Autopsy is a retrieval-augmented question answering pipeline built to be
observed: each run returns a *trace* that says what every stage did, why it declined to
run, and which chunk was kept or rejected for which reason. The value of the system is that
the trace can be believed. This directory models the program, model-checks it with TLC and
proves the most important invariants with TLAPS.

## The system

| Part | Where | State it keeps | Operations |
|---|---|---|---|
| Pipeline run | `autopsy/pipeline.py`, `stages/base.py`, `trace.py` | one `State` a run: candidates, orders, gate, context, answer; the records and the stream | `run`, `execute`, `stage_span`, `ensure_candidate`, `_build_trace` |
| Stages | `autopsy/stages/*.py` | none | nine stages, each with `skip` and `run`; `finalize_context` |
| Chunk index | `autopsy/store/chunks.py`, `autopsy/ingest.py` | chunks, vectors, meta; three files on disk | `scope`, `neighbours`, `write`, `read`, `build_index`, `ingest` |
| Lexical store | `autopsy/store/lexical.py` | BM25 index per tenant, built on demand | `search` |
| Vector stores | `autopsy/store/vectors.py` | client registry with reference counts; the collections of the vector database | construct and sync, `search`, `close` |
| Configuration, ablations | `autopsy/config.py`, `autopsy/ablations.py` | none | `default_config`, `apply`, `compose` |
| Chunker | `autopsy/chunking.py` | none | `split_sections`, `_fence_safe_split`, `chunk_markdown` |
| Caches | `autopsy/cache.py` | stage cache, embedding cache (and an answer cache nobody constructs) | `StageCache.get_or_compute`, `EmbeddingCache.get_or_compute` |
| Sweep and counterfactual report | `autopsy/counterfactual.py`, `autopsy/determinism.py` | the baseline traces, the diffs | `sweep`, `classify`, `explain`, `tabulate`, `render_report` |
| Chat client | `autopsy/providers/oaicompat.py` | token counters | `_call` with retries, `generate`, `rerank`, `rewrite` |
| Sockets | `api/ws_stream.py`, `api/ws_eval.py` | a queue a run | receive, run in a worker thread, forward events |
| Application | `api/main.py`, `api/state.py` | the process-wide index, pipeline and config | start, serve, shut down |
| Evaluation runner | `evals/runner.py` | findings of an evaluation; the known failures and the report on disk | `run_suites`, `guard`, `write_baseline`, `render_report`, `exit_code` |
| Evaluation suites | `evals/suites/*` | findings as they come | a probe or a trap each, and a summary |
| Judges | `evals/judge.py` | verdict counts; labelled pairs on disk | `compare`, `calibrate`, `run_calibration` |

How they interact:

* *Ingest* reads a Markdown tree and leaves three files; every other process reads them once,
  when it starts, and holds the index in memory from then on.
* A *pipeline* is built over an index. It owns a vector store; with the Qdrant backend the
  store brings the database up to date in its constructor, and all stores of a process share
  one client.
* A *run* goes through nine stages that communicate only by a `State` object. Every stage
  reports a record for the trace and an event for the stream.
* The *API server* keeps one pipeline. A socket runs it in a worker thread, which posts the
  events of the run to the event loop; the handler takes them from a queue and sends them.
* *Sweeps, suites and the command line* call the pipeline many times, with ablations, and
  compare the traces.

What is hard in this system: a refusal that three later stages must each honour; a tenant
boundary that is crossed by document id rather than by query; a stage that raises half way
through; a crash between two files, or between two batches of an upsert; processes over
different indexes on one server; threads that outlive the client they work for; workers that
fill one cache; one failed call among hundreds of a study; a suite that breaks before it could
report.

## Modules

| Module | Models | How its state and actions correspond to the code |
|---|---|---|
| `Corpus` | the loaded index | constant functions give a chunk its owner, document and position; `Scope`, `Neighbours`, `Permitted`, and `ByScore`, the key `(-score, id)` |
| `Sorting` | lists and `sorted()` | `Elems`, `Prefix` (a slice `[:n]`) and `Sorted`, which lays a finite set out by a strict order; used by the stages and by the ingest |
| `PipelineConfig` | configs and ablations | a config is a record of the knobs that guards read; `Variants` is every ablation the table lists, applied to a default |
| `Pipeline` | one run | the fields of `State` are the variables; one action per stage, in which the skip decision, the stage and its record and events are one step, as `execute` makes them; `Finalize` is `finalize_context`, `Done` and `Fail` the two ends of `run` |
| `VectorStore` | Qdrant client registry and collections | `registry` is `_CLIENTS` of every process; a store's `pc` walks through its constructor, one step per call to the database; processes start, crash and exit anywhere |
| `IndexBundle` | the index on disk | three files as sequences of pieces of lines; `ingest` as open / flush / flush / ... of each file, in place, and a reader that goes through each of them with buffered reads of its own (`OpenIndex` to `ReadMeta`), at the offset it has reached in whatever the file then holds |
| `Chunking` | the chunker | lines of a kind, a mark and a length. `Read`, `Gather`, `Pack`, `Merge` and `Cut` are the loops, each a function from the number of its rounds to the values of its variables; `ReadLine`, `BlockLine`, `PackBlock` and `MergeSection` are their bodies. `IndexBundle` extends it |
| `Outcomes` | what is made of two traces | `Classify`, `Explain`, `Tabulate`, the verdicts and interactions of the report, `Comparable`; an answer is what these functions read of it |
| `Judge` | both judges and the calibration | a pair of answers is what the rules read of it, a model's reply any word |
| `Caches` | the two caches in use | `stage_cache` and `embed_cache` map keys to the run that computed the value; a lookup and a store are separate steps |
| `ChatCall` | `_call` | `attempt` counts the requests of each caller; a request is answered, or raises, and is sent again or given up |
| `Study` | *abstract*: what a study promises | a cell for each case and ablation, a report, a state |
| `Sweep` | one sweep | `todo`, `turn`, `got`, `out` are a worker's progress through its case, one step per call; `main` collects the cases in order, drains the pool after an exception, reports and closes the pipeline. It composes `Judge`, `Caches` and `ChatCall` |
| `Suites` | the two suites, case by case | from what a probe sees of its run to a finding; `ExitCode` and the baseline |
| `EvalRun` | evaluations in a row | one step per case of a suite, which may pass, fail, crash or take its suite with it; baselines per provider, the report, the exit code, the client that is sent the findings |
| `EventStream` | *abstract*: what a socket promises | a client is idle, has asked, or is gone; how many events it was told |
| `Streaming` | the sockets and the process around them | `handler` is the coroutine, `worker` the thread, `loop` the callbacks of `call_soon_threadsafe`, `queue` the `asyncio.Queue` of the current run, `sent` what the client has |
| `MC...` | | the constants of the runs |
| `SortingProofs`, `PipelineProofs`, `ChunkingProofs`, `IndexBundleProofs`, `VectorStoreProofs`, `StreamingProofs`, `SweepProofs`, `EvalRunProofs` | | theorems |

Operators whose comment begins with *Slip* are not part of a model. Each states a mistake that
could be made in the code modelled by the operator after it; replacing the one by the other
must violate a property, which shows that the property says something about that code.

Choices that are data in the code (scores, replies of a model, which call fails) are
nondeterministic choices from small sets. Scores are integers: cosine similarities and
reciprocal ranks in millionths. In `Pipeline` a call that raises is an alternative of the action
of its stage. `Sweep` keeps of a run of the pipeline only the calls it makes to a model, each
behind its cache; what else a run computes is a function of the case and the ablation, and a
constant. Which calls a run makes, and for whom, is data of the instance: the theorems hold for
every choice of it.

## What is checked

Passing runs:

| Run | Shows |
|---|---|
| `pipeline` (`MCPipeline.cfg`) | one run under every ablation, both providers' gates, three tenants, with and without history and generation, with any scores and any failing call |
| `vector_store` (`MCVectorStore.cfg`) | two processes and three stores over an embedded folder or a server, with crashes |
| `index_bundle` (`MCIndexBundle.cfg`) | ingests of two corpora by two models, one interrupted, with a reader inside the files they rewrite; and the chunks of every small document |
| `streaming` (`MCStreaming.cfg`) | a query and a suite sharing a thread, with clients that leave and a server that is stopped and started |
| `sweep` (`MCSweep.cfg`) | two workers measuring three cases under three ablations over shared caches, with retries and one call that may fail anywhere |
| `evaluation` (`MCEvalRun.cfg`) | three evaluations under two providers, by a build or by a client, in which two cases fail, crash or end their suite |

`Pipeline`:

* `TenantBoundary`: whatever path a chunk takes into a run, its owner is the caller's tenant or
  the global one, and the run-time check never has to fire.
* `RefusalIsFinal`: after the gate refused, no later stage runs, nothing reaches the context, and
  the trace says so.
* `Accounted`, `NeighboursFollowWinners`: in a finished run each candidate is in the context with
  a reason or rejected by a stage; the budget is used; a neighbour stands behind its winner.
* `RankingComplete`, `ScoredBeforeUnscored`: fusing and reranking neither lose nor duplicate a
  chunk, and a short list never lifts an unscored chunk over a scored one.
* `UncheckedAnswersAreMarked`: an answer that no gate checked carries the gate's skip record.
* `TraceComplete`, `StreamMatchesTrace`: the trace has its nine slots also after an exception, and
  the stream tells the same story in the same order with one terminal event.

`VectorStore`: `RegistryCountsHolders` (the shared client lives exactly as long as its
holders), `ServesItsIndex` and `Tidy` (embedded mode: a constructed store answers from a
complete collection of its own index, the only one there is), `NoForeignVectors` (both modes:
never a vector of another index).

`IndexBundle`:

* `LoadedCanBeSearched`: wherever its reads overlapped an ingest, also inside a file, what a
  process loads has a vector for each of its chunks. Unless the ingest emptied the file while the
  process was inside it, its chunks are the first of one state of the corpus and no vector is put
  together of two. If the ingest did, the program promises neither, and the model has it so: the
  reader goes on at its offset in the new text, and a line of two halves may parse.
* `EndedIngestIsWhole` (an ingest repairs what an interrupted one left), `VectorsAreByTheirModel`,
  and `ReusesEverything`, an action property.

`Streaming`: `ClientSeesItsRun`, `PipelineOutlivesRuns`, the liveness properties
`SocketComesBack` and `StopsWhenTold`, and `KeepsPromise`: the sockets implement `EventStream`
under a refinement mapping from what the client received. Its liveness part says that every
request is answered unless its client is gone.

`Chunking`: `ChunksAreExact`, a statement about documents that is evaluated once: no line is
lost, chunks follow the document, a fenced block is whole in one chunk, and a chunk is over its
target only by an overlap or by a line or fence that cannot be cut.

`Sweep`:

* `OwnAnswers`: what a run takes from a cache was computed for its own config, tenant and
  payload, whoever filled the cache meanwhile.
* `RetriesAreNotCounted`: however often its requests were sent again, a run counts the usage of
  one answer for each call.
* `LostRunsAreErrors`: a diff says anything but `error` only of two runs that both answered; two
  runs that failed alike never count as agreeing.
* `NoEffectMeansMeasured`: the report calls an ablation harmless only if nearly every case was
  measured under it and found unchanged.
* `AbortsOnlyOnAFault`: no base config makes `assert_comparable` refuse an ablation; only a call
  that raised where nobody catches it ends a sweep.
* `PipelineOutlivesWorkers`: the pipeline is not closed under a worker, also after an abort.
* `StudyIsKept`: the sweep implements `Study` under a mapping from diffs and the report to cells:
  one measurement a case and ablation, and all of them reported or none.
* `SweepEnds`: every sweep ends and closes its pipeline.

`EvalRun`: `NothingIsHidden` (a case that crashes hides no other; client, report and summary
agree), `BlindnessBlocks` (what could not be measured blocks the build by itself),
`NewFailureFailsTheBuild` (a build passes only with failures that the baseline of its own
provider knows).

Runs that exhibit a disagreement between the code and what it says of itself:

| Run | What it shows |
|---|---|
| `pipeline_rerank_without_signal` | without a gate signal the reranker is *skipped* with the reason "reranking anyway" (`rerank.py:34-38`) |
| `pipeline_inclusion_reason` | a chunk that a winner of its document brought along is labelled `fused_top_k` (`expand.py:83-98`) |
| `vector_store_stale` | on a shared server the clean-up deletes a collection that another process still answers from (`vectors.py:285-301`) |
| `index_bundle_model` | an ingest stopped after `vectors.jsonl` and before `meta.json` leaves vectors that the next ingest takes for another model's (`ingest.py:72-74`) |
| `index_bundle_bytes` | ingesting an unchanged corpus again may write `vectors.jsonl` in another order (`ingest.py:76-82`) |
| `sweep_headline` | the report says its last column counts answers that were correct and became incorrect; `classify` also puts those there that were wrong before and lost their hedge (`counterfactual.py:182-187`, `539-541`) |

### Bounds, and why they are enough

* `pipeline`: five chunks are the fewest with two tenants that share a document id and a
  position, a document of three chunks (a winner with a neighbour on each side, one of them
  outside both legs), and a global chunk. `TopK = TopN = 2` cut each leg and the shortlist, the
  context budget is a knob of the config. Four semantic scores lie below, in and above the
  gate's zone; two lexical and two rerank scores contain the falsy one, zero.
* `vector_store`: two stores in one process and one in another are the fewest that share and
  compete for a client. Three points in batches of two give a sync a middle to stop in. Two
  indexes of one shape by two models and one of concept bags cover the fingerprint and the
  refusal. Nothing else is bounded.
* `index_bundle`: the second corpus puts a section before that of the first, so that reused rows
  come out of order, and an ingest of the first after the second drops one. Lines of two pieces are
  enough for a flush or a read to end within a line, and for a line put together of two; rows of
  one piece, by the second model, for a text that ends where the other is within a line.
  `MaxCrashes = 1` bounds the interrupted ingests; ended ingests and readers are not bounded.
* `streaming`: one socket of each kind and one thread for both, so that a run waits for the other.
  A query of two events (order matters) and a suite of one. The number of a run alternates
  between two values: a run can only meet the messages of the one before it, because a
  handler does not return before its worker.
* `index_bundle`, the chunker: a target of 8 tokens and a minimum of 3, documents of up to six lines
  of six kinds. A line of text is half a target, so that buffers fill, carry an overlap and spill;
  two fence marks nest one in another; two heading levels push and pop the path.
* `sweep`: cases 1 and 2 are the same question of one tenant, so that two workers miss one key at
  once; one of them has ground truth and the other needs the judge. Case 3 is another tenant's.
  Of the ablations one removes a leg, one changes only the prompt (the same payload under another
  config), one does not apply. `MaxFaults = 1`, at any call, also of judge and trace sink;
  `MaxRetries = 2` has a first and a last attempt. With one fault TLC never has both a baseline and
  its variant fail; `LostRunsSayError` is proved for any number. With three cases the verdict's
  tolerance of two in a hundred never lets one go; `HarmlessMeansMeasured` is proved for any
  number. The headline run is serial and has a composite ablation, for the report's interactions.
* `evaluation`: three evaluations are the fewest in which a baseline is written, one of another
  provider comes between, and a third compares. `MaxTroubles = 2` cases that do not pass, in one
  evaluation or in two. Two traps, one each for the two rules by which a trap is scored.

`CHECK_DEADLOCK FALSE` is given where a run of the pipeline, a sweep or the last evaluation ends;
the other systems never stop.

### Fairness

`Streaming` and `Sweep` have liveness. `Streaming` assumes weak fairness of the event loop
(`Deliver`), of the executor (`StartWork`), of each worker thread and of each handler, and that
uvicorn goes down when its handlers have returned. The code justifies it: callbacks of
`call_soon_threadsafe` run in order, `to_thread` starts work when a thread is free, and a run is a
finite sequence of calls, each with a timeout (`oaicompat.py:134-190`). No fairness is assumed of
clients or of the operator. A shutdown that cancels handlers by force is not modelled.

`Sweep` assumes weak fairness of the worker of each case and of the main thread: pool threads run,
`pool.map` hands every case to one of them, and each call ends, by its timeout or by the bound on
its attempts. Nothing is assumed of the service.

## What is proved

TLAPS proves the following for every value of the constants that satisfies the assumptions the
modules name.

* `SortingProofs!SortedIsPermutation`: laying a finite set out by a strict total order gives a
  sequence with each element once, in that order. Every ranking rests on it, and so do the rows an
  ingest writes.
* `PipelineProofs!TypeInvariant`. The type invariant is inductive by itself, because orders are
  built by `Sorted` and by prefixes of it; the work is in the operators of the stages.
* `PipelineProofs!TenantIsolation`. `TenantBoundary` is not inductive: reranking and
  `finalize_context` take chunks from the orders, so the invariant adds `RankedAreCandidates`,
  that every order holds candidates only. Searching stays in `Scope`, `Scope` is `Permitted`, and
  a neighbour of a permitted chunk is permitted because a document's key contains its owner.
* `PipelineProofs!RefusalStays`. The strengthening says that no candidate is rejected and no
  context chosen before the gate (`Undecided`) and that after a refusal only skips remain.
* `PipelineProofs!RankingsAreComplete` and `ScoredComeFirst`, from one invariant that also says
  that the legs' orders do not change once fused.
* `PipelineProofs!TraceIsComplete`. The invariant (`Logged`) says which stages have a record at each
  point of a run, that the record of stage *i* is in slot *i*, and that an error record stands for
  the stage that raised; stages run in one order and report in another, and `finish` lays the
  records out.
* `PipelineProofs!AnswersAreMarked`: while a run goes on, either the gate has read a signal, and a
  candidate carries it, or its record is a skip with its reason (`Marked`).
* `PipelineProofs!CandidatesAccountedFor`: until `finalize_context` the candidates are those of the
  legs and of expansion and nobody is rejected; after it everybody has won or lost (`Booked`).
  It rests on `TenantIsolation`'s and `RefusalStays`' invariants.
* `PipelineProofs!NeighboursStandBehind`: the context is chosen once, in one order, which puts a
  neighbour after a winner it belongs to (`Following`).
* `PipelineProofs!StreamTellsTheTrace`: the events so far are those of the stages that have a record,
  in the order they ran, each with what its record says (`Streamed`). How many there are by which
  stage is counted (`StagesTold`), because the events between them (the candidates before the stage
  that found them, the fused list after the gate) shift their places; a run that is over has added
  one terminal event.
* `IndexBundleProofs!LoadedIndexCanBeSearched`, `EveryEndedIngestIsWhole`,
  `EveryVectorIsByItsModel` and the action property `NothingIsEmbeddedTwice`, from one invariant.
  A file begins what one ingest writes at any moment (`OnDisk`), because each flush continues the
  text. What a reader holds begins what its file holds, from read to read, until an ingest empties that
  file under it, which `replaced` records (`BeingRead`, `HasRead`). A text that begins another has its lines whole, and
  a process serves only what it could read (`Judged`). An ingest under way has planned one row for each of its chunks
  (`Planned`) and what it has written is what it planned (`Written`), so that one that ends leaves
  a whole index (`Ended`), whatever it found. That vectors are by the model of `meta.json` needs
  the two names a row file can stand for: the model of the old meta until the ingest opens the
  file, and its own afterwards (`Embedded`). This part is stated for histories without an
  interrupted ingest; the run `index_bundle_model` shows that it fails with one.
* `ChunkingProofs!DocumentsAreExact`: the chunker, for every document. It rests on one idea: each
  text on the way from a document to its chunks is an `Excerpt`, lines of the document in its order
  before each of which the fence is open that is open in the document, with an empty line where
  lines were left out and nothing open where it ends (`Closed`). Sections are excerpts one after
  the other (`SectionsAreExcerpts`), and so are merged ones (`MergedAreExcerpts`). Because the
  fences agree, the second loop over lines finds the same blocks in a section as there are in the
  document: `Whole` ones, which do not end inside a fence, and it leaves out blank lines only
  (`BlocksAreWhole`). Packing puts each block into a chunk and never lets one begin before its
  predecessor; the overlap is measured, so what a chunk has beyond the target is an overlap or one
  block (`PackedAreChunks`). Last, a chunk's text, read again, has the blocks it was joined from
  (`JoinedText`): the empty line between two blocks is outside of every fence. So the bound that is
  proved of the blocks holds of the text that is written. A fenced block lies within the block of
  its first line (`FencedIsWithin`), also one that is never closed.

  Each loop has an invariant that its next round keeps (`ReadStep`, `MergeStep`, `GatherStep`,
  `PackStep`, `JoinStep`, `CutStep`). The induction over rounds is over the numbers in a set
  (`SetInduction`), from the greatest element of a finite set; that the recursive function of a
  loop exists, for which the library's theorem takes an operator, is proved in the same way
  (`Recursion`).
* `IndexBundleProofs!ChunksOfIngestsAreExact`: `ChunksAreExact`, with it. `LineKind` and `MaxLines`
  bound what TLC enumerates; in the proof they are any set of kinds and any number.
* `VectorStoreProofs!ClientOutlivesItsHolders`: `RegistryCountsHolders`, together with two facts
  the later proofs need: one constructor at a time in a process, and one process at a time in an
  embedded folder. Each action adds a store to the holders of its process, takes one away, or
  leaves them.
* `VectorStoreProofs!NoVectorsOfOthers`: every point of a collection is of an index with the
  collection's name (`PointsAreOwn`), and names tell indexes apart.
* `VectorStoreProofs!StoresServeTheirIndex` and `NothingSupersededRemains`. `ServesItsIndex` says
  nothing of constructors, so the invariant `Progress` gives each step of one what its collection
  holds by then. The points of step "upsert" are the ids below its cursor; a complete collection
  is recognised by its size because it holds only its own points (`CurrentIsWhole`); and while one
  store writes, no store of embedded mode is ready (`WriterAlone`).
* `StreamingProofs!PipelineIsKept`: a run that is not finished has a handler that will await it
  (`Tended`), what waits for a thread is a waiting run, once (`Pooled`), and a server that is down
  has no handlers (`Served`).
* `StreamingProofs!ClientSees`: the queue of a socket, continued by the loop, holds the events of
  its current run from the first the client does not have to the last the thread has emitted
  (`GoesOn`), and the client has those before (`Shown`). Runs are told apart by one bit, so an event of the
  run before last would pass for a current one; `Ordered` says why there is none: on the loop the
  messages of the run before come first (`InOrder`), and a handler gives a run up only upon a
  message of it, by when those are gone (`Drained`).
* `StreamingProofs!TellsAsPromised`: the sockets implement `EventStream`, step by step (its
  `Safety`; that every request is answered is liveness). An abstract "tell" is the next event with
  its number, which `GoesOn` gives, and numbers stay within the run (`Bounded`). A client may only
  ask again when it has had its last message (`Settled`), also when its run raised. That needs a
  look ahead: once a thread of a query has come to its end, its answer is in the queue or on the
  loop, and before the end of the queue (`Concludes`). A handler that is gone or gives its run up
  has no client any more (`Away`).
* `SweepProofs!SweepKeepsStudy`: the sweep implements `Study`, step by step. A collected diff is
  mapped to its cell, so the invariant says that the rows a case has are those of its first
  ablations (`Rows`), that what main has collected contains each row of a collected case once
  (`Collected`, `Found`), and that a report is that of all cases (`Reports`), by injections between
  rows and cells. `HarmlessMeansMeasured` follows from the same invariant: a verdict counts rows,
  and no two rows are of one case and ablation.
* `SweepProofs!CachesKeepApart`: every value of a cache lies under the key of a call that the run
  which computed it makes (`StageKeys`, `EmbedKeys`). The lookup and the store of a run are apart,
  so the statement is about the caches, not about who looked first.
* `SweepProofs!OneUsagePerCall`, `LostRunsSayError`, from the invariant that a case under way has
  made a prefix of its plan (`Busy`); `PipelineOutlivesItsWorkers`, because main drains the pool
  before it leaves (`Lifecycle`); `OnlyFaultsAbort`, because every raise was a fault (`Blamed`) and,
  as a lemma of its own, every applicable config is comparable with its base
  (`AlwaysComparable`).
* `EvalRunProofs!BlindnessFailsBuilds`: a crash that blinds an evaluation has blocked it already, or
  will show in the rate of the summary, because fewer traps are scored than done (`Noticed`,
  `Pending`). `NewFailuresFailBuilds`: what was accepted is what the baseline file knows, and each
  crash of this evaluation is among the failures of its findings (`Recorded`).
* `EvalRunProofs!NothingStaysHidden`: a suite still to run has no findings, and one that was run has
  one for each of its cases or stands as broken (`Queued`); the one under way has those of its first
  cases, in order (`InStep`); the client has been sent what is known (`Sent`), and the report and
  the summary are about the same findings (`Shown`).
* `TypeInvariant` of `VectorStoreProofs`, `StreamingProofs`, `SweepProofs` and `EvalRunProofs`, and
  `IndexBundleProofs!TypeCorrect`.

The assumptions on the constants are those of `CorpusAssumption`, `PipelineAssumption`,
`IndexBundleAssumption`, `ChunkingAssumption`, `VectorStoreAssumption`, `StreamingAssumption`,
`SweepAssumption`, `ChatCallAssumption`, `CacheAssumption`, `SuitesAssumption` and
`EvalRunAssumption`; TLC evaluates them in the runs. Two of them name what the model reserves: no state of a corpus is called "none" or
"torn", the marks of a missing and of a cut meta file, and no trap has the id `__rate__`, which the
suite gives its aggregate finding.

So every invariant and every action property of a passing run is proved. Only model-checked:

* `SocketComesBack`, `StopsWhenTold`, `SweepEnds` and the part `Answered` of `KeepsPromise`:
  liveness under fairness is out of the prover's reach.
* The runs that exhibit a disagreement: each is one behaviour of one instance.

## What is not modelled, and why

* Numbers that only measure: token counts, costs, latencies, hashes of prompts.
* Text: prompts, response parsing, tokenisation, the concept simulator. Pipeline chooses what
  they return.
* Remote and offline providers: prompts, the parsing of replies, a deterministic text simulator. No
  state; `Pipeline` and `Sweep` choose what they answer.
* HTTP routes, the web inspector, the generator of types, argument parsing and printing, the corpus
  generator, calibration of thresholds and the scripts: they keep no state of their own that the
  properties above speak of.
* `SemanticAnswerCache`, which the program never constructs; `AblationRegressionSuite`, which it
  never runs; the hit counters of the caches and the lengths of pauses.

Facts met while modelling that no run shows:

* A collection's fingerprint does not cover the chunker: an index cut by changed rules into the
  same number of chunks keeps its collection (`vectors.py:264-283`). `VectorStore` assumes that
  two indexes differ in corpus, model, dimension or size.
* A constructor that raises in `_sync` keeps its reference to the client (`vectors.py:259`). The
  model has it (`leaked`); nothing forbids it.
* On a server, an exception of `get_collection` for a live collection counts as "missing" and
  recreates it (`vectors.py:341-350`), so a store may answer from an incomplete collection while
  another process syncs. `ServesItsIndex` is stated for embedded mode only.
* A prefix of a new `chunks.jsonl` over old vectors that cover it loads without complaint, an emptied
  one too (`chunks.py:228-233`): only chunks that were read are looked up. The model has it, and
  `LoadedCanBeSearched` says "the first of one state".
* A reader inside a file that an ingest empties may load a line put together of two, if the halves
  meet inside the text of a chunk or the digits of a vector. Of whole lines of two states a file may
  be put together too. The program has no check against it; `LoadedCanBeSearched` excepts it.
* Such an index has the size and the meta of a whole one, so its collection has the fingerprint of
  that one. `VectorStore` assumes that two indexes differ in what the fingerprint reads.
* `run` raises before its `try` when `assert_deterministic` refuses the config or a provider cannot be
  built (`pipeline.py:129-150`): no trace and no event. A run of `Pipeline` begins behind that.
* A Qdrant server returns hits of any sign, and orders equal ones as it likes
  (`vectors.py:380-420`). `ServerHits` has any order; a score below zero is a zero in the model. The guards read both alike;
  the naive sum would weigh them differently, but what it sums is a choice of the model anyway.
* Ablations that do not compose end the socket without an error event (`ws_stream.py:66`);
  `Streaming!Die`.
* An evaluation may be confirmed without an estimate having been asked for (`ws_eval.py:88-102`).
* An ablation whose every run failed gets the verdict "changed the answer, not its correctness": the
  table has no column for `error`, and the verdict looks only at the columns
  (`counterfactual.py`, `render_report`). `NoEffectMeansMeasured` is about the other verdict.
* A raise of the judge, of the trace sink or in a baseline aborts the whole sweep and loses the diffs
  made so far; one in a run of an ablation is a row that says `error`. `Sweep` has both.
* The retry loop waits once more after its last attempt, before it gives up
  (`oaicompat.py`, `_call`).
* A hit in the stage cache counts the tokens and the cost of the cached call again; a hit in the
  embedding cache counts none. Hit counters and verdict counts are updated without a lock.
* `exit_code`'s comment says "any change to the failure set"; a failure that is fixed changes the set
  and passes, and a known one of severity HIGH passes too. The comment in `_summary` of
  `silent_failure.py` says that MEDIUM does not trip the exit code; a *new* failure of any severity
  does.
* A positive control of the isolation suite that crashes is only MEDIUM, so it blocks as a new
  failure and not as a blind suite. `BlindnessBlocks` names the cases it covers.
* The probe `cache_namespace` reports a leak when both tenants are given the same text of a refusal.
* `TwoWayJudge` is not symmetric: degraded then contradictory is degraded, the other order is
  unstable. Two unstable verdicts are not counted as unstable.
* A baseline written by an evaluation whose suite broke records `__suite__` as a known failure, so
  that the next break of that suite passes as known.
* A chunk may be longer than the target by its overlap: the size is not checked again after the carry.
  A carry that is the whole buffer makes a chunk a prefix of the next.

## Plan

What is left, in the order of its worth:

1. Proofs: lemmas about the operators of `Outcomes` and `Judge` that no theorem uses yet; what an
   ingest leaves for the next one after a crash; from which state of a server `ServesItsIndex`
   would hold.
2. The BM25 index that the lexical store builds on demand, when two runs of a tenant search at once.
3. The projection cache of the HTTP routes, and the live provider's parsing of partial rankings.
