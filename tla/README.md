# InstinctFlash in TLA+

A verification development of the stateful core of InstinctFlash: the code that
keeps something between two calls, where the order of calls, a raised exception,
a second connection or a reset in the wrong place can change what a robot is told
to do without anything failing visibly. Arithmetic is left to the repository's
own bit-exactness gates; here it is *which* slot, *which* graph, *which* episode,
*which* process, *which* plan.

Modules are translated from `src/instinctflash`, one from
`src/examples/pi05_vla`. `PROJECT.json` maps every definition to the lines it
stands for and lists the runs, theorems, hazards and findings.

- [The system](#the-system)
- [The modules](#the-modules)
- [The runs and their bounds](#the-runs-and-their-bounds)
- [Disagreements between code and documentation](#disagreements-between-code-and-documentation)
- [Fairness](#fairness)
- [What is proved](#what-is-proved)
- [What is only model-checked](#what-is-only-model-checked)
- [Not modelled](#not-modelled)
- [Plan](#plan)

## The system

InstinctFlash runs vision-language-action policies: a checkpoint is described, a
plan of passes is chosen, a backend hosts the model, and a server or a program
asks it for actions, one control cycle after another. The model this project
cares most about is LingBot-VA, a video-action diffusion transformer with a KV
pool that lives as long as an episode.

```
 clients ──ws──> WebsocketPolicyServer ──> Runtime/Episode ──> backend (in process, or worker subprocess)
                  (event loop + 1 worker      ▲                     │
                   thread) ──> viewer         │             _ControlLoop (reset, predict, commit)
                                     load path: precision,          │ forwards: transient/provisional/commit
                                     schedule, plan, placement   KV pool: mask allocator │ ring  <── action-terminal elision
                                                                    │
            weights: streamed blocks ──> block stack: eager │ captured graphs  <── stable pools, certificate
```

### Components

| component | state it keeps | operations | what is hard | what makes it correct |
|---|---|---|---|---|
| **KV slot pool** `engines/wan_va/pool.py` | per slot: live, id, provisional | append (grants slots, evicts), clear_pred, live | wrap-around with two forward sizes, stale ids in freed slots, overflow after eviction | ids order live slots by age; it is a window over the newest tokens |
| **GI VA engine** `engines/wan_va/engine.py` | the pool and its K/V | forward; the trailing action forward takes slots but is not computed | a skipped forward must never be read, its eviction must happen | computed forwards read what they would have read with nothing skipped |
| **Ring KV addressing** `passes/lingbot/ring_kv.py` | interval (start, count, pred), the stock bookkeeping, plan buffers | init, clear_pred, forward, commit | contiguous blocks in a circular pool, two records of one live set, buffers refreshed ahead of time | blocks never wrap; same keys, same order; the stock code could take over |
| **Action-terminal elision** `passes/lingbot/action_terminal_elision.py` | a stashed forward, a sticky disable | stash, materialize, reserve, drop | the slots of the elided forward are reserved later than they would have been | same slots kept, same reads, fail-closed |
| **Control loop** `adapters/lingbot_va.py` | the pending action | reset, predict (folds the pending action in first), commit | a call that raises half way and is retried | as far as the pool allows: what is committed is computed |
| **Policy server** `serving/ws_server.py` | the episode handle, its prompt, the executor's queue, the lifecycle | serve, shutdown, wait_ready, receive, reply, open an episode | three kinds of threads, one implicit episode shared by all connections, raising calls | an action comes from an episode of the request's prompt; everything is answered; it stops |
| **Viewer sink** `serving/viz.py` | a bounded queue, its drain thread | emit, drain, close | a full queue at close, a drain that hangs in the viewer's library | serving never waits for it, and `close()` waits for the drain no longer than its timeouts; what `rerun_shutdown()` does after that is the library's |
| **Worker backend** `runtime/execution.py` | child process, port, client | spawn, wait, call, close | port chosen long before it is bound; deadlines; children that die, hang up, or listen and never answer (no timeout and no ping there) | no orphan, its own worker answers, a lost conversation is not carried on by another |
| **In-process backend** `runtime/execution.py` | the model, its history | build, seed, reset, predict, commit, close | generators shared by the process; calls that raise half way | history is what was answered; a seeded episode repeats |
| **Load path** `runtime/facade.py`, `precision.py`, `step_cache_policy.py`, `engine_backend.py`, `planners/` | the plan as each stage rewrites it | resolve, compile, exclude, choose, build | five stages, each over the last one's result | what serves is permitted and was asked for |
| **Autotuning** `autotune.py` | one cache file of the host, a temporary file | decide, look up, measure, store | processes with other ceilings, processes that die, two storing at once | choices respect ceiling and verification; a crash leaves the last document |
| **Step cache** `runtime/step_cache.py` | last two predictions, countdown, counters | begin, decide, record, reuse, end, abort, close | recording that raises, countdown arithmetic, generations that end early | within its byte budget; reuses as granted; latest prediction of this generation |
| **Tensor result cache** `runtime/tensor_cache.py` | entries in order of use, bytes | get_or_compute, clear, close | a reentrant lock held while the caller computes | no stale hit, bytes counted |
| **Module residency** `runtime/module_residency.py` | the active block, its device copies | enter, leave, close | re-entry, failing transfers, replaced weights | forwards run on copies of their masters, within budget |
| **Graph block stack** `passes/lingbot/graph_capture.py` | captured graphs by key (LRU), the failure latch | capture, replay, eager fallback, keep or drop at reset | a stale graph raises nothing, it computes from the wrong memory | equal to the eager server; no graph into released storage |
| **Stable pools** `passes/stable_pools.py`, `adapters/lingbot.py`, `runtime/lingbot_worker.py` | kept storage per site, baseline addresses, pending sites | wrapped allocation, certification at each reset | the certificate must fail closed and still succeed eventually | kept graphs read live storage; they survive from the third reset |
| **Graph tables** `passes/graph_capture.py`, `executors/executor.py`, `executors/binding.py` | graphs by slot, stable arguments, what is unvalidated or rejected | capture, validate, replay, evict | metadata keyed by address, eviction, captures that fail | answers are eager's |
| **pi05 static capture** `examples/pi05_vla/pi05_iwm/static_capture.py` | static K/V and buffers, one step graph, one chunk graph, step tables | warm up, capture, self-check, replay, release | refill by object identity, two modes and two schedules over the same buffers, checks that raise | a checked graph's replies are upstream's |
| descriptors, other passes, adapters and engines, kernels, training, certification, command line | none between calls, or none that a call order can break | | | see [Not modelled](#not-modelled) |

### Interactions

- The **server** serializes all requests on one worker thread, which opens an
  episode (resetting the runtime) or predicts in the one it has. `PolicyServer`
  models the server and what it needs of the runtime: a reset returns or raises,
  a prediction returns or raises. `ViewedServer` adds the viewer that both of the
  server's threads feed and that the command line closes after `run()`.
- A failed prediction leaves the server's **episode open**, so a client may ask
  again in it. That is where the `Abort` of `ControlCycle` comes from: the
  control loop is called again in whatever state the exception left the pool.
- The **control loop** decides which forwards the pool sees; `ControlCycle` is
  the environment of every pool module and is conjoined with their actions.
- **Elision** hooks the pool's `clear_pred_cache` and `clear_cache`; **plan
  buffers** of the ring exist for the **graph stack**, which replays forwards
  without running their host code; the **stable pools** decide whether its
  graphs may outlive a reset.
- The **load path** decides which of the **backends** hosts the model and which
  passes, among them the ones above, are installed at all; after that it is not
  consulted again.

## The modules

Operators introduced by the comment `A slip:` are the mistakes a change to the
code could plausibly make. They stand before the definition they corrupt, are
used nowhere in the specifications, and serve to show that a property notices.

| module | models | state and actions against the code |
|---|---|---|
| `KVWindow` | *abstract*: what any KV pool promises, a window over the newest tokens | no code: the specification `SlotPool` implements, and `RingServer` while no call raises |
| `Ranking` | ordering a finite set by a relation | helper |
| `SlotPool` | `pool.py` with the write and the read around it | `mask`, `ids`, `is_pred` are the tensors; `owner` (which forward a slot was granted to), `kv` (whose K/V it holds) and `seen` (what attention last read) are history. `Forward` = append, then write and attend; `Overflow` = the append that raises after evicting |
| `ControlCycle` | `_ControlLoop` and the phases `lingbot_va_spec` declares | `phase` is the position in the cycle; `Issue` one forward of either loop or commit; `Return` the end of a call, the prediction's or the one that committed; `Abort` the exception, before, between or after the forwards of a call: the pending action stays pending until the call that commits it has returned, a prediction starts over |
| `RingKV` | `ring_kv.py` | `start`, `count`, `pred`, `next_id` are the `_ring` dict, `plan` the plan buffers. `Forward` is the attention hook and the commit that follows it |
| `RingServer` | ControlCycle driving RingKV | `Periods` is the validity condition of the pass: a whole number of cycles fits the pool |
| `RingParity` | ring and stock pool under one cycle | the bit-exactness argument: same slots, same order |
| `ActionElision` | `ElisionController` over mask and ring, next to a reference | `pending` is the stash; `owed` the rest of a hook that has done its first half (`Materialize`, `Reserve`) |
| `EnginePool` | the engine that skips the trailing action forward, fourth pool beside the three of `ActionElision` | `EngineForward` issues the forward to all of them |
| `PolicyServer` | `ws_server.py` | `life` is the program counter of `run()`; `conn`, `request` a handler; `queue`, `job` the executor; `episode`, `episodePrompt` the server's fields; `runtime` what the runtime was last reset for |
| `ViewedServer` | PolicyServer with `viz.py` and the closing in `cli.py` | `records` is the queue, `drain` the drain thread, `viewer` where `close()` stands, of which `LibraryShutsDown` is the call into the library; sending an action and opening an episode also emit |
| `WorkerBackend` | `execution.py`, WorkerBackend | `pc` is where a call stands (`greet` and `infer` are its two `recv()`), `worker` the child, `conversation` what became of the connection that answered; ports are chosen in `Init` as `__init__` does |
| `HostedEpisodes` | `execution.py`, InProcessBackend | `predicted`, `committed` are what the model went through, `returned` and `stray` what the caller saw; `drawn` the state of the process's generators |
| `LoadPath` | `from_pretrained` to a backend that serves | `stage` is the program counter, `plan` the results of four passes that stand for the registry; one action per stage, `Refusals` for the errors |
| `Autotune` | `autotune.py` | `call` is each process's place in a call; `tmp` and `cache` the two files; `opened` which file a descriptor leads to (it follows the rename) |
| `StepCache` | `step_cache.py` | every method holds one lock, so a call is a step; similarity is a level chosen freely |
| `TensorCache` | `tensor_cache.py` | `asking` is each thread's stack of computations under the reentrant lock; `Miss` and `Store` are the two ends of a computation, `StoreRaises` a clone that fails after entries went |
| `ModuleResidency` | `module_residency.py` | `place` is what each dictionary entry of a block is (master, copy, replaced); `frames` the stack of forwards; hooks before and after are `Enter`/`EnterStops`/`Refuse` and `Return`/`Raise` |
| `GraphStack` | `graph_capture.py` (lingbot) and `lingbot/stable_pools.py` over RingServer | a graph is a record of what its capture baked in: key, storage, write head, slots read |
| `PoolCertificate` | `stable_pools.py` with the surface and the certificate | addresses only: `at`, the boxes of wrapped sites, `pending`, `baseline`, the addresses of each graph |
| `GraphTable` | `passes/graph_capture.py` and `GraphExecutor` | `entries` are the graphs with what their capture saw, `stable` the arguments kept, `unchecked` the pending validations; metadata is an object at an address |
| `StaticCapture` | pi05's `static_capture.py` | `held` is whose prefix the static K/V holds, `begun` the cache object of the last refill, `modulation` the timestep in the step buffer; `Step` is `__call__`, `Sample` is `sample_actions`; `kernels` is what a replay computes |
| `RingOrder` | *lemmas*, over no variables: sets in the order of a key, the window that live slots encode, the mask allocator on any pool, and on one whose live slots form a ring | what the two pools' proofs share |
| `SlotPoolProofs`, `RingProofs`, `ElisionProofs`, `GraphProofs`, `PolicyServerProofs`, `ServingProofs`, `MemoryProofs` | theorems about the modules each extends or instantiates | see below |

`MC<module>` extends a module with what its configurations need; the bounds are
in the `.cfg` files. Three of them host several components that share no state:
`MCMemory` (SlotPool, StepCache, TensorCache, ModuleResidency), `MCGraphs`
(GraphStack, PoolCertificate, GraphTable, StaticCapture) and `MCServing`
(WorkerBackend, LoadPath, HostedEpisodes, Autotune). A variable `part`, chosen
once, says which component a behaviour runs; the others keep their initial
values, and properties of a component hold or fail exactly as they would alone.
`WithinBudgets` in `MCMemory` is the conjunction of `BytesAreCounted`
(TensorCache) and `PeakWithinBudget` (ModuleResidency).

Two abstractions are shared by the pool modules. *A token is known by the stamp
of its forward*: all tokens of a forward enter and age together, so the stamp and
the slot say everything attention can observe apart from the numbers. *One layer
stands for all thirty*: the layers of a forward do the same bookkeeping with the
same head. The graph modules share a third: *a graph is what its capture saw*,
and a replay returns that, or what is there now, depending on what the region's
kernels do (read their inputs again, bake them in, overflow).

## The runs and their bounds

| run | question | bounds, and why they suffice |
|---|---|---|
| `RingParity` | the ring under the cycle, next to the stock pool, in episodes no call raised in: never wraps, one live set, plan current, moves as `KVWindow` does, same keys in the same order | 2 + 1 tokens, pool of two periods, 15 forwards (more than three rounds of a pool of 6 when no loop is long), resets anywhere, plan buffers on, one transient forward per loop, one call that raises; 68 000 states |
| `ActionElision` | eliding is invisible on mask and ring, and a stashed forward is settled, run or reserved, as if in its place; skipping in the engine is invisible, and a commit reads computed K/V only | 6 slots, 13 forwards, the traced configuration, one call that raises; 174 000 states |
| `PolicyServer` | the server's safety and liveness, with a viewer | 2 connections, 1 prompt or none given: one connection to rotate or fail an episode, one to suffer it; a viewer queue of 1, so that it is full as soon as one record waits. The graph is complete (162 000 states), no step is counted |
| `Memory` | *slots*: any order of operations on the mask allocator; ids tell age, implements `KVWindow`. *Steps*: budget, runs of reuse, provenance. *Results*: no stale hit, bytes counted. *Blocks*: forwards are exact, the peak fits | 5 slots, forwards of 1, 2 and 6 tokens (6 overflow), five deep: wraps, splits a block by evicting half of it. Skip counts ⟨4, 2⟩, sizes 1 to 3 in a budget of 3 (one size fits twice, one only alone, one too often), 9 slots, so that a run of 4 ends before the schedule and at it, 2 generations. Two threads, three keys, two entries, two invalidations. Two blocks of two tensors, budgets with and without room for a resident block, calls two deep, one replaced tensor; 443 000 states |
| `Graphs` | *stack*: equal to the eager ring server, graphs live. *Certificate*: fails closed and succeeds from the third reset. *Table*: answers are eager's. *Static*: replies are upstream's | 16 forwards in a pool of two periods, so that the ring saturates and graphs go from baked write slots to plan buffers; 3 graphs (fewer than the keys met), one reallocation, one call that raises. 2 pools, 1 cross-attention K/V, 4 addresses, so that a moved site may take an address another one left. Tables of 2 graphs, 2 extents, 3 metadata objects over 3 addresses. A schedule of two steps and another of one, warm-up of 2, 5 chunks: warm-up, capture, replay and a further chunk of each kind; 1.7 million states |
| `Serving` | *workers*: no orphan, own worker, lost conversations, calls wait for nothing but a silent worker. *Load*: permitted and asked for. *Cycles*: history, seeded noise. *Tuning*: sound choices, crashes | 2 backends on 2 ports, equal or not. Every request of three families, four placements, all ceilings, exclusions and devices. 2 runtimes, 3 cycles. 2 processes, 3 candidates (one above the ceiling, one that claims equality falsely); 356 000 states |
| `RingParityRetry` | can the assertion of the allocation fire after a retry? (it can) | 18 forwards, one call that raises |
| `PolicyServerErrors` | is an error a request's own? (not always) | as `PolicyServer` |
| `PoolCertificateLateSites` | a first reset without a prompt (fails open) | as the certificate of `Graphs` |
| `GraphTableValidation` | is a region that bakes its input in discarded? (no) | as the table of `Graphs` |
| `ModuleResidencySwaps` | are replaced weights refused? (once) | as the blocks of `Memory` |
| `StaticCaptureUnchecked` | does every graph that serves have a verdict? (no) | warm-up of 3, otherwise as in `Graphs` |

Exceptions are part of every run over the control cycle: a call may raise before
its first forward, between two, or after the last. `clean`, a history
variable of `ControlCycle`, says that none was raised in the present episode;
what a retry is known to break is claimed for clean episodes only, and what it
does not is claimed throughout.

`CHECK_DEADLOCK FALSE` appears where the system really may stop: the server after
its shutdown, the stores of `Memory` once they are closed or their bound on
forwards is used up (the caller could go on, the model stops counting).

Every property of a passing run is also checked against a slip, which must
violate it (`mutants` in `PROJECT.json`).

## Disagreements between code and documentation

Six runs expect a violation; each is a sentence of the repository that the code
does not keep. `PROJECT.json` quotes the lines.

1. `RingParityRetry`: a prediction that raises after provisional forwards and is
   *retried in the same episode* finds them still in the pool, and the assertion
   of the ring's allocation can fire. A reset instead of a retry avoids it. The
   same retry costs the other guarantees that are stated for clean episodes: the
   ring's order of keys can differ from the stock code's; once the abandoned
   predictions and the retried one outnumber the cycles the pool holds,
   `clear_pred` takes more tokens off the ring's tail than it has, and its window
   is no longer the newest tokens (`ImplementsWindow` speaks of clean episodes);
   the engine's retried prediction reads the slots of the forward it skipped, and
   the refresh of the plan buffers may skip one, so that a graph replayed through
   it writes at an old head.
2. `PolicyServerErrors`: an episode that fails to open leaves the closed handle
   to everybody else.
3. `PoolCertificateLateSites`: a first reset without a prompt leaves the
   cross-attention K/V out of the certificate.
4. `GraphTableValidation`: "check the graph against an input it was NOT captured
   from" is done in the capturing call, on the captured input.
5. `ModuleResidencySwaps`: the refusal of replaced weights puts the original ones
   back, and the next call runs on them.
6. `StaticCaptureUnchecked`: the graph is published before its self-check; a
   check that raises leaves it there, and later steps replay it.

Others were read off the code while modelling and have no run of their own.

- `ws_server.py:209`: a `shutdown()` before `run()` has made its stop event is
  lost. `ws_server.py:296`: the viewer gets the marker of an episode before the
  records of replies not yet sent, which are filed under the wrong episode.
- `execution.py:315`: a backend whose port was also given to another one may be
  served by that one's worker, which is why `ServedByOwnWorker` asks for a port
  of one's own. `execution.py:410`, `417`: both `recv()` have no timeout, and line
  408 turns pings off, so that a worker which listens and sends nothing blocks its
  caller for good; `OnlyTheWorkerIsAwaited` is stated with that exception.
  `execution.py:318`: a worker that died is not replaced; every call raises until
  the owner closes the backend.
- `viz.py:91`: `rerun_shutdown()` has no timeout, and `cli.py:752-755` closes the
  viewer before the runtime, so that a library that hangs there keeps the runtime
  from being closed.
- `autotune.py:161`: two processes that store at once share the temporary file.
  One may rename it away under the other, whose call raises ("never raises",
  line 192), or the cache may be torn, against the docstring at lines 155-156;
  `TornOnlyByOverlap` is stated with that exception. A cached choice of a
  process without `verify` is not "a decision that was verified" (lines 203-205).
- `facade.py:84-88`: "two runtimes with the same seed and the same inputs produce
  comparable outputs" does not hold for two runtimes of one process driven
  alternately, which share its generators; `SeededEpisodesRepeat` excepts them.
- `graph_capture.py:138`: the region is run before the generators' state is saved
  (line 157), against the comment at lines 147-156. `executor.py:74-76`: with
  `extent_bucket` above 1 a graph is replayed for an extent other than the one it
  was captured with. `executor.py:117-126`: a failed capture leaves its stable
  arguments, which are never evicted.
- `planner.py:108-124`: `Plan.without` may drop a pass the checkpoint requires,
  where `bitexact_subset` refuses; pi05's adapter checks again.
- `module_residency.py:133`: a refused re-entry restores the masters under the
  forward that still runs.
- `static_capture.py`: the whole-sample check keeps its worst difference with
  `max()` (line 951), and `max(0.0, nan)` is 0.0, so that a replay that is not a
  number passes. With whole-sample graphs and step tables, steps of another
  schedule that have put the tables in place make the first sample of the fixed
  one read a stale modulation (lines 678-687). A capture that raises leaves an
  unusable graph, and every later step raises (line 760). A fixed schedule that
  uses up `WARMUP_STEPS` leaves the table empty, and the first step of another
  one fails at line 752. `RepliesAreUpstreams` is stated with the first two as
  exceptions; the last two raise, and a step that raises returns nothing.

## Fairness

Only the server and the worker backend state fairness, for their liveness
properties.

- `PolicyServer`, `ViewedServer`: weak fairness of `run()`, of the worker thread
  and of each connection's handler. asyncio runs every ready callback and the
  executor's thread takes the next work item; a call of the runtime returns or
  raises. With the viewer also of the two steps of `close()` that have timeouts,
  the put and the join; its last step, `rerun_shutdown()`, has none, and
  `LibraryShutsDown` may never be taken. Nothing is assumed of clients, of
  `shutdown` callers, of `Bind` succeeding, or of the drain thread, which may hang
  in the viewer's library.
- `WorkerBackend` (and `MCServing`): weak fairness of `TimedStep`, the steps of a
  call that wait for nobody or no longer than a timeout: the wait for the port,
  the connection, whose handshake the library limits, SIGTERM and SIGKILL, and the
  end of a `recv()` whose connection is gone. Nothing is assumed of the worker: it
  may load for ever, die or hang up at any time, or never send its metadata or an
  answer. A child that survives SIGKILL is not modelled.

## What is proved

| theorem | statement | assumptions |
|---|---|---|
| `SlotPoolProofs!PoolTypes` | `Spec => []TypeOK` | none beyond the constants' types |
| `SlotPoolProofs!IdsAlwaysTellAge` | `Spec => []IdsTellAge` | |
| `SlotPoolProofs!OldestAreEvictedFirst` | `Spec => EvictsOldestFirst` | |
| `SlotPoolProofs!PoolIsAWindow` | `Spec => ImplementsWindow`, the refinement of `KVWindow` | |
| `RingProofs!RingTypes` | `ServerSpec => []TypeOK` | `PeriodAssumption` |
| `RingProofs!AllocationNeverWraps` | `ServerSpec => []NeverWraps` | `PeriodAssumption` |
| `RingProofs!PlanStaysCurrent` | `ServerSpec => []PlanIsCurrent` | `PeriodAssumption` |
| `RingProofs!StockTakesOver` | `ParitySpec => []StockCouldTakeOver` | `PeriodAssumption` |
| `RingProofs!RingReadsAlike` | `ParitySpec => SameKeysInOrder` | `PeriodAssumption` |
| `RingProofs!RingIsAWindow` | `ParitySpec => ImplementsWindow` | `PeriodAssumption` |
| `RingProofs!RingRefinesWindow` | `ParitySpec /\ []clean => Window!Spec`, the refinement of `KVWindow` | `PeriodAssumption` |
| `ElisionProofs!ElisionReadsAlike` | `ElisionSpec => ElisionIsExact` | `PoolAssumption`, `NothingAssumption`; for the ring's half `CycleAssumption` |
| `ElisionProofs!SettlesInPlace` | `ElisionSpec => SettledInPlace` | `PoolAssumption`, `NothingAssumption`; for the ring's part `CycleAssumption` |
| `ElisionProofs!SkipReadsAlike` | `EngineSpec => SkipIsExact` | `PoolAssumption` |
| `ElisionProofs!CommitsReadComputed` | `EngineSpec => CommitReadsComputed` | `PoolAssumption` |
| `ElisionProofs!EngineRunsElision` | `EngineSpec => ElisionIsExact /\ SettledInPlace` | as above |
| `PolicyServerProofs!ServerTypes` | `Spec => []TypeOK` | none beyond the constants' types |
| `PolicyServerProofs!ActionsServeTheirPrompt` | `Spec => []ServedUnderItsPrompt` | |
| `PolicyServerProofs!WaiterAlwaysHearsWhy` | `Spec => []WaiterHearsWhy` | |
| `PolicyServerProofs!ExecutorEndsEmpty` | `Spec => []NothingLeftAtStop` | |
| `PolicyServerProofs!EpisodesAreFinishedFirst` | `Spec => FinishedBeforeOpening` | |
| `PolicyServerProofs!ViewerAddsNothing` | `ViewedSpec => Init /\ [][Next]_vars` | |
| `PolicyServerProofs!PromisesHoldWhenViewed` | the four before it, of `ViewedSpec` | |
| `PolicyServerProofs!NothingIsRecordedLate` | `ViewedSpec => []DrainEndsEmpty /\ NothingRecordedLate` | `ViewerAssumption` |
| `ServingProofs!BackendTypes` | `Spec => []TypeOK` | none beyond the constants' types |
| `ServingProofs!NoWorkerIsOrphaned` | `Spec => []NoOrphan` | |
| `ServingProofs!OneWorkerAtATime` | `Spec => OneWorkerEach`, an action property stated there | |
| `ServingProofs!ConversationsAreNotReplaced` | `Spec => NoSilentReplacement` | |
| `ServingProofs!AnsweredByOwnWorker` | `Spec => []ServedByOwnWorker` | |
| `GraphProofs!CertificateTypes` | `CertificateSpec => []CertificateTypeOK` | none beyond the constants' types |
| `GraphProofs!CertificateFailsClosed` | `CertificateSpec => []KeptGraphsAreLive` | `PromptFirst` |
| `GraphProofs!GraphsSurvive` | `CertificateSpec => SurvivesFromThirdReset` | |
| `GraphProofs!GraphsStayLive` | `StackSpec => []GraphsAreLive` | `GraphAssumption` |
| `GraphProofs!StackImplementsRing` | `StackSpec => ImplementsRing`, the refinement of `RingServer` | `GraphAssumption`, `PeriodAssumption` |
| `GraphProofs!AnswersStayEager` | `TableSpec => []AnswersAreEager` | `TableAssumption` |
| `GraphProofs!RepliesStayUpstreams` | `StaticSpec => []RepliesAreUpstreams` | `CaptureAssumption` |
| `MemoryProofs!ControllerTypes` | `ControllerSpec => []ControllerTypeOK` | none beyond the constants' types |
| `MemoryProofs!BudgetIsKept` | `ControllerSpec => []RetainedWithinBudget` | |
| `MemoryProofs!ReuseIsGranted` | `ControllerSpec => []ReuseRunsAreGranted` | |
| `MemoryProofs!LatestIsUsed` | `ControllerSpec => []OutputsAreLatest` | |
| `MemoryProofs!CountersAlwaysAddUp` | `ControllerSpec => CountersAddUp` | |
| `MemoryProofs!HitsAreNeverStale` | `CacheSpec => []NoStaleHit` | `CacheAssumption` |
| `MemoryProofs!BytesAreAlwaysCounted` | `CacheSpec => []BytesAreCounted` | `CacheAssumption` |
| `MemoryProofs!PeakStaysWithinBudget` | `ResidencySpec => []PeakWithinBudget` | `ResidencyAssumption` |
| `MemoryProofs!BudgetsAreKept` | `CacheSpec /\ ResidencySpec => []WithinBudgets` | both |
| `MemoryProofs!ForwardsAreAlwaysExact` | `ResidencySpec => []ForwardsAreExact` | `ResidencyAssumption` |
| `MemoryProofs!MastersAlwaysReturn` | `ResidencySpec => []MastersReturn` | `ResidencyAssumption` |
| `ServingProofs!SeededEpisodesAlwaysRepeat` | `EpisodesSpec => []SeededEpisodesRepeat` | none beyond the constants' types |
| `ServingProofs!HistoryIsAlwaysAnswered` | `EpisodesSpec => []HistoryIsAnswered` | |
| `ServingProofs!ChoicesAreAlwaysSound` | `TuneSpec => []ChoicesAreSound` | `TuneAssumption` |
| `ServingProofs!CacheIsTornByOverlapOnly` | `TuneSpec => []TornOnlyByOverlap` | `TuneAssumption` |
| `ServingProofs!LoadsStayWithinPermission` | `LoadSpec => []ServedWithinPermission` | `LoadAssumption` |
| `ServingProofs!LoadsServeAsAsked` | `LoadSpec => []ServedAsAsked` | `LoadAssumption` |

Every theorem is stated for all values of the constants that satisfy the
assumptions of the modules, which `.cfg` files satisfy on every run. Of the
modules a run hosts together, a theorem is about the component's own
specification.

**SlotPool.** Ids alone are not inductive: a new id has to be newer than the ids
that stay, and the new stamp newer than the owners that stay. The invariant is
`TypeOK /\ OwnersPast /\ IdsTellAge`, where `OwnersPast` says that no slot was
granted by a forward still to come. `NewIdsAreNewest` is the arithmetic of
`max(live) + 1`; `AllocateKeepsAge` the step all forwards share. Eviction then
gives up the oldest because it takes the least ids and ids tell age.

*As a window.* The refinement mapping enumerates the live slots by the stamp of
their forward, and what attention read by the stamps it read. An enumeration is
determined by the order alone (`ByKeyUniquely` in `RingOrder`: a sequence that
lists a set once each, in the order of a key, is *the* enumeration), so that
mapping a step is a matter of exhibiting the next sequence. A forward gives up
the first slots by rank, ranks by id being ranks by age (`KeptAreNewest`); what
stays is the old sequence shifted, and its own tokens join at the end
(`Joins`, `WindowMoves`). `ClearPred` picks a subsequence (`WindowLoses`). What is
read is known by its K/V and what is live by its owner; the invariant `HoldsOwn`
says the two stamps are one, which is where the write before the read enters.

**RingServer.** The assertion of the forward compares a head with the end of the
pool, which says nothing about the step before. The invariant places the head:
in each phase it is a multiple of the period plus what the cycle has already
written (`Aligned`), and the provisional count is what the phase implies
(`PredTokens`). A handful of lemmas on `%` do the work: evicting moves `start`
and leaves the head where the next block goes (`HeadAfterEviction`), a whole
cycle moves it from one boundary to the next (`NextBoundary`), taking the
provisional tokens back moves it to the boundary before (`PreviousBoundary`),
and from an aligned head either block fits (`AlignedFits`). The period divides
the pool by `PeriodAssumption`, the validity condition `ring_kv.py` states. After
an exception none of this holds, as `RingParityRetry` shows, until the next reset
puts the head back on a boundary: the invariant is
`TypeOK /\ (clean => InStep)`, and `TypeOK` bounds the interval in clean
episodes only. That no block wraps is also why plan buffers stay current: a
commit refreshes them all except one whose write would not fit, and no forward of
the cycle is such a write (`ForwardRefreshesPlan`, from `AllocationNeverWraps` in
the next state). The last commit of a call refreshes them for a forward that is
issued only once the call has returned, which `PlanIsCurrent` does not speak of
yet; `PlanOpens` does.

**RingParity.** The allocator decides by sorting ids and scanning for free slots,
the ring by adding to a head; the proof says what the pool looks like to both
(`ParityAt`). Counting slots from the head on around the pool (`Pos`), the free
ones come first, then the live ones from the oldest to the newest, the last
`pred` of them provisional (`Orderly`), and the ring's own ids sort as the
allocator's do (`Follows`). On such a pool eviction takes the slots that follow
the free ones, so what the allocator grants, the lowest slots that are free then,
is the block at the head (`GrantsAtHead`), and what the mask enumerates is what
the ring presents in one slice, two, or all of the pool (`ShownInOrder`). How many
slots are free at the head depends on the phase (`FreeAt`): a transient forward on
a full ring leaves the room it made, which the ring does not count. The one
arithmetic fact needed of the phase is that the block fits before the end of the
pool, which is `AllocationNeverWraps`. From there one lemma per kind of forward
shows that the pool stays orderly, and `Agree` that the live slots hold the same
K/V; with `PlanIsCurrent` this covers writes through a plan buffer. The window
follows from the allocator's: the live slots of both were granted to the same
forwards (`OwnersAgree`), so the two pools are one window, and `SlotPoolProofs`
says where it goes.

**ActionElision and EnginePool.** The pools are compared two by two. The elided
mask pool is the reference's, one forward behind while a forward is stashed
(`RefRanStashed`): the reference ran it on K/V that agreed, so that materializing
it later reads and leaves the same, and reserving takes the same slots
(`SettledInPlace`); the K/V of
reserved slots belongs to nobody until `clear_pred` frees them (`KvHeld`). This
needs nothing of the pool's size. The elided ring is then compared with the elided
mask pool by the lemmas of `RingProofs`, at the phase the *pools* are in
(`PoolPhase`), which is the one before the cycle's while a forward is stashed. The
engine's pool keeps the reference's books; in a clean episode the two differ in
the provisional slots of a skipped forward only, and no commit finds a provisional
slot live (`EngineIInv`). What holds in clean episodes only is what the ring and
the engine's skip promise; the mask's half of `ElisionIsExact` and of
`SettledInPlace` holds after exceptions too.

**PolicyServer.** What is served is decided in two steps of the worker, with the
event loop free to act between them. The invariant says what each of the two
parties has promised the other. `QueueOK`: a connection that waits is in the
queue or is the job, once (so an empty set of waiting connections empties the
executor, which is `ExecutorEndsEmpty`). `EpisodeOK`: an open episode is the one
the runtime was reset for; the worker that is about to open one has closed the
last; a prediction is asked of the episode its request names. `LifeOK`: what
each stage of `run()` has recorded by the time it is reached.

**ViewedServer.** A step with the viewer is a step of the server or leaves it
alone, so the invariant of the server carries over. What the viewer adds is the
order at the end: `ViewerOK` says that `close()` begins when every connection is
down. Then nobody is left to record: the event loop records for a connection it
serves, and the worker is free, because a job has a connection that waits
(`ClosedIsDown`). The sentinel is therefore the last of the queue, and a drain
that took it left nothing. A drain whose sentinel found no room does not end.

**WorkerBackend.** `NoOrphan` speaks of the time between calls, so the invariant
adds what holds within one: a live worker is held until `close()` is about to
terminate it, a backend about to spawn holds none, one that waits or connects
holds its own (`Held`). `OwnClient` says of the connection what
`ServedByOwnWorker` says of the answer. `Conversing` ties `_client` to what became
of the conversation: one that was lost has a client that is broken, which only
`close()` takes away, so that no call reaches a point where it could be answered.

**PoolCertificate.** A graph that is kept is the placement of now, so the
question is why a reset that finds the baseline unchanged has moved nothing.
`Certified`: from the first reset on every site is published (this is where
`PromptFirst` enters) and the baseline has the pools; once some cross-attention
K/V is kept everything is kept and recorded, because the reset that allocated it
asked for all sites and left it pending; when every site has storage, the
baseline is where it is. `Settled` is the reason graphs survive from the third
reset on. Both are conditional on `PromptFirst \/ prompted`, which a behaviour
that violates the property (`PoolCertificateLateSites`) makes false.

**StepCache.** `Counting` ties the countdown to the run of reused slots it is the
rest of; two runs that end at one slot are one (`RunsAreUnique`), and
`AppendedRuns` says what a further decision does to runs, so that a run ends
exactly when the countdown does. `Retention` says the prediction retained last is
the one used last, also when a raised clone has already given up the one before;
`Progress` that all decided slots but a pending one are consumed. No more
predictions are retained than slots consumed, which is why a schedule of one slot
may have a budget of one prediction.

**GraphStack.** `StackIInv`: between calls the pool is where `bind()` last recorded
it, so the comparison at the next reset is with the storage the graphs were
captured in. Capturing, touching and evicting only rearrange graphs of this pool.
That a replay is a forward (`ReplayedIsForward`) is read off the key: a graph's key
names the token count, the kind of forward and the interval it was captured at
(`KeyTells`), which is what the write head and the slots read are computed from,
unless it writes through the plan, and then the plan points at the head
(`PlanStaysCurrent`).

**GraphTable.** `GraphsAreOwned` and `KeptIsUnique`: each graph saw the metadata
object its owned arguments keep alive, and an object kept alive shares its address
with no other. An address in a slot then tells the object, which is what the key
relies on. That a slot has one graph is needed when one is evicted or forgotten.

**StaticCapture.** Once a step or sample of a chunk has begun, the static K/V holds
that chunk's prefix (`begun`, `held`, `chunk`); the modulation buffer is written
only where a graph exists; and a graph that passed its check is one that check
admits.

**TensorCache.** Entries and computations under way all began after the last
invalidation: an invalidation needs the lock and an empty stack, so none falls
between a computation and its store. Bytes are a sum over a sequence, and the
library's fold is a recursive function over the subsets of the index set. That it
is defined everywhere and does not depend on the order it takes indices in is
proved once, without induction over an operator: a set of counterexamples has a
smallest one (`LeastCounterexample`, from the strict-subset order of a finite set
being well founded). `BytesIInv` then says that only one thread computes at a
time, each key once, and none the cache already holds, so that a store adds one
entry and no key is counted twice. A clone that raises after entries were evicted
for it leaves a smaller cache, counted as such.

**ModuleResidency.** The active block is the innermost forward's and all its
entries are copies; any forward that is not innermost was disturbed by a refused
call (`reentered`), which is the exception the property names; and a forward that
saw something else than a copy has touched one, so that `leave()` raises instead
of returning. The budget is planned for the largest streamed block beside the
resident ones (`PlanIInv`); what is on the device is never more, since the active
block is a streamed one and all copies are its own.

**HostedEpisodes.** `OwnsTheNoise`: a runtime that has shared the generators with
nobody since its reset finds them where its own predictions left them.

**Autotune.** What files hold and what calls carry was measured by somebody who
kept it (`FilesHold`, `CallsHold`). `StoresAlone`: as long as no two stores
overlapped, the process that stores owns the temporary file, and no descriptor
leads to the cache, wherever the others died.

**LoadPath.** One conjunct per stage says what the stages before it have
established, and each stage's lemma carries it over that stage's rewriting of the
plan: `CeilingIsAllowed`, `ScheduleIsAllowed`, `PlanIsAllowed`, `PlanIsComplete`,
`ExclusionsHold`, `EngineIsPlanned`. What `ServedAsAsked` leaves out is what the
code leaves open: required passes where a fused engine replaces the torch modules,
and the step count of a loop on torch, which is the native one and has none of its
own to compare.

## What is only model-checked

- Liveness, which is outside the proof system's reach, fairness being about what
  is enabled: `EveryRequestIsSettled`, `StopIsHonoured`,
  `DrainIsNotWaitedFor`, `OnlyTheWorkerIsAwaited`. For the same reason `ViewerAddsNothing` speaks of the server's
  steps and not of its fairness.
- That the six runs that expect a violation reach one: each is shown by TLC's
  counterexample.

Every invariant and every action property of the passing runs is also proved.

*Abstracted throughout.* Tensor contents (a token is its stamp), similarity
values (a level), observations and actions, message encoding, log output,
durations (a deadline is a step that may be taken).

*Left out of modelled components.* `KeyboardInterrupt` in `run()` (the process
ends); timeouts of `wait_ready` (the caller's choice); two transformers in one
process sharing class-level hooks (the code supports one); an exception inside a
forward, which leaves the pools of the layers apart, or slots taken and no K/V
written (`Abort` falls between forwards); extents that share a graph by
`extent_bucket` (`GraphTable` has a slot for each extent); a child that survives
SIGKILL;
the hoisted casts the certificate also covers (produced once, never moved); a
computation of the result cache that looks up its own key or clears its own
cache; a second thread that calls streamed blocks (refused like a re-entry); what
a viewer's record contains; conflicts between passes, memory estimates and traced
reads in the planner; the prefix graph of pi05's capture apart from the chunk
graph, its RTC refusals and its drill switch.

## Not modelled

- **Runtime state types** (`runtime/state/`): declarations a load reads; no order
  of calls changes what they mean.
- **Captured programs and self checks** (`runtime/static_tensor_graph.py`,
  `compiled_region.py`, `capture_self_check.py`), and the captures of the GR00T
  and LingBot-VLA packages: a graph per fixed shape, checked once. Their hazards
  (key, staleness, a check that raises) are those of `GraphTable` and
  `StaticCapture`; what is left is the arithmetic they capture.
- **Generic rewriting passes, other LingBot passes, adapters and engines**: sites
  are matched and modules rewritten once, at install time; each is judged by the
  bits it produces, which is floating-point arithmetic.
- **Backends and kernels**: arithmetic and capability tables.
- **Wire encoding** (`msgpack_numpy.py`): a pure conversion of arrays; a request
  that does not decode is a step of `PolicyServer`.
- **Descriptors and packages, scaffolding, release scripts**: parsing, validation
  and generation of files; no state.
- **Training, distillation, verification of releases**: arithmetic and statistics
  over recorded outcomes, with gates that are refusals over a report.
- **Command line**: options and output; that it closes the viewer after `run()`
  is in `ViewedServer`.

These are most of the repository's lines and little of its state: what is left
decides by floating-point values or strings, not by the order of events.

## Plan

Done, in this order: the mask allocator and its abstract window, the control
cycle, the ring and its parity with the stock code, the engine's skip, elision,
then the server, the step cache, the graph stack, the worker backend, the
certificate; then the viewer, the result cache, module residency, the graph
tables, the hosted runtimes, the load path, autotuning and pi05's static capture;
proofs for the mask allocator, the ring's alignment, the server, the backends,
the captured graphs and their certificate, the stores, hosted episodes, tuning
and the load path; then for the parity of ring and mask allocator, the window both
implement, elision and skipping, the ring behind the graph stack, the byte
budgets and the server with its viewer.

What could come next:

1. **Composition.** `PolicyServer` over `WorkerBackend` (a worker that dies
   under an open episode), and over `HostedEpisodes` with the control loop, so
   that the retry behind the first disagreement is a behaviour of one composed
   specification.
2. **Proofs.** How far the ring follows its window after calls that raised: as
   long as the abandoned predictions fit the pool, by an invariant that bounds
   `pred` by the calls that raised. What a reset certifies about the graphs of
   `GraphStack`, from the invariant of `PoolCertificate` instead of a bound pool.
3. **Viewer.** Records that are told apart by episode, to state what the order of
   markers and records may be.
