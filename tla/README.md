# KEEP embodied memory: TLA+ models and proofs

KEEP (`src/KEEP_vllm`) is an embodied planner. A large language model chooses a
robot's next skill from a prompt made of *modules*: a static prefix, messages
about the objects of the scene, and a few worked examples. The keys and values
of every module are computed once, kept on the host, and reused by later
prompts, so that a planning step recomputes only the modules that matter for
the instruction at hand. Which modules those are is chosen anew at some layers,
while other threads already copy the remaining modules to the device.

This directory models that machinery: the memory, the threaded forward, the
schedule by which recomputation is cut, the choice of modules, the positions of
keys, the selection of examples, the planning loop that ties them together, the
evaluation of tasks with the robot's skills, and the scheduler and block manager
of the vLLM engine the forwards run in.

Paths below are relative to `src/KEEP_vllm`; `qwen2.py` is
`vllm_KEEP/vllm/model_executor/models/qwen2.py`, `task_planner.py` is
`src/task_planner.py`, and `scheduler.py` and `block_manager_v1.py` are those of
`vllm_KEEP/vllm/core`.

## 1. The system

| Part | Code | State it keeps | Operations |
|---|---|---|---|
| Memory store | `overall_kv_schedule`, `message_kv` in `task_planner.py` | three parallel lists (`messages_objects`, `similarity_objects`, `kv_places`), the position counter, `memory_change`, the instruction's vector | `reset`, `add_message_objects`, `..._by_observation`, `..._by_action`, `get_input_ids_vllm` |
| Loading tables and buffers | same class | `object_/example_loading_table`, `layer_wise_object_/example_kv`, one bit and one slot per layer and module | `reset_start`, `reset_step`, `move_kv_layer_wise_vllm_v1`, `move_kv_layer_wise_extra_vllm_v1` |
| KEEP forward | `Qwen2Model.forward`, `Qwen2DecoderLayer.forward` in `qwen2.py` | `cache_fuse_metadata` (recompute_modules, query_imp_indices, check_layers, recompute_num, finish_load, key_value_hack), old_kv, positions, hidden_states | a layer loop that starts and joins up to four threads per layer |
| Choice of modules | `calculate_recomputation_modules` in `qwen2.py` | the scores of one hop, two masks | hops over attention weights until two choices agree |
| Attention backend | `vllm/attention/backends/xformers.py` | none of its own | overwrites old_kv at imp_indices, attends, hands back key_value_hack |
| Planner | `TaskPlanner` in `task_planner.py`, `alfred/alfred_task_planner.py` | skill set, prompts, the number of examples (in the shared configuration) | `score`, `select_examples_topk`, `init_prompt`, `plan_step_by_step` |
| Evaluator | `alfred/alfred_evaluator.py` | results, the current task | per task: reset, plan, act, observe, record |
| Environment | `alfred/thor_connector.py`, AI2-THOR | the scene, `cur_receptacle`, `sliced` | `find`, `pick`, `put`, `drop`, `open`, `close`, `toggleon`, `toggleoff`, `slices` through `llm_skill_interact` |
| WAH benchmark | `wah/*`, VirtualHome | a second planner, evaluator, environment | as above |
| Transformers variant | `src/KEEP_transformers` | the same memory, no threads | as above |
| vLLM scheduler | `scheduler.py`, `vllm/engine/llm_engine.py` | the queues `waiting`, `running`, `swapped`; the status and length of every sequence | `add_request`, `abort_request`, `step` |
| vLLM block manager | `block_manager_v1.py` | free lists of two devices, a count per block, a block table per sequence | `allocate`, `append_slots`, `fork`, `swap_in`, `swap_out`, `free` |
| vLLM workers, kernels, server | the rest of `vllm_KEEP` | tensors | execution, transport |

How they interact. The evaluator runs everything on one thread. In a task it
calls `reset`, hands the instruction over, and then loops: *plan* (a forward
through the engine, then scores for all skills), *act*, *observe*, *record*.
Observing and recording add or refresh messages, and each of them runs the
model to collect keys. The forward reads the memory through the schedule object
it was given: `sorted_indices`, the messages, and `memory_change`, which says
whether the loading tables of the last forward still fit. Inside a forward the
main thread starts a compute thread, a loading thread and, on layers before a
checked one, a scoring thread; these share `recompute_modules`, `finish_load`,
the loading tables, the buffers and two mutable lists standing for old_kv.
There is no lock: only starts and joins order them. The engine below knows nothing of
this: a forward is one `step` of one request or, when skills are scored, of a batch
of them, and `LLM._run_engine` calls `step` while `has_unfinished_requests`.

Where it is hard, and what makes each part right:

* **The forward.** The loading thread reads `recompute_modules` while the scoring
  thread replaces it; the next layer's old_kv is assembled once before and once
  after that. Whatever the interleaving, no attention may see an unloaded slot or
  an old message (`ServedSound`), run on rows that do not fit its masks
  (`RowsMatch`), or bring a dropped module back (`ReusedStaysReused`), and the
  forward must come to its end (`ForwardEnds`).
* **The tables.** They outlive a forward. A bit must never outlive the message it
  stands for (`TableTruth`); this rests on the memory raising `memory_change`
  on every change of what is fed (`LayoutChangeFlagged`).
* **The memory.** Three lists are edited in parallel and a collection in the middle
  may raise; inside an observation the exception is swallowed with the lists
  half changed, so that the message added carries no id and the object may be given a
  second one later. No id may be on two messages, and messages without one may
  only come from failures (`MessagesCounted`); a message with an id may not be an old
  one (`NeverStale`); and the lists may be apart by no more than the failures
  (`ApartByFailures`): until one happens nothing that is looked up is missing, after
  one the deletion at `task_planner.py:529` may raise for an entry at the end.
* **The schedule.** A float is shrunk once per layer; its integer part decides where
  a check happens. Every check must drop something and keep something
  (`EveryCheckDrops`).
* **The choice.** Scores can be equal, not finite, or fewer than asked for. Each check
  chooses among what the last one left, so together they must never run out of
  modules (`KeptEnough`), and what is left must keep its order and the instruction
  its place (`RowsInOrder`, `SuffixInPlace`).
* **The skills.** Every skill may fail in several ways, and each way tells the planner
  and the memory something else. What the memory holds of an object's place must
  stay true or be overruled by its being held (`PlaceTold`), a success must be one
  (`SuccessTold`), and a task must end however its skills fare (`TaskEnds`).
* **The engine.** Groups move between three queues while blocks are shared by counts.
  No group may be lost or overtaken (`QueuesSound`, `FirstComeFirstServed`,
  `YoungestPreempted`), the blocks must suffice for what was scheduled
  (`NeverOutOfBlocks`), no two samples may write one block (`SlotsForBatch`), no
  block in use may be free (`InUseNotFree`), and requests must end (`RequestsEnd`).
* **The loop.** The memory and the forward each assume something of the other
  (`ImplementsPipeline`, `ImplementsStore`).

## 2. The modules

| Module | Stands for |
|---|---|
| `PromptFeed` | what a forward promises: layers attended in order, on the current prompt, with fewer and fewer recomputed modules |
| `LayerPipeline` | one forward with its threads; tables and buffers across forwards |
| `LayerPipelineProofs` | proofs of its invariants, of `LoadsOnlyReused`, and that it implements `PromptFeed` |
| `MemoryStore`, `MemoryStoreProofs` | the object memory, its failures, and what it feeds, with proofs |
| `KeepPlanning`, `KeepPlanningProofs` | evaluator, memory and forward together, with proofs |
| `RecomputeSchedule`, `RecomputeScheduleProofs` | check_layers and recompute_num, with proofs |
| `ModuleChoice` | the hops of calculate_recomputation_modules |
| `KeyPositions` | positions of rows and of stored keys |
| `CheckedForward`, `CheckedForwardProofs` | schedule, choices and positions composed: a forward as its checks see it, with proofs |
| `ExampleSelection` | select_examples_topk of one task |
| `SkillEpisode`, `SkillEpisodeProofs` | ThorConnector's skills and the evaluation of tasks on ALFRED, with proofs |
| `BlockSpace`, `BlockSpaceProofs` | the block manager: free lists, counts, tables, with proofs |
| `Scheduler`, `SchedulerProofs` | the engine's step: queues, admission, preemption, sampling, with proofs |
| `MC*` | instances for TLC |

An operator whose comment begins with "Mutant" is a deliberately wrong variant of
the definition below it. No specification uses it; it stands there to show, by
putting it in the place of the right one, that a property can fail.

### LayerPipeline and the code

Slots `1..KvCapacity` are the fed objects in the order of `sorted_indices`, the
slots after them the examples. The keys of a module at a layer are represented
by the content they were collected from, so "stale" and "never loaded" can be
told from "current". Threads are the variables `computeThread` (thread2, then
thread4), `scoreThread` (thread3) and `loadThread` (thread1, then thread5, then
thread6); the main thread is `pc`.

| Action | Code |
|---|---|
| `BeginForward` (with `ResetStart`, `ResetStep`) | `Qwen2Model.forward` before its loop, `reset_start`/`reset_step` |
| `Attention` | thread2: `self_attn`, which replaces the keys of recomputed modules in old_kv |
| `LoadNextLayer` | thread1 and thread6: `move_kv_layer_wise_vllm_v1(layer + 1)` |
| `ExtraTest`, `ExtraMove` | the loops of `check_load_kv`, `no_check_load_kv`, `check_load_kv2` and one call of the extra loader; test, read and copy are separate steps |
| `Score` | thread3: the choice for the next layer |
| `Mlp` | thread4 |
| `JoinAttention`, `JoinScore`, `JoinReload` | the joins, in order, and what the main thread does after them |
| `EndForward` | return to `TaskPlanner.score`, which has read key_value_hack |
| `ChangeMemory`, `NewEpisode` | what the memory may do between two forwards |

One loading call is one step: within it the thread reads `recompute_modules` once
per call, but in the phases where another thread may write that set the
reading and the copying are two steps (`ExtraTest` reads `loadSet`, `ExtraMove`
copies). `LoadNextLayer` never runs beside `Score`, which the joins guarantee and
`Phases` states. The two flags that let a loader skip a whole layer
(`layer_*_loading_table`) are caches of "no bit is missing" and not modelled.

### MemoryStore and the code

`messages` is `messages_objects` with the id its caller assigns and the place
`get_kv_vllm` assigns. `Collected` is `add_message_objects` when it succeeds,
`CollectionRaises` when the collection raises after `messages_objects.append`.
`Observe` runs under the evaluator's bare `except`; `RecordAction` does not, so a
failure there ends the evaluation (`alive`). `Refresh` contains the one path where
the code stops between its deletions: `del similarity_objects[i]` on a list that
an earlier failure left short. `reported` and `failures` are history variables.
`Forward` is what a forward means to the memory. `SortedIndices` says what the stable
sort returns, the one order in which `Precedes` holds between any two places, rather
than how it gets there.

### KeepPlanning

Instantiates both modules over shared `memoryChange` and `tablesBuilt`, with the
pipeline's `objects` defined as the store's `Layout`. Its actions are those of
the parts, restricted to the order `evaluate_task` imposes (the memory is only
touched when no forward runs: the evaluator waits for the engine). `KeepAssumption`
states what the constants of both parts need.

### CheckedForward, KeyPositions and ModuleChoice

`KeyPositions` keeps one number for a module, the position of its first token, in
three places: where its keys were collected (`Collected`: objects and the static
prefix each from 0, the examples one behind the other in a prompt of their own),
where its rows stand now, and where its keys stand in key_value_hack. `ModuleChoice`
is one call of `calculate_recomputation_modules` hop by hop.

`CheckedForward` runs both over the schedule of `RecomputeSchedule`, in the order of
`Qwen2Model.forward`:

| Action | Code (`qwen2.py`) |
|---|---|
| `ScheduleLayer` | the loop that fills check_layers and recompute_num |
| `BeginForward` | the start of the layer loop: the whole prompt, every module with rows |
| `UncheckedNext` | a layer whose successor is not checked |
| `Choose` | the hops of the scoring thread before a checked layer |
| `CheckedNext` | the rows, positions and key_value_hack cut to the modules chosen |

The choice before a layer is asked for `recompute_num[check_layers.index(layer)]`
modules among those that still have rows. When scores that are no number leave no
module at all, the next check raises (`recompute_slices[-1]`) and the forward is not
followed further. `LayerPipeline`'s `Choices` is what such a call may return when the
scores are numbers: `KeptEnough` and `BestKept` say so with that condition.

### SkillEpisode and the code

| Action | Code |
|---|---|
| `BeginTask`, `SkipTask` (with `RestoreScene`) | `evaluate_task` to the start of its loop; its early return |
| `Observe` | the vision-language model's answer, stored |
| `StopPlanning`, `Score`, `Summarise` | the ends of the loop, the goal test, the count over all results |
| `Find`, `Pick`, `Slice` | `nav_obj`, `pick`, `slices` |
| `PutDown` (`Put`, `AfterFailedPut`, `DropHeld`) | the branch for "put down" of `llm_skill_interact` with `put` and `drop` |
| `Change` | `open`, `close`, `toggleon`, `toggleoff` |

Every skill is one step together with what the evaluator does with its answer:
`Tell` (the memory) and `Reply` (the planner's list of steps and messages). Each
attempt on the simulator may succeed or fail; that a hand holds one object, that
only what is in the scene can be opened, that nothing comes to be inside itself
(`NoCycle`), that what is in an object stays in it when that is picked up, that a thing is
open or closed and on or off (`Settled`), and that a dropped object is then "on the
floor" are taken of the simulator. Things may be of several sorts, as the lists of
`alfred_task_planner.py:27-40` have them: a Box is picked up, opened and put things in, a
Microwave is opened, turned on and put things in. Only what each name stands for
is there once. `reply.ok` is what the planner is told, which for
a drop after a failed put is failure even though the object left the hand.
`memory` is a simpler memory than `MemoryStore`'s: here a message replaces the last.

### Scheduler, BlockSpace and the code

`BlockSpace` is the block manager as a state of its own: `free` the free lists of both
devices, `ref` the counts, `table` the block tables. `BlockSpec` allows every legal
sequence of calls; `Scheduler` makes some of them. A step of the engine is run as the
stages of its loops, so that each group of a queue is an action. A group is its number
in the order of arrival; its sequences are `<<group, k>>`.

| Action | Code |
|---|---|
| `AddRequest`, `AbortRequest` | `add_request`, `abort_request`, between two steps |
| `BeginStep` | the start of `_schedule_default`; swapped requests go first |
| `Ignore`, `Admit`, `EndPrefill` | the loop of `_schedule_prefills` |
| `ScheduleDecode`, `AppendSlot`, `PreemptByRecompute`, `PreemptBySwap`, `LackSwapSpace`, `EndRunning` | the loop of `_schedule_running`, `_preempt`, `_append_slots` |
| `ScheduleSwapped`, `FailSwapIn`, `EndSwapped` | the loop of `_schedule_swapped`, with its assertion |
| `Close` | the end of `_schedule_default`: the queues put together again; then `schedule` asks `is_prefill`, and a batch the model runner refuses ends the engine (phase `refused`) |
| `ProcessOutput`, `FreeFinished` | the output processor: fork, append, stop, free |
| `EndStep` | `free_finished_seq_groups` |

`counted` are the groups the budget has counted. A sampled token ends its sequence or
not as it pleases, and does so at `MaxLen` at the latest. Which free block an allocator
hands out is left open in `BlockSpace`; `Scheduler` takes one order, since blocks are
interchangeable. `AppendSlot` is one call of `append_slots`, made after the group was
found to have room, so a group with two samples takes two steps. `ProcessOutput` forks a
second sample while the group has a number left among its `Copies`. The tokens and
sequences a step has been charged for are the cardinalities of sets of `<<group, token>>`
and `<<group, seat>>` pairs rather than sums, so that a proof can compare them by
inclusion. `Ascending` and `Listed` stand for the sorts of the queues and for listing a
set. The last three sections of the module are the strengthenings the proofs need.

## 3. What TLC checks

| Run | Configuration | Bounds | Question |
|---|---|---|---|
| `pipeline` | `MCLayerPipeline.cfg` | 5 layers, 0–2 objects and 1 example, 2 contents | Do all interleavings serve current keys, keep rows and masks together, and implement `PromptFeed`? |
| `pipeline_liveness` | `MCPipelineRefines.cfg` | the same with 1 content | Does every forward end, and is the live `PromptFeed` implemented? |
| `store` | `MCMemoryStore.cfg` | 3 objects, 2 contents of different length, capacity 2, 2 instructions, positions to 6, 2 failed collections a task | What survives failures, and what holds only without them? |
| `planning` | `MCKeepPlanning.cfg` | 4 layers, 2 objects for 1 place, 1 example, positions to 4 | Do the parts keep each other's assumptions? |
| `forward` | `CheckedForward.cfg` | schedule: 48 layers, ratio 0.96, 1–20 modules; choices and positions: 4 modules of 1–2 tokens, scores 0–2, 3 finite hops, NaN | Is the schedule usable, does every check choose what it should, and do the dropped modules leave the rest in place? |
| `positions_comment` | `KeyPositionsComment.cfg` | 2 modules | A comment about rotary positions against the code |
| `examples_topk` | `ExampleSelectionTopK.cfg` | 4 examples, 2 asked for | A comment about the choice of examples against the code |
| `episode` | `MCSkillEpisode.cfg` | an apple, a box (item, receptacle, opened) and a microwave (receptacle, opened, turned on), 1 task of 4 steps, drops may fail | Is what the memory and the planner are told true, and does a task end? |
| `episode_putdown` | `SkillEpisodeDrop.cfg` | 2 items, a sofa, a fridge, 1 task of 3 steps, drops never fail | A comment about failed puts against the code |
| `scheduler` | `MCScheduler.cfg` | 3 requests with 1 or 2 samples, up to 4 sequences a group, 4 GPU and 3 CPU blocks of 2 tokens, lengths to 6, watermark 1, budget 7, 3 running sequences, delay_factor on | Do queues, budget and blocks stay sound through every preemption, and do requests end? |
| `scheduler_leak` | `SchedulerLeak.cfg` | the same | A test's expectation that freed blocks come back against the code |
| `scheduler_swap_in` | `SchedulerSwapIn.cfg` | the same | An assertion on swapped-in groups against the code |

Why the bounds are enough. Five layers with checks at 2 and 3 have every kind of
layer the code tells apart: first, plain, plain before a check, checked before a
check, checked before a plain one, and last; smaller prompts have a single check
at 3. The extra load starts two layers above the next one and needs layer 3 or 4
to exist. Two contents are enough to tell a stale key from a current one, and
since the pipeline never compares contents they are symmetric; the liveness run
needs no stale keys, so one content does. In the store three objects exceed the
capacity of two, so a report can push another object out; two failures reach a
message without keys, a short similarity list and a refresh that stops half way
on it. Positions are bounded by `MaxPlace`, a guard of `Collected`: with two
contents of lengths 1 and 2, six allow every object to be refreshed. The
schedule's float is an integer of a millionth; for 28, 48 and 64 layers and
every prompt below 40 modules this gives the same check_layers and recompute_num
as the float does. Four steps are find, pick, find, put, with a failure in any of them; a
second item makes the hand a place to compete for; one receptacle has a short name
and one a long one, since `put` treats them differently; the box lies in every sort but
what is turned on, the microwave in every sort but what is picked up. What one
task leaves to the next (`sliced`, the place of nothing else) no property speaks
of, so one task does. The schedule of `forward` is that of the real model for up to
twenty modules; its layers are then followed for `LastModule + 1` of them, four, with
objects, examples and checks that each drop a module, which every choice, tie and
gap in the rows needs no more than. In `scheduler` the prompts are either short (1, 1, 2 tokens) and
outgrow four blocks while decoding, so that the youngest are preempted, or 1, 7 and 8,
where 7 fills the limit of a prompt exactly and 8 exceeds it. One assignment lets the
second group be sampled twice: only such a group forks, copies on write and is
swapped. Three blocks of swap space are enough for one group and too few for a
larger one.

`MaxPlace`, `MaxFailures`, `MaxHops`, `MaxModules`, `LastModule`, `MaxScore`,
`MaxLength`, `MaxSimilarity` and `Copies` are the only bounds added to the code;
`MaxLen` stands for max_tokens and max_model_len.

Deadlock is checked except where the code does stop: the store (the evaluation
ends when recording an action raises), the forward (it returns; with growing scores
the bounded hops end too, and a check with no module left raises), the episode (after
the last task the evaluation is over), and the scheduler (all requests are done, or an
exception ended the engine).

Fairness. `Fairness` in `LayerPipeline` is weak fairness of each thread and of the
main thread inside a forward: the operating system runs every started thread, and
a join returns once its thread is done. No fairness is assumed of the evaluator:
a next forward need not begin. `FairSpec` of
`SkillEpisode` is weak fairness of `Next`: the evaluator is a single thread, nothing it
waits for is modelled, and each of its calls returns. `Scheduler`'s `Spec` has weak fairness
of `EngineStep`: the engine is stepped as long as a request is unfinished, in a loop on one
thread. Nobody has to send a request or to abort one. `RequestsEnd` is claimed when no
group asks for more than one sample: with two, the engine may end in one of the
assertions below.

### Results that disagree with what the repository says

* `qwen2.py:166-173`: two comments say that keys are collected before rotation and
  rotated to their place when loaded. The code rotates first and clones after, so
  loaded keys keep the rotation of the collection, which begins at position 0 with
  the object itself, or with the first of the examples
  (`positions_comment`).
* `alfred_task_planner.py:56`: `[0][1:]` drops the first *example*, not the query, and
  the ranks of the rest are used as indices into the full list, so "top k
  examples" are each one off (`examples_topk`).
* `thor_connector.py:97`: whether a put failed is told from the length of its message.
  The last of `put`'s attempts looks for a second, inherited receptacle and, finding
  none, leaves "Cannot find Sofa", sixteen characters: after a failed put on a sofa (or
  a bed, desk, sink, pan, or an egg the planner took for a receptacle) the object stays in
  the hand, against the comment on the next line, and the memory is told it is on
  the sofa (`episode_putdown`).
* `block_manager_v1.py:290`: the count of each new block is `num_seqs()`, which counts finished
  sequences too. A group of two samples of which the second has finished is preempted by
  recomputation and admitted again with one waiting sequence; its blocks then begin
  with the count 2 for one table and are never free again, against the "assert all
  blocks are free now" of `tests/core/test_block_manager.py:366` (`scheduler_leak`).
  `NoBlockIsLost` proves the converse: if counts are exact, every block comes back.
* `scheduler.py:548`: `_schedule_swapped` asserts that a group has one new token, but
  `_preempt` swaps out just the groups with several running sequences, and each brings
  one. The group that is swapped in raises an AssertionError (`scheduler_swap_in`); the
  docstring at line 475 says it is scheduled as long as it fits the budget.

A third disagreement of the scheduler is not a run of its own but the reason for the premises
of `WithinBudget`. A group preempted with its second sample already finished is sampled best_of
times again when it is admitted, so it may run more sequences than it was counted for.
Then the assertion `num_curr_seqs <= max_num_seqs` of `scheduler.py:738` can fail: it takes
four requests (prompts of 7, 2, 1 and 1 tokens, 7 GPU blocks, `MaxLen` 10, `MaxNumSeqs` 3).
The assertion two lines above, `num_batched_tokens <= max_num_batched_tokens`, can fail
in the same way when decodes fill the budget: ten requests (prompts 3, 3, 3, 3, 1, 1,
1, 1, 1, 1, the sixth with best_of 2, blocks of one token, 19 of them, and `MaxLen`,
`TokenBudget` and `MaxNumSeqs` all 6) reach a step of seven decodes. Hence `SampledOnce` in
both parts, and `prompt \/` in the part about tokens, since prompts are always within the
budget.

If it is the *first* sample that has finished, none of this is reached: `SequenceGroup.is_prefill`
(`sequence.py:544`) asks the first sequence only, "Every sequences should be in the same stage"
(line 543), and says that the group is past its prompt. It is sent as a decode with
all its tokens to compute, and the assertion `token_chunk_size == 1` of `model_runner.py:472`
ends the engine. `Close` has this end, and the run `scheduler` reaches it; it has no run of its
own.

KEEP itself asks for one sample per request, so none of these four concerns its
own requests: `SingleSamplesFreeAll`, `SingleSamplesNeverSwap` and `SingleSamplesWithinBudget`
(section 4) prove that none of them then happens.

Two properties of the scheduler were first stated too strongly, which showed when their
proofs failed and TLC, given a larger instance, then found the counterexample. The bound
on tokens is the one above. The other is first come, first served: groups that are swapped
out are no part of it. With best_of 1, 1 and 2 the last group is swapped out in favour of
an older one, which may itself be preempted by recomputation later. It then waits, and
swapped groups are served before waiting ones, so the younger group would go first; that it
does not run is only due to the assertion of `scheduler.py:548` above. What does hold, and
what `FirstComeFirstServed` says, is that the waiting queue is sorted although nothing sorts
it, and that what runs or is still to be scheduled among the running came before all that
waits.

`SkillEpisode` also has a step no run asks about: a task `alfred_evaluator.py:210` skips
leaves None in the results, and `Summarise` then ends in an exception (line 117).

## 4. What is proved

TLAPS proves, for every number of layers above one, every capacity, number of
examples, schedule and set of contents (`PipelineAssumption`):

| Theorem | Statement |
|---|---|
| `TypeCorrect` | types, and no attention runs with None for old_kv |
| `PipelineInvariant` | the inductive invariant `PipelineInv` |
| `ServedSoundAlways` | no attention sees a zero slot or old keys |
| `TableTruthAlways` | a set bit stands for the current module's keys |
| `RowsAlwaysFit` | rows, positions and masks fit whenever they are used |
| `ReuseIsMonotone` | a reused module stays reused |
| `LoadsOnlyReusedAlways` | no loader copies a module being recomputed |
| `PipelineRefinesFeed` | the threaded forward implements `PromptFeed` (safety part) |
| `ForwardsAreFinite` | a forward takes at most `MaxSteps` steps, however its threads interleave |

and, for every ratio, number of layers and of modules (`ScheduleAssumption`),
`ChecksAlwaysDrop` and `LayersAlwaysInOrder`. That the ratio is at most one is
not needed: a layer is checked only when the number has fallen. `SomeLayerAlwaysChecked`
(a prompt with two modules beside the static one has a layer to check, so
`check_layers[0]` never raises) needs more of the ratio, `RatioFits`: it is below one, three
modules leave two at the first fall, and two modules lose one more in the layers left.
The ratio is hard-coded (0.96, `qwen2.py:570`) and fits from 15 layers on; the models KEEP
runs have 28 layers or more.

For any objects, contents, lengths, similarities and bounds, with any number of failed
collections (`StoreAssumption`), in `MemoryStoreProofs`:

| Theorem | Statement |
|---|---|
| `TypeCorrect` | types |
| `MessagesAlwaysCounted` | no id is on two messages; messages without one are as many as failed collections |
| `NeverStaleAlways` | a message with an id says what was last reported |
| `ListsApartByFailures` | the lists are apart by no more than the failures and every message with an id has its place; without failures they are parallel and nothing raises |
| `NothingForgottenEver` | without failures no object is lost |

For any sequences and blocks and any legal calls (`BlockAssumption`), in
`BlockSpaceProofs`:

| Theorem | Statement |
|---|---|
| `BlocksConsistent` | the inductive invariant `BlockInv` |
| `NoBlockInUseIsFree` | no block of a table is on the free list |
| `NoBlockIsLost` | with one sequence counted per allocation, counts are exact, so blocks come back |

These are theorems of `BlockSpec`; `EngineCallsBlocks` below carries them to the engine.

For any items, receptacles, things that open and things that turn on, overlapping as they
may, and for any scenes, tasks and step limits (`EpisodeAssumption`, which asks no more of the
things than that none is called like the floor or the hand):
`SkillEpisodeProofs!TypeCorrect` (types, and steps within the limit);
`EvaluationsAreFinite` (the steps that are left go down with each step);
`PlaceToldAlways`, which is inductive on its own with the types: every way an object
leaves the hand tells its new place, and one that goes into the hand may keep an old
message (`TellPlace` is that argument for one message); and `SuccessToldAlways`, an action
property, for which one lemma per skill shows that what the memory is told in a
step reported as a success is so.

For any constants that satisfy both parts' assumptions (`KeepAssumption`), in
`KeepPlanningProofs`:

| Theorem | Statement |
|---|---|
| `KeepInvariant` | both parts' inductive invariants, together |
| `LoopImplementsStore`, `LoopImplementsPipeline` | the loop is a behaviour of each part |
| `LastReportIsReused` | what an attention reuses of an object is what was last reported of it |
| `LoopFeedsInOrder` | the loop, memory and all, implements `PromptFeed` |
| `LoopForwardsAreFinite` | nothing the memory does prolongs a forward |

For any number of modules, positions, lengths, scores, hops and ratio
(`ForwardAssumption`, `ScheduleAssumption`), in `CheckedForwardProofs`:

| Theorem | Statement |
|---|---|
| `ForwardInvariant` | the inductive invariant `ForwardInv` |
| `EnoughIsKept`, `TheBestAreKept`, `NanIsContained` | what a choice keeps |
| `SuffixStaysInPlace`, `RowsStayInOrder` | where the rows stand that are left |
| `ForwardChecksDrop` | the schedule of a forward drops and keeps at every check |
| `ForwardHasCheck` | and has a check, if the ratio fits (`RatioFits`) |

For any requests, samples, lengths, devices and limits (`SchedulerAssumption`), in
`SchedulerProofs`:

| Theorem | Statement |
|---|---|
| `QueuesInvariant` | the inductive invariant `QueueInv` |
| `GroupsAreInOneQueue`, `WaitingStaysSorted`, `YoungestGiveWay` | no group lost, doubled, overtaken or preempted out of turn |
| `BlocksInvariant` | the inductive invariant `BlocksHeldInv` beside `QueueInv` |
| `EngineCallsBlocks` | the engine implements `BlockSpec` |
| `EngineUsesNoFreeBlock`, `EngineNeverOutOfBlocks`, `EngineHasSlots` | blocks in use are not free, suffice for what was scheduled, and are written by one |
| `BudgetInvariant` | the inductive invariant `BudgetInv` beside `QueueInv` |
| `StepsStayWithinBudget` | tokens and sequences of a step stay within the budget |
| `SingleInvariant` | what one sample per request adds to `QueueInv` and `BlocksHeldInv` |
| `SingleSamplesFreeAll` | with one sample per request no block is lost |
| `SingleSamplesNeverSwap` | nor is anything swapped, nor does the engine end by an error |
| `SingleSamplesWithinBudget` | and both assertions of `_schedule_default` hold for every batch |
| `EngineStepsAreFinite` | the loops of an engine step end, after at most `MaxStages` stages |

`SchedulerAssumption` takes from `SchedulerConfig._verify_args` that the budget of tokens is
no less than the number of sequences and than a sequence's length, and from
`Scheduler.__init__` (`scheduler.py:254`) that a prompt's limit is within it.

The argument for the pipeline. `ServedSound` speaks of attentions that have run; to
carry it over the next attention one must know that what is handed to it is
current (`ReusedCurrent`), for this layer and, once a loader has assembled it,
for the next. Loaders trust the tables, so bits must be true (`TableTruth`, and
`ExampleTruth` for the example bits, which survive a change of the objects). The
scoring thread shrinks `recompute_modules` after the next layer was assembled;
`ReusedCurrent` is then re-established by thread6, which is why it is stated
only for the moments `NextLoaded` names. A loader that read the set earlier has
read a larger one (`LoadSetCovers`), so it can only load too little, never a
module that is being recomputed. `RowsKept` follows the rows from one choice to
the next; `FreshSoFar` (a module still recomputed was recomputed everywhere
before) gives `ReusedStaysReused`. `Phases` says which threads can be alive when,
the part the joins play. `PipelineInv` is the conjunction. There is one lemma per
conjunct; `QuietSteps`, `LoadingSteps` and `AttentionStep` group the actions by
what they can disturb.

For the refinement a layer counts as attended when its attention thread is done;
loading, joins, and the MLP are stutters, `Score` is `Reuse`, and `ServedSound`
with `FreshSoFar` make the served view that of the abstract feed.

That a forward is finite is shown by a measure, `StepsLeft`: the layers to come, each at the
most it can cost, and then the phase of the main thread, the threads still running and the
slots no loader has yet marked as loaded at some layer. Every step of a forward lowers it:
the loops of the extra load, which end by a flag, always have less to load.

For the schedule, `Bookkeeping` relates recompute_num_old to the last number scheduled: a
new number is below the old one, which is at most the last scheduled. That there is a
check at all follows from how far the number of modules falls, a power of the ratio.
`LossSoFar` replaces the power by a bound that is linear in the layers: a layer takes away
a fraction of the number, and until the next whole module is gone the number is at least
what the first fall left, so between the first fall and the first check each layer takes
away at least that fraction of it. `RatioFits` then says that these losses add up to a
module in the layers there are.

For the memory, `StoreInv` speaks of lists that are handed on, `Sound`, because a refresh
changes them twice: `TakeOut` shows that the lists stay sound, but for the object taken
out, when its three entries go, and `AddAtEnd`, `RaiseAtEnd` and `StopHalfWay` that they are
sound again after each way the refresh may end. Two things are needed that no
property asks for: that places are handed out in order (`Placed`), or
`kv_places.index` might find another message's place and the lists would shift
against each other; and how far the lists are apart (`Counted`): by the messages without an
id, one for each collection that failed. `Lasting` adds that nothing raises before one has.

For the blocks, the count covers the holders (`CountCoversHolders`) rather than equals them,
because `allocate` may count sequences that hold nothing; this is enough for a
block in use never to be free, and `CountExact` adds the other half where the
allocations count one sequence. `SharedAtSamePlace` is what lets a swap send a shared
block to one new block.

For what the memory feeds, `SortedIndices` must first be shown to exist: the rank of an
entry, one more than the number of entries that precede it (`AheadCount`, `AheadGrows`),
is a bijection, and its inverse is the sorted list (`SortedExists`). That fed objects are
nearest then follows from `Precedes`. That a change of what is fed is flagged goes
through the two ways a report can act: it either leaves messages and similarities as they
were, so that the layout is the same function of the same lists (`LayoutKept`), or
raises memory_change.

For the planning loop, the parts' proofs are instantiated over the shared variables
(`SP` and `PP`), and each step of the loop is shown to be a step of each part: a report is
`ChangeMemory` of the pipeline because the store raised memory_change if its layout
changed (`ReportFlagged`), and a forward is `Forward` of the store. The theorem
`LastReportIsReused` then needs nothing but the two invariants, the pipeline's `ServedSound` at
a slot and the store's `NeverStale` at the message in it. Because the loop is a behaviour of
`PP!Spec` (`LoopRunsPipeline`), whatever is proved of the pipeline holds of the loop:
`LoopFeedsInOrder` and `LoopForwardsAreFinite` are the pipeline's theorems carried over.

For the checked forward, `ForwardInv` adds to the properties that the schedule is complete
before a layer is left (`ScheduledFirst`), that a choice is under way only before a
checked layer (`ChoosesAtCheck`), and what one hop chose (`EnoughChosen`). The k-th best
score exists because the counts of modules at or above a score rise as the score falls
(`KthExists`), so that the threshold keeps at least as many as asked for and all it keeps
are better than what it drops. The positions rest on prefix sums of lengths over sets of
modules: `SumAdd` and `SumMonotone` are proved for a recursive function from its defining
equation, whose one solution `SumExists` and `SumUnique` establish.

For the queues, `QueueInv` is what each part of the code silently relies on. `PhaseShape`
and `QueuesApart` say where a group may be at each stage of a step. `StatusTold` ties the
list a group is in to the statuses of its sequences, and is what makes every group be in
a list. `SampledBefore` is needed because of the two kinds of preemption: one that
has a single sequence is recomputed, one with several is swapped, and a group that
had not been sampled yet could be neither. `InOrder` carries the order of arrival through
the lists of a step: preempted groups are put back in front in reverse, so they must be
collected in falling order, which holds because the youngest of a sorted queue goes first.

For the blocks, `TableTold` and `SlotsTold` say that a sequence's status gives the device of
its table and the number of its blocks: as many as its tokens need if its slot has been
appended in this step, else as many as all but its last token need. `GroupsShareNothing`
makes a step of one group leave all other tables alone (`GroupStep`), which reduces each
action to one call of the block manager, whose effect on tables, counts and free lists
`BlockSpaceProofs` has shown. `AppendingTold` and `NeverOutOfBlocks` are the two halves of the
promise between `ScheduleDecode` and `AppendSlot`: the look at the free blocks covers one
block for each sequence still to be served, whether it is a new one or a copy.

For the budget, `counted` is only what the budget has been told, so the invariant speaks of
*seats*: the sequences a group may come to have. `BudgetInv` says that all groups that run
or are to run are counted while others can still be admitted (`StillAdmits`), so that the
test at admission bounds the seats of all. While groups are sampled once, the seats of a
group never rise (`MaxRunningFalls`); running sequences fit the seats of their groups, and a
batch of decodes has a token for each running sequence, so at most `MaxNumSeqs` and
hence at most `TokenBudget`. For prompts the test at admission is itself the bound.

For requests with one sample, `SingleInv` says that a group never has more than one sequence.
Then `allocate` counts a block once, so that counts are exact (`CountExact`) and blocks come
back; a preempted group is recomputed and never swapped, so that neither the assertion of
`scheduler.py:548` nor the exception of `_swap_out` can be reached; a group in a batch has
its first sequence unfinished, so `is_prefill` tells the truth and `model_runner.py:472`
holds; and no group is sampled
twice, which is the condition of `WithinBudget`. It is not an invariant of its own: that
a group is in one queue comes from `QueueInv`, and what its tables hold from `BlocksHeldInv`.

That an engine step is finite is shown by a measure again, `StagesLeft`, which has to allow for what
the loops of `_schedule_default` do to each other's queues. A group costs its turn, a slot
for each sequence, and two stages for its output; one that is still in a queue pays for all
of it, one that has been scheduled only for the rest. Preempting moves a group to a queue
that is not served again in the step, so it lowers the measure.
The queues are disjoint (`QueueInv`), hence the bound has one turn for each request.

Model-checked only: the liveness properties `ForwardEnds`, `RefinesFairFeed`, `TaskEnds`
and `RequestsEnd`. They need fairness and so ENABLED, which the prover does not reason about.
`ForwardsAreFinite` and `EvaluationsAreFinite` prove the half of `ForwardEnds` and `TaskEnds`
that needs neither, that there is no infinite run of steps within a forward or an evaluation;
that there is always a next step until the end is what TLC adds. For `RequestsEnd` only
each engine step is proved finite; that the oldest request progresses from step to step is
TLC's. Every other property of the passing runs is also a theorem.

## 5. What is not modelled

* **Threads that die.** An exception in a thread is printed and the join returns; the
  main thread goes on with what was there before. The pipeline has no such step.
* **A failed collection in `KeepPlanning`** (`MaxFailures` is 0 there). With one,
  a deleted message can change the fed layout without raising `memory_change`,
  and neither `LayoutChangeFlagged` nor `ImplementsPipeline` holds.
  `MemoryStore` shows what remains true.
* **Prompts without examples.** `reset_start` raises on them; `NumExamples > 0`.
* **Skill scoring** after the forward: batches over old_kvs, the block-causal mask,
  the skills' positions. **Serial loading**: `loading_computation_parallel` is the
  constant True (qwen2.py:53), so the serial branches never run for a planning
  forward. The collecting forward and decoding.
* **Static memory**: `use_static_memory_vllm`, the default way of collecting examples,
  enters by the positions of its keys and the place of examples in the prompt;
  `use_static_memory`, the object-wise loaders and `kv_gpu` are not called by the vLLM
  path.
* **The scene** beyond places and conditions: distances, visibility, several objects
  of a kind, slices, images, the planner's messages, `plan_whole`, the train set.
* **WAH** (`wah/*`): a second loop over the same memory with its own simulator. Its
  skill set shrinks by substring tests and its goal test lives in VirtualHome; neither says
  anything a property could hold the code to beyond `SkillEpisode`.
* **The transformers variant** (`src/KEEP_transformers`): the same memory, in a single
  thread and without tables; what is hard in it is `MemoryStore`.
* **The engine beyond scheduling**: beam search, LoRA, chunked prefill, lookahead slots,
  sliding windows, prefix caching and the second block manager are off as KEEP configures
  the engine; the asynchronous engine and the API server are not used; workers, model
  runner, attention and the other models compute tensors and have no control
  a property of this project could tell apart.
* **Data generation, training, PDDL, VirtualHome**: simulators and data vendored with the
  planner and not run by it. They and the tensor code are most of the lines of
  `src`, so the share of lines the models stand for is small whatever else is modelled.
* **Numbers**: attention weights, similarities and tokens are abstract.
* **Shared configuration**: `select_examples_topk` lowers `num_examples` in the configuration all
  tasks share; it never rises again, and by itself it makes no later task wrong.

## 6. Plan

Written, in this order: `LayerPipeline` with its invariant and proofs, its abstraction
`PromptFeed` and the refinement; `MemoryStore`; their composition `KeepPlanning`; the
algorithms `LayerPipeline` leaves open (`RecomputeSchedule`, `ModuleChoice`, `KeyPositions`);
`ExampleSelection`; `SkillEpisode` with its proofs; `CheckedForward`, which composes the
algorithms; `BlockSpace` with its proofs and `Scheduler` above it; `MemoryStoreProofs`; then the proofs
of `CheckedForward`, of what the memory feeds, of the composition `KeepPlanning`, of the
skills' successes, and of the scheduler's queues, blocks and budget; last the proofs that a
forward always has a layer to check, that requests with one sample meet every assertion of the
scheduler, that forwards, evaluations and engine steps are finite, and that the planning loop
implements `PromptFeed`.

What could follow:

1. *Skill scoring*: old_kvs consumed by the forward that follows it, batches the
   scheduler splits over two steps, skill positions from prefix_len, the block-causal
   mask; this would join `Scheduler` to `LayerPipeline`.
2. *Dying threads*: a variant of `LayerPipeline` in which a thread may end by an
   exception, and what of `PipelineInv` is left.
3. *WAH*: `SkillEpisode` over the real `MemoryStore`, with several objects of a kind, on the
   second benchmark.
4. *Proofs*: what the parts above keep of their invariants when a thread or an evaluation
   ends early.
