----------------------------- MODULE Scheduler -----------------------------
(***************************************************************************)
(* LLMEngine.step with Scheduler._schedule_default: the queues of sequence  *)
(* groups, admission, preemption by recomputation and by swapping, and the  *)
(* processing of sampled tokens.  One engine step is run as the stages of   *)
(* its loops; requests are added and aborted between steps.  Groups are     *)
(* numbered by arrival.  Sampling is random, best_of is 1 or 2; no beam     *)
(* search, LoRA, chunked prefill or lookahead slots.                       *)
(***************************************************************************)
EXTENDS BlockSpace, SequencesExt, FiniteSetsExt

CONSTANTS
  Group,        \* requests, numbered by arrival_time
  Copies,       \* bound on the sequences a group may ever have
  BestOfs,      \* the best_of of every group, one assignment per behaviour
  PromptLens,   \* and the tokens of every prompt
  BlockSize,
  MaxLen,       \* tokens at which max_tokens or max_model_len ends a sequence
  PromptLimit,  \* prompt_limit
  TokenBudget,  \* max_num_batched_tokens
  MaxNumSeqs,   \* max_num_seqs
  Watermark,    \* watermark_blocks
  DelayFactor   \* delay_factor is not zero

ASSUME SchedulerAssumption ==
  /\ IsFiniteSet(Group) /\ Group = 1 .. Cardinality(Group)
  /\ Copies \in Nat \ {0} /\ Seqs = Group \X (1 .. Copies)
  /\ 1 .. Copies \subseteq Counts
  /\ IsFiniteSet(GpuBlocks) /\ IsFiniteSet(CpuBlocks)
  /\ BestOfs \subseteq [Group -> 1 .. 2]
  /\ PromptLens \subseteq [Group -> Nat \ {0}]
  /\ BlockSize \in Nat \ {0}
  /\ TokenBudget \in Nat
  /\ MaxLen <= TokenBudget /\ PromptLimit <= TokenBudget
  /\ MaxNumSeqs \in 1 .. TokenBudget
  /\ Watermark \in Nat
  /\ DelayFactor \in BOOLEAN

VARIABLES
  bestOf,      \* sampling_params.best_of
  promptLen,   \* len(prompt_token_ids)
  status,      \* SequenceStatus; "none" for a sequence that does not exist
  len,         \* Sequence.get_len()
  waiting, running, swapped,  \* the queues
  phase,       \* where the engine is in its step
  todo,        \* running_queue, what is left of running to schedule
  appending,   \* sequences append_slots is still to be called for
  batch,       \* groups scheduled, then groups whose output is to be processed
  prompt,      \* the batch consists of prefills
  preempted, swappedOut,
  counted,     \* _requeset_ids_num_curr_seqs
  emitted      \* tokens are appended, finished sequences not yet freed

queueVars == <<waiting, running, swapped, todo, preempted, swappedOut>>
seqVars == <<bestOf, promptLen, status, len>>
vars == <<blockVars, queueVars, seqVars, phase, appending, batch, prompt,
          counted, emitted>>

Members(g) == {s \in Seqs : s[1] = g /\ status[s] # "none"}
WithStatus(g, st) == {s \in Members(g) : status[s] = st}
Unfinished == {"waiting", "running", "swapped"}
UnfinishedSeqs(g) == {s \in Members(g) : status[s] \in Unfinished}

(* Mutant: one finished sample ends its group. *)
SomeFinished(g) == Members(g) # UnfinishedSeqs(g)

IsFinished(g) == UnfinishedSeqs(g) = {}

SetStatus(group, st) == [s \in Seqs |-> IF s \in group THEN st ELSE status[s]]

(* Mutant: a prompt counts as the one sequence it is so far. *)
RunningNow(g) == Cardinality(UnfinishedSeqs(g))

(* get_max_num_running_seqs *)
MaxRunning(g) ==
  IF bestOf[g] > Cardinality(Members(g))
    THEN bestOf[g]
    ELSE Cardinality(UnfinishedSeqs(g))

Blocks(n) == (n + BlockSize - 1) \div BlockSize
LogicalBlocks(s) == Blocks(len[s])
WaitingSeq(g) == CHOOSE s \in WithStatus(g, "waiting") : TRUE

Rises(list) == \A j, k \in DOMAIN list : j < k => list[j] < list[k]

(* The elements of a set, each once, in some order and in ascending order. *)
Listed(set) ==
  CHOOSE list \in [1 .. Cardinality(set) -> set] : IsInjection(list)
Ascending(set) ==
  CHOOSE list \in [1 .. Cardinality(set) -> set] : Rises(list)

Sorted(queue) == Ascending(ToSet(queue))

(* The blocks the allocator of a device would hand out next. *)
Pick(n, pool) ==
  CHOOSE blocks \in [1 .. n -> free \intersect pool] : IsInjection(blocks)

(* The tokens the batch computes, each the position of a sequence, and the   *)
(* seats its budget of sequences has to give.                              *)
BatchSeqs == {s \in Seqs : s[1] \in ToSet(batch) /\ status[s] = "running"}
Computed(s) == IF prompt THEN 1 .. len[s] ELSE {len[s]}
BatchTokens == Cardinality(UNION {{s} \X Computed(s) : s \in BatchSeqs})

Seats(groups) == UNION {{g} \X (1 .. MaxRunning(g)) : g \in groups}
CurrSeqs == Cardinality(Seats(counted))

CanSchedule(g, tokens) ==
  /\ BatchTokens + tokens <= TokenBudget
  /\ CurrSeqs + MaxRunning(g) <= MaxNumSeqs

Init ==
  /\ BlockInit
  /\ bestOf \in BestOfs
  /\ promptLen \in PromptLens
  /\ status = [s \in Seqs |-> "none"]
  /\ len = [s \in Seqs |-> 0]
  /\ waiting = << >> /\ running = << >> /\ swapped = << >>
  /\ phase = "idle"
  /\ todo = << >> /\ appending = << >> /\ batch = << >>
  /\ preempted = << >> /\ swappedOut = << >>
  /\ prompt = FALSE /\ emitted = FALSE
  /\ counted = {}

(* Mutant: the blocks of a sequence are forgotten. *)
DropTables(group) ==
  /\ table' = [s \in Seqs |-> IF s \in group THEN << >> ELSE table[s]]
  /\ UNCHANGED <<free, ref>>

(* free_seq, for every sequence of a set. *)
FreeSeqs(group) == Release(group)

-----------------------------------------------------------------------------
(* Between steps: add_request and abort_request. *)
AddRequest(g) ==
  /\ phase = "idle"
  /\ Members(g) = {}
  /\ \A h \in Group : h < g => Members(h) # {}
  /\ status' = [status EXCEPT ![<<g, 1>>] = "waiting"]
  /\ len' = [len EXCEPT ![<<g, 1>>] = promptLen[g]]
  /\ waiting' = Append(waiting, g)
  /\ UNCHANGED <<blockVars, running, swapped, todo, preempted, swappedOut, bestOf,
                 promptLen, phase, appending, batch, prompt, counted, emitted>>

AbortRequest(g) ==
  /\ phase = "idle"
  /\ g \in ToSet(waiting \o running \o swapped)
  /\ waiting' = RemoveFirst(waiting, g)
  /\ running' = RemoveFirst(running, g)
  /\ swapped' = RemoveFirst(swapped, g)
  /\ status' = SetStatus(UnfinishedSeqs(g), "aborted")
  /\ FreeSeqs(UnfinishedSeqs(g))
  /\ UNCHANGED <<todo, preempted, swappedOut, bestOf, promptLen, len, phase,
                 appending, batch, prompt, counted, emitted>>

(* With nothing swapped the waiting queue comes first, else the running one. *)
ToRunning ==
  /\ phase' = "running"
  /\ todo' = Sorted(running)
  /\ running' = << >>

BeginStep ==
  /\ phase = "idle"
  /\ waiting \o running \o swapped # << >>
  /\ counted' = ToSet(running)
  /\ prompt' = FALSE
  /\ IF swapped = << >>
       THEN phase' = "prefill" /\ UNCHANGED <<todo, running>>
       ELSE ToRunning
  /\ UNCHANGED <<blockVars, waiting, swapped, preempted, swappedOut, seqVars,
                 appending, batch, emitted>>

-----------------------------------------------------------------------------
(* _schedule_prefills *)
(* Mutant: only the length of a prompt is looked at. *)
NeverByLength(s) == len[s] > PromptLimit

Never(s) ==
  \/ len[s] > PromptLimit
  \/ Cardinality(GpuBlocks) - LogicalBlocks(s) < Watermark

CanAllocate(s) == NumFree(GpuBlocks) - LogicalBlocks(s) >= Watermark

Ignore ==
  /\ phase = "prefill"
  /\ waiting # << >>
  /\ Never(WaitingSeq(Head(waiting)))
  /\ status' = SetStatus(WithStatus(Head(waiting), "waiting"), "ignored")
  /\ waiting' = Tail(waiting)
  /\ UNCHANGED <<blockVars, running, swapped, todo, preempted, swappedOut, bestOf,
                 promptLen, len, phase, appending, batch, prompt, counted, emitted>>

Admissible(g) ==
  LET s == WaitingSeq(g) IN
    /\ ~Never(s)
    /\ CanAllocate(s)
    /\ CanSchedule(g, len[s])

Admit ==
  LET g == Head(waiting)
      s == WaitingSeq(g)
  IN /\ phase = "prefill"
     /\ waiting # << >>
     /\ Admissible(g)
     /\ Allocate(s, Pick(LogicalBlocks(s), GpuBlocks), Cardinality(Members(g)))
     /\ status' = [status EXCEPT ![s] = "running"]
     /\ waiting' = Tail(waiting)
     /\ batch' = Append(batch, g)
     /\ prompt' = TRUE
     /\ counted' = counted \union {g}
     /\ UNCHANGED <<running, swapped, todo, preempted, swappedOut, bestOf, promptLen,
                    len, phase, appending, emitted>>

(* The loop also ends when delay_factor holds prompts back for running ones. *)
EndPrefill ==
  /\ phase = "prefill"
  /\ \/ waiting = << >>
     \/ DelayFactor /\ running # << >>
     \/ /\ waiting # << >>
        /\ ~Never(WaitingSeq(Head(waiting)))
        /\ ~Admissible(Head(waiting))
  /\ IF batch # << >>
       THEN phase' = "close" /\ UNCHANGED <<todo, running>>
       ELSE ToRunning
  /\ UNCHANGED <<blockVars, waiting, swapped, preempted, swappedOut, seqVars,
                 appending, batch, prompt, counted, emitted>>

-----------------------------------------------------------------------------
(* _schedule_running: a group at the head of todo stays there until it is    *)
(* scheduled or preempted itself.                                          *)
Scheduling == phase = "running" /\ appending = << >> /\ todo # << >>

(* Mutant: one free block is enough for a group. *)
CanAppendOne(g) == NumFree(GpuBlocks) >= 1

CanAppend(g) == Cardinality(WithStatus(g, "running")) <= NumFree(GpuBlocks)

ScheduleDecode ==
  LET g == Head(todo) IN
    /\ Scheduling
    /\ CanAppend(g)
    /\ todo' = Tail(todo)
    /\ batch' = Append(batch, g)
    /\ appending' = Listed(WithStatus(g, "running"))
    /\ UNCHANGED <<blockVars, waiting, running, swapped, preempted, swappedOut,
                   seqVars, phase, prompt, counted, emitted>>

(* Mutant: append_slots takes every last block for its own. *)
AppendSlotShared ==
  /\ appending # << >>
  /\ LET s == Head(appending)
     IN AppendInPlace(s, LogicalBlocks(s), Pick(1, GpuBlocks)[1])
  /\ appending' = Tail(appending)
  /\ UNCHANGED <<queueVars, seqVars, phase, batch, prompt, counted, emitted>>

AppendSlot ==
  /\ appending # << >>
  /\ LET s == Head(appending)
     IN AppendSlots(s, LogicalBlocks(s), Pick(1, GpuBlocks)[1])
  /\ appending' = Tail(appending)
  /\ UNCHANGED <<queueVars, seqVars, phase, batch, prompt, counted, emitted>>

(* Mutant: the oldest of the others gives way. *)
OldestVictim == IF Len(todo) > 1 THEN todo[2] ELSE Head(todo)

(* The youngest that is left, at last the group itself. *)
Victim == todo[Len(todo)]

Preempting(mode) ==
  /\ Scheduling
  /\ ~CanAppend(Head(todo))
  /\ mode = IF MaxRunning(Victim) = 1 THEN "recompute" ELSE "swap"

PreemptByRecompute ==
  /\ Preempting("recompute")
  /\ status' = SetStatus(WithStatus(Victim, "running"), "waiting")
  /\ FreeSeqs(WithStatus(Victim, "running"))
  /\ preempted' = Append(preempted, Victim)
  /\ todo' = RemoveFirst(todo, Victim)
  /\ counted' = counted \ {Head(todo)}
  /\ UNCHANGED <<waiting, running, swapped, swappedOut, bestOf, promptLen, len, phase,
                 appending, batch, prompt, emitted>>

(* All blocks of the group, in new blocks on the other device. *)
NewPlaces(group, pool) ==
  CHOOSE mapping \in [HeldBy(group) -> free \intersect pool] : IsInjection(mapping)

CanSwapOut(g) == Cardinality(HeldBy(UnfinishedSeqs(g))) <= NumFree(CpuBlocks)

PreemptBySwap ==
  LET group == WithStatus(Victim, "running") IN
    /\ Preempting("swap")
    /\ CanSwapOut(Victim)
    /\ status' = SetStatus(group, "swapped")
    /\ Move(group, NewPlaces(group, CpuBlocks), CpuBlocks)
    /\ swappedOut' = Append(swappedOut, Victim)
    /\ todo' = RemoveFirst(todo, Victim)
    /\ counted' = counted \ {Head(todo)}
    /\ UNCHANGED <<waiting, running, swapped, preempted, bestOf, promptLen, len, phase,
                   appending, batch, prompt, emitted>>

(* The RuntimeError of _swap_out ends the engine. *)
LackSwapSpace ==
  /\ Preempting("swap")
  /\ ~CanSwapOut(Victim)
  /\ phase' = "dead"
  /\ UNCHANGED <<blockVars, queueVars, seqVars, appending, batch, prompt, counted,
                 emitted>>

EndRunning ==
  /\ phase = "running"
  /\ appending = << >> /\ todo = << >>
  /\ IF preempted \o swappedOut = << >>
       THEN phase' = "swapped" /\ swapped' = Sorted(swapped)
       ELSE phase' = "close" /\ UNCHANGED swapped
  /\ UNCHANGED <<blockVars, waiting, running, todo, preempted, swappedOut, seqVars,
                 appending, batch, prompt, counted, emitted>>

-----------------------------------------------------------------------------
(* _schedule_swapped *)
CanSwapIn(g) ==
  NumFree(GpuBlocks) - Cardinality(HeldBy(UnfinishedSeqs(g)))
    - Cardinality(WithStatus(g, "swapped")) >= Watermark

SwapInNext ==
  /\ swapped # << >>
  /\ CanSwapIn(Head(swapped))
  /\ CanSchedule(Head(swapped), Cardinality(WithStatus(Head(swapped), "swapped")))

ScheduleSwapped ==
  LET g == Head(swapped)
      group == WithStatus(g, "swapped")
  IN /\ phase = "swapped" /\ appending = << >>
     /\ SwapInNext
     /\ Move(group, NewPlaces(group, GpuBlocks), GpuBlocks)
     /\ status' = SetStatus(group, "running")
     /\ appending' = Listed(group)
     /\ swapped' = Tail(swapped)
     /\ batch' = Append(batch, g)
     /\ counted' = counted \union {g}
     /\ phase' = IF Cardinality(group) = 1 THEN phase ELSE "failing"
     /\ UNCHANGED <<waiting, running, todo, preempted, swappedOut, bestOf, promptLen,
                    len, prompt, emitted>>

(* The AssertionError for the group just swapped in, "num_new_tokens == 1".  *)
FailSwapIn ==
  /\ phase = "failing" /\ appending = << >>
  /\ phase' = "dead"
  /\ UNCHANGED <<blockVars, queueVars, seqVars, appending, batch, prompt, counted,
                 emitted>>

EndSwapped ==
  /\ phase = "swapped" /\ appending = << >>
  /\ ~SwapInNext
  /\ phase' = "close"
  /\ UNCHANGED <<blockVars, queueVars, seqVars, appending, batch, prompt, counted,
                 emitted>>

(* Mutant: what was preempted waits behind what never ran. *)
BackOfQueue(groups, queue) == queue \o Reverse(groups)

(* extendleft *)
ExtendLeft(groups, queue) == Reverse(groups) \o queue

(* Whether schedule sends an admitted group as a prompt: the stage of the    *)
(* first of its sequences, which is past its prefill once it has finished. *)
IsPrefill(g) == status[<<g, 1>>] # "finished"

(* The end of _schedule_default.  A group admitted again after its first     *)
(* sample finished is sent as a decode with all its tokens to compute: an   *)
(* assertion of _prepare_decode, "token_chunk_size == 1", ends the engine.  *)
Close ==
  /\ phase = "close"
  /\ phase' = IF prompt => \A g \in ToSet(batch) : IsPrefill(g)
                 THEN "output" ELSE "refused"
  /\ waiting' = ExtendLeft(preempted, waiting)
  /\ running' = running \o batch
  /\ swapped' = swapped \o swappedOut
  /\ preempted' = << >> /\ swappedOut' = << >>
  /\ UNCHANGED <<blockVars, todo, seqVars, appending, batch, prompt, counted, emitted>>

-----------------------------------------------------------------------------
(* _process_model_outputs.  A prompt is sampled best_of times and its parent *)
(* forked for all samples but one; afterwards every sequence gets a token.  *)
NewChild(g) ==
  IF prompt /\ bestOf[g] = 2
    THEN {<<g, Min({k \in 1 .. Copies : status[<<g, k>>] = "none"})>>}
    ELSE {}

ProcessOutput ==
  LET g == Head(batch)
      parents == WithStatus(g, "running")
      parent == CHOOSE p \in parents : TRUE
      extended == parents \union NewChild(g)
      NewLen(s) == 1 + IF s \in parents THEN len[s] ELSE len[parent]
  IN /\ phase = "output" /\ batch # << >> /\ ~emitted
     /\ prompt /\ bestOf[g] = 2 => \E k \in 1 .. Copies : status[<<g, k>>] = "none"
     /\ len' = [s \in Seqs |-> IF s \in extended THEN NewLen(s) ELSE len[s]]
     /\ \E stopped \in SUBSET extended :
          /\ {s \in extended : NewLen(s) >= MaxLen} \subseteq stopped
          /\ status' = [s \in Seqs |-> CASE s \in stopped -> "finished"
                                         [] s \in extended \ stopped -> "running"
                                         [] OTHER -> status[s]]
          /\ IF NewChild(g) \ stopped = {}
               THEN UNCHANGED blockVars
               ELSE \E child \in NewChild(g) : Fork(parent, child)
     /\ emitted' = TRUE
     /\ UNCHANGED <<queueVars, bestOf, promptLen, phase, appending, batch, prompt,
                    counted>>

FreeFinished ==
  /\ emitted
  /\ FreeSeqs({s \in Members(Head(batch)) : status[s] = "finished"})
  /\ batch' = Tail(batch)
  /\ emitted' = FALSE
  /\ UNCHANGED <<queueVars, seqVars, phase, appending, prompt, counted>>

(* The groups of a queue with sequences to finish, in their order. *)
StillUnfinished(queue) ==
  LET kept == Ascending({k \in DOMAIN queue : ~IsFinished(queue[k])})
  IN [j \in DOMAIN kept |-> queue[kept[j]]]

(* free_finished_seq_groups *)
EndStep ==
  /\ phase = "output" /\ batch = << >>
  /\ phase' = "idle"
  /\ running' = StillUnfinished(running)
  /\ UNCHANGED <<blockVars, waiting, swapped, todo, preempted, swappedOut, seqVars,
                 appending, batch, prompt, counted, emitted>>

EngineStep ==
  \/ BeginStep \/ Ignore \/ Admit \/ EndPrefill
  \/ ScheduleDecode \/ AppendSlot \/ PreemptByRecompute \/ PreemptBySwap
  \/ LackSwapSpace \/ EndRunning \/ ScheduleSwapped \/ FailSwapIn
  \/ EndSwapped \/ Close
  \/ ProcessOutput \/ FreeFinished \/ EndStep

Next == EngineStep \/ \E g \in Group : AddRequest(g) \/ AbortRequest(g)

(* has_unfinished_requests: the engine is stepped on while there are any. *)
Spec == Init /\ [][Next]_vars /\ WF_vars(EngineStep)
-----------------------------------------------------------------------------
(* The groups of a step that are in none of the queues for the time being. *)
Scheduled == IF phase \in {"output", "refused"} THEN << >> ELSE batch
InHand == todo \o preempted \o swappedOut \o Scheduled
Queued == waiting \o running \o swapped \o InHand

(* A group is in one place, once, from its arrival to its end: none is lost  *)
(* or doubled when it is preempted, swapped or admitted, and between steps  *)
(* a group is queued exactly while it has sequences to finish.             *)
OneQueue ==
  LET unfinished == {g \in Group : UnfinishedSeqs(g) # {}} IN
    /\ IsInjective(Queued)
    /\ unfinished \subseteq ToSet(Queued)
    /\ phase = "idle" => ToSet(Queued) = unfinished

(* The queue of a group tells the status of all its unfinished sequences; a  *)
(* waiting group has one, which _schedule_prefills asserts.                *)
QueueTellsStatus ==
  \A g \in Group :
    /\ g \in ToSet(waiting) =>
         Cardinality(UnfinishedSeqs(g)) = 1 /\ UnfinishedSeqs(g) = WithStatus(g, "waiting")
    /\ g \in ToSet(running) => UnfinishedSeqs(g) = WithStatus(g, "running")
    /\ g \in ToSet(swapped) => UnfinishedSeqs(g) = WithStatus(g, "swapped")

QueuesSound == OneQueue /\ QueueTellsStatus

(* _schedule_prefills does not sort the waiting queue, "because we assume it *)
(* is sorted".  It stays sorted by arrival through all preemptions, and     *)
(* nothing that runs came after something that waits.  (Something swapped   *)
(* out may have: a group of two samples gives way to an older one by        *)
(* swapping, then that one by recomputation.)                              *)
FirstComeFirstServed ==
  /\ Rises(waiting)
  /\ \A g \in ToSet(running \o todo), h \in ToSet(waiting) : g < h

(* Only the youngest give way: no group is preempted in a step that still    *)
(* decodes a younger one.                                                  *)
YoungestPreempted ==
  phase # "output" => \A g \in ToSet(batch \o todo), h \in ToSet(preempted \o swappedOut) : g < h

(* A step computes no more tokens than its budget, which _schedule_default    *)
(* asserts, and no more than max_num_seqs sequences run, which it asserts of *)
(* the groups it counted.  But for the tokens of prompts, this holds as long *)
(* as no group was given more sequences than it asked for: one that is       *)
(* preempted with its second sample already finished is admitted for what is *)
(* left of it, and then sampled best_of times again.                       *)
SampledOnce == \A g \in Group : Cardinality(Members(g)) <= bestOf[g]

WithinBudget ==
  /\ phase = "close" /\ (prompt \/ SampledOnce) => BatchTokens <= TokenBudget
  /\ SampledOnce => Cardinality({s \in Seqs : status[s] = "running"}) <= MaxNumSeqs

(* "Out of memory!" is never raised: the one look at the free blocks before  *)
(* a group is scheduled covers a new block for each of its sequences, be it *)
(* for a token or for a copy on write, whatever was swapped in before.     *)
NeedsBlock(s) ==
  Len(table[s]) < LogicalBlocks(s) \/ ref[LastBlock(s)] # 1

NeverOutOfBlocks ==
  Cardinality({s \in ToSet(appending) : NeedsBlock(s)}) <= NumFree(GpuBlocks)

(* When the model runs, each scheduled sequence has its blocks on the GPU,   *)
(* as many as its tokens need, and shares the block that is written next    *)
(* with no other: the keys of two samples of a prompt never mix.           *)
Executing == IF phase = "output" THEN ToSet(IF emitted THEN Tail(batch) ELSE batch) ELSE {}

SlotsForBatch ==
  \A g \in Executing : \A s \in WithStatus(g, "running") :
    /\ Len(table[s]) = LogicalBlocks(s)
    /\ Held(s) \subseteq GpuBlocks
    /\ Holders(LastBlock(s)) = {s}

(* All the scheduler does to the blocks are legal calls of the block         *)
(* manager, so what is proved of BlockSpec holds of the engine.  (Most       *)
(* steps leave the blocks alone, which TLC sees fastest when told first.)  *)
CallsBlocks == BlockInit /\ [][UNCHANGED blockVars \/ BlockNext]_blockVars

(* If every request asks for one sample, each request that arrived ends, be  *)
(* it finished, ignored or aborted: preemption starves nobody.             *)
OneSample == \A g \in Group : bestOf[g] = 1

RequestsEnd ==
  \A g \in Group : OneSample /\ Members(g) # {} ~> Members(g) # {} /\ IsFinished(g)

(* An assertion of _schedule_swapped: a group that is swapped in has one     *)
(* token to compute.                                                       *)
SwappedInAlone == phase # "failing"

(* tests/core/test_block_manager.py: "assert all blocks are free now", once  *)
(* the sequences are freed.                                                *)
AllFreeAtTheEnd ==
  phase = "idle" /\ (\A g \in Group : IsFinished(g)) => free = Block

-----------------------------------------------------------------------------
(* The strengthening that makes the properties of the queues inductive.     *)
Statuses == Unfinished \union {"none", "finished", "aborted", "ignored"}
Phases ==
  {"idle", "prefill", "running", "swapped", "failing", "close", "output", "refused", "dead"}

SchedulerTypeOK ==
  /\ bestOf \in [Group -> 1 .. 2] /\ promptLen \in [Group -> Nat \ {0}]
  /\ status \in [Seqs -> Statuses] /\ len \in [Seqs -> Nat]
  /\ waiting \in Seq(Group) /\ running \in Seq(Group) /\ swapped \in Seq(Group)
  /\ todo \in Seq(Group) /\ preempted \in Seq(Group) /\ swappedOut \in Seq(Group)
  /\ batch \in Seq(Group) /\ appending \in Seq(Seqs)
  /\ phase \in Phases /\ prompt \in BOOLEAN /\ emitted \in BOOLEAN

(* What a phase leaves empty. *)
PhaseShape ==
  /\ phase \in {"idle", "prefill", "close", "output"} => appending = << >> /\ todo = << >>
  /\ phase \in {"idle", "prefill", "swapped", "failing", "output"} =>
       todo = << >> /\ preempted = << >> /\ swappedOut = << >>
  /\ phase \in {"running", "swapped", "failing"} => running = << >> /\ ~prompt
  /\ phase = "idle" => batch = << >>
  /\ phase = "prefill" => prompt = (batch # << >>)
  /\ emitted => phase = "output" /\ batch # << >>

(* Each list names a group once, and no two lists name the same; but groups  *)
(* whose output is processed are running.                                  *)
QueuesApart ==
  /\ IsInjective(waiting) /\ IsInjective(running) /\ IsInjective(swapped)
  /\ IsInjective(todo) /\ IsInjective(preempted) /\ IsInjective(swappedOut)
  /\ IsInjective(batch)
  /\ ToSet(waiting) \intersect (ToSet(running) \union ToSet(swapped) \union ToSet(todo)
                                \union ToSet(preempted) \union ToSet(swappedOut)
                                \union ToSet(batch)) = {}
  /\ ToSet(running) \intersect (ToSet(swapped) \union ToSet(todo) \union ToSet(preempted)
                                \union ToSet(swappedOut)) = {}
  /\ ToSet(swapped) \intersect (ToSet(todo) \union ToSet(preempted) \union ToSet(swappedOut)
                                \union ToSet(batch)) = {}
  /\ ToSet(todo) \intersect (ToSet(preempted) \union ToSet(swappedOut) \union ToSet(batch)) = {}
  /\ ToSet(preempted) \intersect (ToSet(swappedOut) \union ToSet(batch)) = {}
  /\ ToSet(swappedOut) \intersect ToSet(batch) = {}
  /\ IF phase \in {"output", "refused"}
       THEN ToSet(batch) \subseteq ToSet(running)
       ELSE ToSet(batch) \intersect ToSet(running) = {}

OneWaiting(g) == \E s \in Seqs : UnfinishedSeqs(g) = {s} /\ status[s] = "waiting"
AllRunning(g) == UnfinishedSeqs(g) = WithStatus(g, "running")
SeveralSwapped(g) ==
  /\ UnfinishedSeqs(g) = WithStatus(g, "swapped")
  /\ \E s, t \in UnfinishedSeqs(g) : s # t

(* Groups still to be processed in this step. *)
Unprocessed == IF emitted THEN Tail(batch) ELSE batch

StatusTold ==
  /\ \A g \in ToSet(waiting) \union ToSet(preempted) : OneWaiting(g)
  /\ \A g \in ToSet(running) \union ToSet(todo) \union ToSet(batch) : AllRunning(g)
  /\ \A g \in ToSet(swapped) \union ToSet(swappedOut) : SeveralSwapped(g)
  /\ \A g \in ToSet(todo) \union ToSet(Unprocessed) : ~IsFinished(g)
  /\ phase # "output" => \A g \in ToSet(running) : ~IsFinished(g)
  /\ \A g \in Group : ~IsFinished(g) =>
       g \in ToSet(waiting) \union ToSet(running) \union ToSet(swapped) \union ToSet(todo)
               \union ToSet(preempted) \union ToSet(swappedOut) \union ToSet(batch)

(* A group was sampled once for each sequence it asked for, before it can    *)
(* be preempted.                                                           *)
Sampled(g) == bestOf[g] = 1 \/ \E s, t \in Members(g) : s # t
SampledBefore ==
  \A g \in ToSet(running) \union ToSet(todo) \union ToSet(batch) :
    Sampled(g) \/ (prompt /\ g \in ToSet(Unprocessed))

Falls(list) == \A j, k \in DOMAIN list : j < k => list[k] < list[j]

InOrder ==
  /\ Rises(waiting) /\ Rises(todo) /\ Falls(preempted)
  /\ \A g \in ToSet(running) \union ToSet(todo) \union ToSet(preempted),
        h \in ToSet(waiting) : g < h
  /\ phase \notin {"failing", "dead"} =>
       \A g \in ToSet(batch), h \in ToSet(waiting) : g < h
  /\ \A g \in ToSet(todo), h \in ToSet(preempted) \union ToSet(swappedOut) : g < h
  /\ \A g \in ToSet(running) \union ToSet(batch),
        h \in ToSet(todo) \union ToSet(preempted) \union ToSet(swappedOut) : g < h
  /\ \A g, h \in Group : h < g /\ Members(g) # {} => Members(h) # {}

QueueInv ==
  /\ SchedulerTypeOK
  /\ PhaseShape
  /\ QueuesApart
  /\ StatusTold
  /\ SampledBefore
  /\ InOrder

-----------------------------------------------------------------------------
(* The strengthening for the blocks: the status of a sequence tells whether  *)
(* it has a table and on which device.                                     *)
TableTold(s) ==
  /\ status[s] = "running" => OnDevice(s, GpuBlocks)
  /\ status[s] = "swapped" => OnDevice(s, CpuBlocks)
  /\ status[s] \in {"none", "waiting", "ignored", "aborted"} => table[s] = << >>
  /\ status[s] = "finished" => table[s] = << >> \/ (emitted /\ s[1] = Head(batch))
  /\ status[s] # "none" => len[s] >= 1

(* A sequence that is to be computed has a slot of its own for each token;   *)
(* any other has none yet for the last token.                              *)
HasSlots(s) == s[1] \in ToSet(Unprocessed) /\ s \notin ToSet(appending)

SlotsTold(s) ==
  status[s] \in {"running", "swapped"} =>
    IF HasSlots(s)
      THEN Len(table[s]) = Blocks(len[s]) /\ Holders(LastBlock(s)) = {s}
      ELSE Len(table[s]) = Blocks(len[s] - 1) /\ len[s] >= 2

(* append_slots is still to be called for running sequences of the batch. *)
AppendingTold ==
  /\ IsInjection(appending)
  /\ \A s \in ToSet(appending) : s[1] \in ToSet(batch) /\ status[s] = "running"

(* Only sequences of one group share blocks. *)
GroupsShareNothing ==
  \A s, t \in Seqs : s[1] # t[1] => Held(s) \intersect Held(t) = {}

BlocksHeldInv ==
  /\ BlockInv
  /\ \A s \in Seqs : TableTold(s) /\ SlotsTold(s)
  /\ GroupsShareNothing
  /\ AppendingTold
  /\ NeverOutOfBlocks

-----------------------------------------------------------------------------
(* The strengthening for the budget: the groups that run or are to run have   *)
(* seats for all sequences they may come to have, and as long as groups can  *)
(* still be admitted the budget counts every one of them.                   *)
Seated == ToSet(running) \union ToSet(todo) \union ToSet(batch)

StillAdmits ==
  \/ phase \in {"prefill", "swapped"}
  \/ phase = "running" /\ preempted = << >> /\ swappedOut = << >>

BudgetInv ==
  /\ counted \subseteq Group
  /\ StillAdmits => Seated \subseteq counted
  /\ SampledOnce => Cardinality(Seats(Seated)) <= MaxNumSeqs
  /\ prompt /\ phase \in {"prefill", "close"} => BatchTokens <= TokenBudget
-----------------------------------------------------------------------------
(* The strengthening for requests of one sample each: a group has one sequence *)
(* whatever becomes of it, the counts of the blocks are exact, and none of   *)
(* the errors that end the engine is met.                                  *)
OneSequence == \A s \in Seqs : status[s] # "none" => s[2] = 1
EngineLives == phase \notin {"failing", "dead", "refused"}
SingleInv == OneSample => OneSequence /\ CountExact /\ EngineLives
-----------------------------------------------------------------------------
(* What is left to do of a step of the engine: a scheduled group costs the    *)
(* two stages of its output, a waiting one those and its admission, and one  *)
(* that runs or is swapped those, its turn and a slot for each sequence.    *)
StagesAhead ==
  CASE phase = "prefill" -> 5
    [] phase = "running" -> 4
    [] phase \in {"swapped", "failing"} -> 3
    [] phase = "close" -> 2
    [] phase = "output" -> 1
    [] OTHER -> 0

ToAdmit == IF phase = "prefill" THEN Len(waiting) ELSE 0

ToSchedule ==
  Len(todo) + (IF phase = "prefill" THEN Len(running) ELSE 0)
    + (IF phase \in {"prefill", "running", "swapped"} THEN Len(swapped) ELSE 0)

ToProcess == 2 * Len(batch) - (IF emitted THEN 1 ELSE 0)

OtherStages == StagesAhead + 3 * ToAdmit + Len(appending) + ToProcess

Turns == (Copies + 3) * ToSchedule

StagesLeft == Turns + OtherStages

MaxStages == 5 + (Copies + 3) * Cardinality(Group)

(* The loops of _schedule_prefills, _schedule_running (with its search for a  *)
(* victim), _schedule_swapped and _process_model_outputs all end: each stage *)
(* leaves fewer, whatever is admitted, preempted, swapped or finished.      *)
EngineStepIsFinite == [][phase # "idle" => StagesLeft' < StagesLeft]_vars
=============================================================================
