--------------------------- MODULE LayerPipeline ---------------------------
(***************************************************************************)
(* One planning forward of KEEP's memory-fused model: the layer loop of    *)
(* Qwen2Model.forward, the threads Qwen2DecoderLayer.forward starts for    *)
(* each layer, and the loading tables and layer-wise buffers of            *)
(* overall_kv_schedule that outlive a forward.                             *)
(*                                                                         *)
(* A module of the prompt is a slot: slots 1..KvCapacity are the objects   *)
(* in the order of sorted_indices, the slots after them the examples.  The *)
(* static prefix (module 0) is never recomputed, never reloaded and not    *)
(* modelled.  The keys and values of a module at a layer are represented   *)
(* by the content they were collected from.                                *)
(***************************************************************************)
EXTENDS Naturals, Sequences, FiniteSets

CONSTANTS
  NumLayers,      \* config.num_hidden_layers
  KvCapacity,     \* overall_kv_schedule.kv_capacity
  NumExamples,    \* len(messages_examples), fixed for an episode
  Content,        \* what a message may say
  Zero,           \* a slot of torch.zeros, never loaded
  Fresh,          \* keys and values computed by this forward
  NoKv,           \* None in place of an old_kv
  CheckLayersOf,  \* number of modules -> cache_fuse_metadata["check_layers"]
  KeepNumOf       \* number of modules -> layer -> its recompute_num

Layer == 0 .. NumLayers - 1
ObjectSlot == 1 .. KvCapacity
ExampleSlot == KvCapacity + 1 .. KvCapacity + NumExamples
Slot == ObjectSlot \union ExampleSlot
ModuleCount == NumExamples + 1 .. KvCapacity + NumExamples + 1

ASSUME PipelineAssumption ==
  /\ NumLayers \in Nat \ {0, 1}
  /\ KvCapacity \in Nat \ {0}
  /\ NumExamples \in Nat \ {0}
  /\ Zero \notin Content
  /\ Fresh \notin Content \union {Zero}
  /\ CheckLayersOf \in [ModuleCount -> SUBSET (Layer \ {0})]

VARIABLES
  objects,          \* contents of the fed objects, in sorted_indices order
  examples,         \* contents of messages_examples
  memoryChange,     \* memory_change: None, False, True
  tablesBuilt,      \* example_loading_table is not None
  loadingTable,     \* object_loading_table and example_loading_table
  layerWiseKv,      \* layer_wise_object_kv and layer_wise_example_kv
  pc,               \* the main thread, between its starts and joins
  layer,            \* the layer the main thread is in
  recomputeModules, \* cache_fuse_metadata["recompute_modules"]
  queryImp,         \* cache_fuse_metadata["query_imp_indices"]
  rows,             \* modules that still have rows in hidden_states
  positionRows,     \* modules the positions tensor was laid out for
  oldKv,            \* old_kv of this layer
  oldKvNext,        \* old_kv_next_layer
  computeThread,    \* thread2, then thread4
  scoreThread,      \* thread3
  loadThread,       \* thread1, then thread5, then thread6
  loadSet,          \* recompute_modules as the extra load read it
  finishLoad,       \* cache_fuse_metadata["finish_load"]
  keyValueHack      \* key_value_hack of every layer

memoryVars == <<objects, examples, memoryChange, tablesBuilt>>
tableVars == <<loadingTable, layerWiseKv>>
rowVars == <<queryImp, rows, positionRows>>
threadVars == <<computeThread, scoreThread, loadThread, loadSet>>
vars == <<objects, examples, memoryChange, tablesBuilt, loadingTable,
          layerWiseKv, pc, layer, recomputeModules, queryImp, rows,
          positionRows, oldKv, oldKvNext, computeThread, scoreThread,
          loadThread, loadSet, finishLoad, keyValueHack>>

Kv == [Slot -> Content \union {Zero}]
NoSlots == [l \in Layer |-> {}]
ZeroKv == [l \in Layer |-> [s \in Slot |-> Zero]]

ObjectLayouts == UNION {[1 .. n -> Content] : n \in 0 .. KvCapacity}

(* The modules of this prompt and what each of them says. *)
Active == (1 .. Len(objects)) \union ExampleSlot
Said(s) == IF s \in ObjectSlot THEN objects[s] ELSE examples[s - KvCapacity]

Modules == Len(objects) + NumExamples + 1
CheckLayers == CheckLayersOf[Modules]

-----------------------------------------------------------------------------
Init ==
  /\ objects = << >>
  /\ examples \in [1 .. NumExamples -> Content]
  /\ memoryChange = "none"
  /\ tablesBuilt = FALSE
  /\ loadingTable = NoSlots
  /\ layerWiseKv = ZeroKv
  /\ pc = "idle"
  /\ layer = 0
  /\ recomputeModules = {}
  /\ queryImp = [over |-> {}, keep |-> {}]
  /\ rows = {}
  /\ positionRows = {}
  /\ oldKv = NoKv
  /\ oldKvNext = NoKv
  /\ computeThread = "done"
  /\ scoreThread = "done"
  /\ loadThread = "done"
  /\ loadSet = {}
  /\ finishLoad = FALSE
  /\ keyValueHack = ZeroKv

(* Between forwards the memory store may change the fed objects in any way; *)
(* it then raises memory_change.  KeepPlanning shows that the store does.  *)
ChangeMemory(layout) ==
  /\ pc = "idle"
  /\ objects' = layout
  /\ memoryChange' = "yes"
  /\ UNCHANGED <<examples, tablesBuilt, tableVars, pc, layer,
                 recomputeModules, rowVars, oldKv, oldKvNext, threadVars,
                 finishLoad, keyValueHack>>

(* overall_kv_schedule.reset, then the examples chosen for the new task. *)
NewEpisode(chosen) ==
  /\ pc = "idle"
  /\ objects' = << >>
  /\ examples' = chosen
  /\ memoryChange' = "none"
  /\ tablesBuilt' = FALSE
  /\ loadingTable' = NoSlots
  /\ layerWiseKv' = ZeroKv
  /\ UNCHANGED <<pc, layer, recomputeModules, rowVars, oldKv, oldKvNext,
                 threadVars, finishLoad, keyValueHack>>

(* Mutant: the first forward leaves memory_change at None. *)
ResetStartSilent ==
  /\ ~tablesBuilt
  /\ tablesBuilt' = TRUE
  /\ memoryChange' = memoryChange
  /\ loadingTable' = NoSlots
  /\ layerWiseKv' = ZeroKv

(* reset_start: first forward of an episode.  A pending memory_change of   *)
(* True survives it.                                                       *)
ResetStart ==
  /\ ~tablesBuilt
  /\ tablesBuilt' = TRUE
  /\ memoryChange' = IF memoryChange = "none" THEN "no" ELSE memoryChange
  /\ loadingTable' = NoSlots
  /\ layerWiseKv' = ZeroKv

(* Mutant: the tables survive a change of the objects. *)
ResetStepNever ==
  /\ tablesBuilt
  /\ memoryChange' = "no"
  /\ UNCHANGED <<tableVars, tablesBuilt>>

(* reset_step: later forwards; only the object tables and buffers are       *)
(* rebuilt, and only after a change.                                       *)
ResetStep ==
  /\ tablesBuilt
  /\ memoryChange' = "no"
  /\ IF memoryChange = "yes" /\ objects # << >>
       THEN /\ loadingTable' = [l \in Layer |-> loadingTable[l] \ ObjectSlot]
            /\ layerWiseKv' = [l \in Layer |->
                 [s \in Slot |-> IF s \in ObjectSlot THEN Zero
                                                     ELSE layerWiseKv[l][s]]]
       ELSE UNCHANGED tableVars
  /\ UNCHANGED tablesBuilt

(* The forward up to the start of layer 0: every module but the static one *)
(* is to be recomputed, so nothing is loaded into old_kv of layer 0.       *)
BeginForward ==
  /\ pc = "idle"
  /\ ResetStart \/ ResetStep
  /\ pc' = "attend"
  /\ layer' = 0
  /\ recomputeModules' = Active
  /\ rows' = Active
  /\ positionRows' = Active
  /\ oldKv' = layerWiseKv'[0]
  /\ oldKvNext' = NoKv
  /\ computeThread' = "run"
  /\ loadThread' = "next"
  /\ finishLoad' = FALSE
  /\ UNCHANGED <<objects, examples, queryImp, scoreThread, loadSet,
                 keyValueHack>>

-----------------------------------------------------------------------------
(* thread2: attention (and the MLP on a layer before an unchecked one).    *)
(* Keys of recomputed modules replace those of old_kv at imp_indices.      *)
Attention ==
  /\ pc = "attend"
  /\ computeThread = "run"
  /\ computeThread' = "done"
  /\ keyValueHack' = [keyValueHack EXCEPT ![layer] =
       [s \in Slot |-> IF s \in recomputeModules THEN Fresh ELSE oldKv[s]]]
  /\ UNCHANGED <<memoryVars, tableVars, pc, layer, recomputeModules, rowVars,
                 oldKv, oldKvNext, scoreThread, loadThread, loadSet,
                 finishLoad>>

(* Copy module slots of a layer to the device and mark them loaded. *)
Load(l, slots) ==
  /\ layerWiseKv' = [layerWiseKv EXCEPT ![l] =
       [s \in Slot |-> IF s \in slots THEN Said(s) ELSE layerWiseKv[l][s]]]
  /\ loadingTable' = [loadingTable EXCEPT ![l] = @ \union slots]

(* Mutant: recompute_modules is not asked. *)
MissingAny(l, recomputed) == Active \ loadingTable[l]

Missing(l, recomputed) == (Active \ recomputed) \ loadingTable[l]

(* move_kv_layer_wise_vllm_v1(layer + 1), in thread1 beside the attention   *)
(* and again in thread6 once the next layer's modules are chosen.          *)
LoadNextLayer ==
  /\ loadThread = "next"
  /\ loadThread' = IF pc = "attend" THEN "extra" ELSE "done"
  /\ IF layer + 1 \in Layer
       THEN /\ Load(layer + 1, Missing(layer + 1, recomputeModules))
            /\ oldKvNext' = layerWiseKv'[layer + 1]
       ELSE /\ oldKvNext' = NoKv
            /\ UNCHANGED tableVars
  /\ UNCHANGED <<memoryVars, pc, layer, recomputeModules, rowVars, oldKv,
                 computeThread, scoreThread, loadSet, finishLoad,
                 keyValueHack>>

(* Mutant: a loop without its test. *)
ExtraTestNever ==
  /\ loadThread = "extra"
  /\ loadThread' = "move"
  /\ loadSet' = recomputeModules
  /\ UNCHANGED <<memoryVars, tableVars, pc, layer, recomputeModules, rowVars,
                 oldKv, oldKvNext, computeThread, scoreThread, finishLoad,
                 keyValueHack>>

(* The loop test of check_load_kv, no_check_load_kv and check_load_kv2: go *)
(* on while a compute thread is alive and something may be left to load.   *)
ExtraTest ==
  /\ loadThread = "extra"
  /\ IF (computeThread = "run" \/ scoreThread = "run") /\ ~finishLoad
       THEN /\ loadThread' = "move"
            /\ loadSet' = recomputeModules
       ELSE /\ loadThread' = "done"
            /\ UNCHANGED loadSet
  /\ UNCHANGED <<memoryVars, tableVars, pc, layer, recomputeModules, rowVars,
                 oldKv, oldKvNext, computeThread, scoreThread, finishLoad,
                 keyValueHack>>

(* What move_kv_layer_wise_extra_vllm_v1(layer + 2) may still load: it      *)
(* starts one layer above its argument.                                    *)
ExtraMissing ==
  {p \in Layer \X Slot : p[1] > layer + 2 /\ p[2] \in Missing(p[1], loadSet)}

Before(p, q) == p[1] < q[1] \/ (p[1] = q[1] /\ p[2] < q[2])

(* One call of the extra load: one module of one layer, or finish_load. *)
ExtraMove ==
  /\ loadThread = "move"
  /\ loadThread' = "extra"
  /\ loadSet' = {}
  /\ \/ /\ ExtraMissing = {}
        /\ finishLoad' = TRUE
        /\ UNCHANGED tableVars
     \/ \E p \in ExtraMissing :
          /\ \A q \in ExtraMissing : ~Before(q, p)
          /\ Load(p[1], {p[2]})
          /\ UNCHANGED finishLoad
  /\ UNCHANGED <<memoryVars, pc, layer, recomputeModules, rowVars, oldKv,
                 oldKvNext, computeThread, scoreThread, keyValueHack>>

(* thread4: the MLP, while the next layer's modules are being chosen. *)
Mlp ==
  /\ pc = "score"
  /\ computeThread = "run"
  /\ computeThread' = "done"
  /\ UNCHANGED <<memoryVars, tableVars, pc, layer, recomputeModules, rowVars,
                 oldKv, oldKvNext, scoreThread, loadThread, loadSet,
                 finishLoad, keyValueHack>>

(* Mutant: modules that were dropped compete again. *)
ChoicesRevive == {kept \in SUBSET Active : kept # {}}

(* The sets calculate_recomputation_modules may keep: at least the          *)
(* recompute_num best of the modules recomputed so far, more on a tie.     *)
KeepNum == KeepNumOf[Modules][layer + 1]
Choices ==
  {kept \in SUBSET recomputeModules :
     Cardinality(kept) >= IF KeepNum < Cardinality(recomputeModules)
                            THEN KeepNum ELSE Cardinality(recomputeModules)}

(* thread3: choose the modules the next layer recomputes; query_imp_indices *)
(* is a mask over the rows of this layer's attention.                      *)
Score ==
  /\ pc = "score"
  /\ scoreThread = "run"
  /\ scoreThread' = "done"
  /\ \E kept \in Choices :
       /\ recomputeModules' = kept
       /\ queryImp' = [over |-> recomputeModules, keep |-> kept]
  /\ UNCHANGED <<memoryVars, tableVars, pc, layer, rows, positionRows, oldKv,
                 oldKvNext, computeThread, loadThread, loadSet, finishLoad,
                 keyValueHack>>

-----------------------------------------------------------------------------
(* The main thread after its joins: into the next layer, or out. On a      *)
(* checked layer the dropped modules leave hidden_states and the positions *)
(* are laid out anew.                                                      *)
Advance ==
  /\ oldKv' = oldKvNext
  /\ layer' = layer + 1
  /\ IF layer + 1 \in Layer
       THEN /\ pc' = "attend"
            /\ computeThread' = "run"
            /\ loadThread' = "next"
            /\ oldKvNext' = NoKv
       ELSE /\ pc' = "done"
            /\ UNCHANGED <<computeThread, loadThread, oldKvNext>>
  /\ IF layer + 1 \in CheckLayers
       THEN /\ rows' = rows \ (queryImp.over \ queryImp.keep)
            /\ positionRows' = queryImp.keep
       ELSE UNCHANGED <<rows, positionRows>>
  /\ UNCHANGED <<memoryVars, tableVars, recomputeModules, queryImp,
                 scoreThread, loadSet, finishLoad, keyValueHack>>

(* Mutant: thread1 is not joined. *)
JoinAttentionEarly ==
  /\ pc = "attend"
  /\ computeThread = "done"
  /\ layer + 1 \notin CheckLayers
  /\ Advance

(* thread2.join, thread1.join. *)
JoinAttention ==
  /\ pc = "attend"
  /\ computeThread = "done"
  /\ loadThread = "done"
  /\ \/ /\ layer + 1 \notin CheckLayers
        /\ Advance
     \/ /\ layer + 1 \in CheckLayers
        /\ pc' = "score"
        /\ computeThread' = "run"
        /\ scoreThread' = "run"
        /\ loadThread' = "extra"
        /\ UNCHANGED <<memoryVars, tableVars, layer, recomputeModules,
                       rowVars, oldKv, oldKvNext, loadSet, finishLoad,
                       keyValueHack>>

(* thread4.join, thread3.join, thread5.join, thread6.start. *)
JoinScore ==
  /\ pc = "score"
  /\ computeThread = "done"
  /\ scoreThread = "done"
  /\ loadThread = "done"
  /\ pc' = "reload"
  /\ loadThread' = "next"
  /\ UNCHANGED <<memoryVars, tableVars, layer, recomputeModules, rowVars,
                 oldKv, oldKvNext, computeThread, scoreThread, loadSet,
                 finishLoad, keyValueHack>>

(* thread6.join. *)
JoinReload ==
  /\ pc = "reload"
  /\ loadThread = "done"
  /\ Advance

(* The forward returns, its local tensors are gone, and TaskPlanner.score  *)
(* has read key_value_hack of all layers.                                  *)
EndForward ==
  /\ pc = "done"
  /\ pc' = "idle"
  /\ rows' = {}
  /\ positionRows' = {}
  /\ oldKv' = NoKv
  /\ oldKvNext' = NoKv
  /\ UNCHANGED <<memoryVars, tableVars, layer, recomputeModules, queryImp,
                 threadVars, finishLoad, keyValueHack>>

ForwardStep ==
  \/ BeginForward
  \/ Attention \/ Mlp
  \/ LoadNextLayer \/ ExtraTest \/ ExtraMove
  \/ Score
  \/ JoinAttention \/ JoinScore \/ JoinReload
  \/ EndForward

Next ==
  \/ ForwardStep
  \/ \E layout \in ObjectLayouts : ChangeMemory(layout)
  \/ \E chosen \in [1 .. NumExamples -> Content] : NewEpisode(chosen)

Spec == Init /\ [][Next]_vars

(* The operating system runs every started thread, and a join returns. *)
Fairness ==
  /\ WF_vars(Attention \/ Mlp)
  /\ WF_vars(LoadNextLayer \/ ExtraTest \/ ExtraMove)
  /\ WF_vars(Score)
  /\ WF_vars(JoinAttention \/ JoinScore \/ JoinReload \/ EndForward)

FairSpec == Spec /\ Fairness

-----------------------------------------------------------------------------
TypeOK ==
  /\ objects \in ObjectLayouts
  /\ examples \in [1 .. NumExamples -> Content]
  /\ memoryChange \in {"none", "no", "yes"}
  /\ tablesBuilt \in BOOLEAN
  /\ loadingTable \in [Layer -> SUBSET Slot]
  /\ layerWiseKv \in [Layer -> Kv]
  /\ pc \in {"idle", "attend", "score", "reload", "done"}
  /\ layer \in 0 .. NumLayers
  /\ pc \in {"attend", "score", "reload"} => layer \in Layer
  /\ recomputeModules \in SUBSET Slot
  /\ queryImp \in [over : SUBSET Slot, keep : SUBSET Slot]
  /\ rows \in SUBSET Slot
  /\ positionRows \in SUBSET Slot
  /\ oldKv \in Kv \union {NoKv}
  /\ oldKvNext \in Kv \union {NoKv}
  /\ computeThread \in {"run", "done"}
  /\ scoreThread \in {"run", "done"}
  /\ loadThread \in {"next", "extra", "move", "done"}
  /\ loadSet \in SUBSET Slot
  /\ finishLoad \in BOOLEAN
  /\ keyValueHack \in [Layer -> [Slot -> Content \union {Zero, Fresh}]]

(* What an attention may see of a module: keys it computed itself, or those *)
(* collected from what the module says now.                                *)
Sound(kv, s) == kv[s] \in {Fresh, Said(s)}

(* The layers whose attention has run in this forward. *)
Attended ==
  IF pc = "idle" THEN {}
  ELSE {l \in Layer : l < layer \/ (l = layer /\ (pc = "attend" => computeThread = "done"))}

(* Every attention of a forward, and so every layer that score() hands to   *)
(* the skills, sees for each module keys of what the module says now: never *)
(* a zero slot (a load that was skipped or overtaken by the choice of       *)
(* modules) and never an older message (a table that survived a change).   *)
ServedSound == \A l \in Attended : \A s \in Active : Sound(keyValueHack[l], s)

(* A table bit set for a module of the current prompt means the slot holds  *)
(* that module's keys, whoever of the three loading threads set it, in this *)
(* forward or in an earlier one.                                           *)
TableTruth ==
  tablesBuilt /\ (memoryChange = "yes" => pc # "idle") =>
    \A l \in Layer : \A s \in Active \intersect loadingTable[l] :
      layerWiseKv[l][s] = Said(s)

(* old_kv_next_layer has been assigned for the layer about to come. *)
NextLoaded ==
  /\ layer + 1 \in Layer
  /\ (pc = "attend" /\ loadThread # "next") \/ (pc = "reload" /\ loadThread = "done")

(* An attention never runs with None for an old_kv: whichever of thread1    *)
(* and thread6 was the last to load the layer, the joins wait for it.       *)
OldKvHandedOver ==
  /\ pc = "attend" => oldKv \in Kv
  /\ NextLoaded => oldKvNext \in Kv

(* When an attention runs, hidden_states holds rows of exactly the modules  *)
(* that imp_indices overwrites, and positions was laid out for those rows;  *)
(* anything else is an index error inside a thread, which nobody sees.     *)
RowsMatch ==
  pc = "attend" /\ computeThread = "run" =>
    rows = recomputeModules /\ positionRows = rows

(* query_imp_indices is applied to hidden_states one layer after it was     *)
(* made: it still fits the rows it was made for.                           *)
MaskFits ==
  pc = "reload" => queryImp.over = rows /\ queryImp.keep = recomputeModules

(* No loading thread copies a module that is being recomputed, even when    *)
(* the choice of modules changes between its reading recompute_modules and  *)
(* its copy.                                                               *)
LoadsOnlyReused ==
  [][\A l \in Layer : (loadingTable'[l] \ loadingTable[l]) \intersect recomputeModules' = {}]_vars

(* Once a module's keys come from memory at some layer they do so at every  *)
(* later layer: its hidden rows are gone and cannot come back.             *)
ReusedStaysReused ==
  \A l, m \in Attended : l < m =>
    \A s \in Active : keyValueHack[m][s] = Fresh => keyValueHack[l][s] = Fresh

(* Every forward that starts comes to its end: the extra-load loops stop,   *)
(* every join returns.                                                     *)
ForwardEnds == pc = "attend" ~> pc = "idle"

-----------------------------------------------------------------------------
(* The strengthening that makes the properties above inductive.            *)

(* A thread is alive only between the start and the join of its phase, a    *)
(* phase belongs to the kind of layer it is for, and a forward has tables.  *)
Phases ==
  /\ pc \in {"idle", "done"} => computeThread = "done" /\ loadThread = "done"
  /\ pc = "reload" => computeThread = "done" /\ loadThread \in {"next", "done"}
  /\ pc = "score" => loadThread # "next"
  /\ scoreThread = "run" => pc = "score"
  /\ pc \in {"score", "reload"} => layer + 1 \in CheckLayers
  /\ pc = "done" => layer = NumLayers
  /\ pc # "idle" => tablesBuilt /\ recomputeModules \subseteq Active

(* The rows of hidden_states before and after the choice for the next layer. *)
RowsKept ==
  /\ pc = "attend" \/ (pc = "score" /\ scoreThread = "run") =>
       rows = recomputeModules /\ positionRows = rows
  /\ (pc = "score" /\ scoreThread = "done") \/ pc = "reload" =>
       /\ queryImp.over = rows
       /\ queryImp.keep = recomputeModules
       /\ recomputeModules \subseteq rows

(* What is handed to this attention, and to the next, is what the modules   *)
(* that are not recomputed say now.                                        *)
ReusedCurrent ==
  /\ pc = "attend" => \A s \in Active \ recomputeModules : oldKv[s] = Said(s)
  /\ NextLoaded => \A s \in Active \ recomputeModules : oldKvNext[s] = Said(s)

(* A module still recomputed was recomputed at every layer so far. *)
FreshSoFar ==
  pc # "idle" =>
    \A l \in Attended : \A s \in recomputeModules : keyValueHack[l][s] = Fresh

(* The extra load never reads a set smaller than the one in force. *)
LoadSetCovers == loadThread = "move" => recomputeModules \subseteq loadSet

(* The example tables outlive changes of the objects. *)
ExampleTruth ==
  tablesBuilt =>
    \A l \in Layer : \A s \in ExampleSlot \intersect loadingTable[l] :
      layerWiseKv[l][s] = Said(s)

PipelineInv ==
  /\ TypeOK
  /\ OldKvHandedOver
  /\ Phases
  /\ RowsKept
  /\ ReusedCurrent
  /\ FreshSoFar
  /\ LoadSetCovers
  /\ TableTruth
  /\ ExampleTruth
  /\ ServedSound
  /\ ReusedStaysReused

-----------------------------------------------------------------------------
(* What is left of a forward: layers, phases, threads that run, and what the  *)
(* extra load may still find to load in this forward or say it did not.     *)
Unloaded == {p \in Layer \X Slot : p[2] \notin loadingTable[p[1]]}

PhaseLeft ==
  CASE pc = "attend" -> 10 [] pc = "score" -> 5 [] pc \in {"reload", "done"} -> 1
    [] OTHER -> 0
LoadLeft ==
  CASE loadThread = "next" -> 3 [] loadThread = "extra" -> 2 [] loadThread = "move" -> 1
    [] OTHER -> 0
OneIf(b) == IF b THEN 1 ELSE 0

StepsLeft ==
  14 * (NumLayers - layer) + PhaseLeft + LoadLeft
    + OneIf(computeThread = "run") + OneIf(scoreThread = "run")
    + 2 * (Cardinality(Unloaded) + OneIf(~finishLoad))

MaxSteps == 14 * NumLayers + 17 + 2 * Cardinality(Layer \X Slot)

(* No forward goes on for ever, however the threads are scheduled: it has at  *)
(* most MaxSteps steps, and no two threads keep each other busy.            *)
ForwardIsFinite == [][pc # "idle" => StepsLeft' < StepsLeft]_vars

(* A call of the extra load is only made while finish_load is False. *)
MovesUnfinished == loadThread = "move" => ~finishLoad

-----------------------------------------------------------------------------
(* Refinement of PromptFeed: a layer counts as attended once its attention  *)
(* thread is done, and what was served is what key_value_hack holds.       *)
AttendedNum ==
  IF pc = "idle" THEN 0
  ELSE IF pc = "done" \/ (pc = "attend" /\ computeThread = "run") THEN layer
  ELSE layer + 1

Feed == INSTANCE PromptFeed WITH
  said <- [s \in Active |-> Said(s)],
  busy <- pc # "idle",
  fresh <- IF pc = "idle" THEN {} ELSE recomputeModules,
  attended <- AttendedNum,
  served <- [l \in 0 .. AttendedNum - 1 |-> [s \in Active |-> keyValueHack[l][s]]]

(* The threads, tables and buffers implement the plain feed: what they add  *)
(* (prefetching, partial loading, double loading) is never visible in what  *)
(* the attentions see, nor in their order.                                 *)
RefinesFeed == Feed!FeedSafety

(* Under thread fairness they also implement its promise that a forward     *)
(* goes on to the last layer.                                              *)
RefinesFairFeed == Feed!FeedSpec
=============================================================================
