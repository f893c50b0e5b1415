------------------------ MODULE LayerPipelineProofs ------------------------
(***************************************************************************)
(* Proofs about LayerPipeline for every number of layers, capacity, number *)
(* of examples, set of contents and check schedule.                        *)
(***************************************************************************)
EXTENDS LayerPipeline, SequenceTheorems, FiniteSetTheorems, TLAPS

(* A layout is a sequence of at most KvCapacity contents. *)
LEMMA LayoutIsSeq ==
  ASSUME NEW o \in ObjectLayouts
  PROVE  /\ o \in Seq(Content)
         /\ Len(o) \in 0 .. KvCapacity
         /\ DOMAIN o = 1 .. Len(o)
<1>1. PICK n \in 0 .. KvCapacity : o \in [1 .. n -> Content]
  BY DEF ObjectLayouts
<1>2. n \in Nat
  BY <1>1, PipelineAssumption
<1>3. o \in Seq(Content)
  BY <1>1, <1>2, IsASeq
<1>4. DOMAIN o = 1 .. n /\ DOMAIN o = 1 .. Len(o) /\ Len(o) \in Nat
  BY <1>1, <1>3, LenProperties
<1>5. Len(o) = n
  BY <1>2, <1>4
<1>6. QED
  BY <1>1, <1>3, <1>4, <1>5

(* What the type invariant says of the prompt being planned on. *)
LEMMA PromptTypes ==
  ASSUME objects \in ObjectLayouts, examples \in [1 .. NumExamples -> Content]
  PROVE  /\ Active \subseteq Slot
         /\ \A s \in Active : Said(s) \in Content
         /\ CheckLayers \subseteq Layer \ {0}
<1>1. /\ Len(objects) \in 0 .. KvCapacity
      /\ \A i \in 1 .. Len(objects) : objects[i] \in Content
  BY LayoutIsSeq, ElementOfSeq
<1>2. Active \subseteq Slot
  BY <1>1, PipelineAssumption DEF Active, Slot, ObjectSlot
<1>3. ASSUME NEW s \in Active
      PROVE  Said(s) \in Content
  <2>1. CASE s \in ObjectSlot
    BY <1>1, <2>1, PipelineAssumption
       DEF Active, Said, ObjectSlot, ExampleSlot
  <2>2. CASE s \notin ObjectSlot
    <3>1. s - KvCapacity \in 1 .. NumExamples
      BY <1>1, <2>2, PipelineAssumption DEF Active, ObjectSlot, ExampleSlot
    <3>2. QED
      BY <2>2, <3>1 DEF Said
  <2>3. QED
    BY <2>1, <2>2
<1>4. Modules \in ModuleCount
  BY <1>1, PipelineAssumption DEF Modules, ModuleCount
<1>5. QED
  BY <1>2, <1>3, <1>4, PipelineAssumption DEF CheckLayers

-----------------------------------------------------------------------------
(* Type correctness: every variable stays in its type whatever the threads  *)
(* of Qwen2DecoderLayer.forward and the planning loop do.                  *)

LEMMA EmptyTypes ==
  /\ << >> \in ObjectLayouts
  /\ NoSlots \in [Layer -> SUBSET Slot]
  /\ ZeroKv \in [Layer -> Kv]
<1>1. << >> \in Seq(Content) /\ Len(<< >>) = 0
  BY EmptySeq
<1>2. << >> \in [1 .. 0 -> Content]
  BY <1>1, LenProperties
<1>3. 0 \in 0 .. KvCapacity
  BY PipelineAssumption
<1>4. << >> \in ObjectLayouts
  BY <1>2, <1>3 DEF ObjectLayouts
<1>5. QED
  BY <1>4 DEF NoSlots, ZeroKv, Kv

LEMMA TypeInit == Init => TypeOK
<1> SUFFICES ASSUME Init
             PROVE  TypeOK
  OBVIOUS
<1>1. keyValueHack \in [Layer -> [Slot -> Content \union {Zero, Fresh}]]
  BY DEF Init, ZeroKv
<1>2. layer \in 0 .. NumLayers
  BY PipelineAssumption DEF Init
<1>3. QED
  BY <1>1, <1>2, EmptyTypes DEF Init, TypeOK

(* One copy of modules of the prompt keeps tables and buffers in their types. *)
LEMMA LoadTypes ==
  ASSUME TypeOK, NEW l \in Layer, NEW slots \in SUBSET Active, Load(l, slots)
  PROVE  /\ loadingTable' \in [Layer -> SUBSET Slot]
         /\ layerWiseKv' \in [Layer -> Kv]
<1>1. Active \subseteq Slot /\ \A s \in slots : Said(s) \in Content
  BY PromptTypes DEF TypeOK
<1>2. QED
  BY <1>1 DEF Load, TypeOK, Kv

LEMMA TypeAdvance ==
  ASSUME TypeOK, layer \in Layer, Advance
  PROVE  TypeOK'
BY PipelineAssumption
   DEF TypeOK, Advance, Layer, memoryVars, tableVars

LEMMA TypeNext == TypeOK /\ OldKvHandedOver /\ [Next]_vars => TypeOK'
<1> SUFFICES ASSUME TypeOK, OldKvHandedOver, [Next]_vars
             PROVE  TypeOK'
  OBVIOUS
<1> USE DEF memoryVars, tableVars, rowVars, threadVars
<1>0. Active \subseteq Slot
  BY PromptTypes DEF TypeOK
<1>1. CASE BeginForward
  <2>1. CASE ResetStart
    <3>1. 0 \in Layer /\ 0 \in 0 .. NumLayers
      BY PipelineAssumption DEF Layer
    <3>2. oldKv' \in Kv
      BY <1>1, <2>1, <3>1, EmptyTypes DEF BeginForward, ResetStart
    <3>3. QED
      BY <1>0, <1>1, <2>1, <3>1, <3>2, EmptyTypes
         DEF TypeOK, BeginForward, ResetStart
  <2>2. CASE ResetStep
    <3>1. /\ loadingTable' \in [Layer -> SUBSET Slot]
          /\ layerWiseKv' \in [Layer -> Kv]
      BY <2>2 DEF TypeOK, ResetStep, Kv
    <3>2. 0 \in Layer /\ 0 \in 0 .. NumLayers
      BY PipelineAssumption DEF Layer
    <3>3. oldKv' \in Kv
      BY <1>1, <3>1, <3>2 DEF BeginForward
    <3>4. QED
      BY <1>0, <1>1, <2>2, <3>1, <3>2, <3>3
         DEF TypeOK, BeginForward, ResetStep
  <2>3. QED
    BY <1>1, <2>1, <2>2 DEF BeginForward
<1>2. CASE Attention
  <2>1. layer \in Layer
    BY <1>2 DEF Attention, TypeOK
  <2>2. oldKv \in Kv
    BY <1>2 DEF Attention, OldKvHandedOver
  <2>3. QED
    BY <1>2, <2>1, <2>2 DEF TypeOK, Attention, Kv
<1>3. CASE Mlp
  BY <1>3 DEF TypeOK, Mlp
<1>4. CASE LoadNextLayer
  <2>1. CASE layer + 1 \in Layer
    <3>1. Missing(layer + 1, recomputeModules) \in SUBSET Active
      BY DEF Missing
    <3>2. /\ loadingTable' \in [Layer -> SUBSET Slot]
          /\ layerWiseKv' \in [Layer -> Kv]
      BY <1>4, <2>1, <3>1, LoadTypes DEF LoadNextLayer
    <3>3. oldKvNext' \in Kv
      BY <1>4, <2>1, <3>2 DEF LoadNextLayer
    <3>4. QED
      BY <1>4, <2>1, <3>2, <3>3 DEF TypeOK, LoadNextLayer
  <2>2. CASE layer + 1 \notin Layer
    BY <1>4, <2>2 DEF TypeOK, LoadNextLayer
  <2>3. QED
    BY <2>1, <2>2
<1>5. CASE ExtraTest
  BY <1>5 DEF TypeOK, ExtraTest
<1>6. CASE ExtraMove
  <2>1. CASE ExtraMissing = {} /\ finishLoad' = TRUE /\ UNCHANGED tableVars
    BY <1>6, <2>1 DEF TypeOK, ExtraMove
  <2>2. ASSUME NEW p \in ExtraMissing, Load(p[1], {p[2]}), UNCHANGED finishLoad
        PROVE  TypeOK'
    <3>1. p[1] \in Layer /\ {p[2]} \in SUBSET Active
      BY <2>2 DEF ExtraMissing, Missing
    <3>2. /\ loadingTable' \in [Layer -> SUBSET Slot]
          /\ layerWiseKv' \in [Layer -> Kv]
      BY <2>2, <3>1, LoadTypes
    <3>3. QED
      BY <1>6, <2>2, <3>2 DEF TypeOK, ExtraMove
  <2>3. QED
    BY <1>6, <2>1, <2>2 DEF ExtraMove
<1>7. CASE Score
  BY <1>7 DEF TypeOK, Score, Choices
<1>8. CASE JoinAttention
  BY <1>8, TypeAdvance DEF TypeOK, JoinAttention
<1>9. CASE JoinScore
  BY <1>9 DEF TypeOK, JoinScore
<1>10. CASE JoinReload
  BY <1>10, TypeAdvance DEF TypeOK, JoinReload
<1>11. CASE EndForward
  BY <1>11 DEF TypeOK, EndForward
<1>12. ASSUME NEW layout \in ObjectLayouts, ChangeMemory(layout)
       PROVE  TypeOK'
  BY <1>12 DEF TypeOK, ChangeMemory
<1>13. ASSUME NEW chosen \in [1 .. NumExamples -> Content], NewEpisode(chosen)
       PROVE  TypeOK'
  BY <1>13, EmptyTypes DEF TypeOK, NewEpisode
<1>14. CASE UNCHANGED vars
  BY <1>14 DEF TypeOK, vars
<1>15. QED
  BY <1>1, <1>2, <1>3, <1>4, <1>5, <1>6, <1>7, <1>8, <1>9, <1>10, <1>11,
     <1>12, <1>13, <1>14 DEF Next, ForwardStep

-----------------------------------------------------------------------------
(* Threads live between the start and the join of their phase. *)
LEMMA PhasesAdvance ==
  ASSUME TypeOK, Phases, Advance, pc \in {"attend", "reload"},
         computeThread = "done" \/ pc = "reload", loadThread = "done"
  PROVE  Phases'
<1>1. layer \in 0 .. NumLayers - 1 /\ NumLayers \in Nat
  BY PipelineAssumption DEF TypeOK, Layer
<1>2. /\ scoreThread' = scoreThread /\ tablesBuilt' = tablesBuilt
      /\ recomputeModules' = recomputeModules
      /\ objects' = objects
      /\ layer' = layer + 1
  BY DEF Advance, memoryVars
<1>3. scoreThread' # "run"
  BY <1>2 DEF Phases, TypeOK
<1>4. CASE layer + 1 \in Layer
  <2>1. pc' = "attend"
    BY <1>4 DEF Advance
  <2>2. QED
    BY <1>2, <1>3, <2>1 DEF Phases, Active
<1>5. CASE layer + 1 \notin Layer
  <2>1. /\ pc' = "done" /\ layer' = NumLayers
        /\ computeThread' = computeThread /\ loadThread' = loadThread
    BY <1>1, <1>2, <1>5 DEF Advance, Layer
  <2>2. computeThread = "done"
    BY DEF Phases
  <2>3. QED
    BY <1>2, <1>3, <2>1, <2>2 DEF Phases, Active
<1>6. QED
  BY <1>4, <1>5

LEMMA PhasesNext == TypeOK /\ Phases /\ [Next]_vars => Phases'
<1> SUFFICES ASSUME TypeOK, Phases, [Next]_vars
             PROVE  Phases'
  OBVIOUS
<1> USE DEF memoryVars, tableVars, rowVars, threadVars
<1>0. CheckLayers \subseteq Layer \ {0}
  BY PromptTypes DEF TypeOK
<1>1. CASE BeginForward
  BY <1>1 DEF BeginForward, ResetStart, ResetStep, Phases, Active
<1>2. CASE Attention \/ Mlp \/ LoadNextLayer \/ ExtraTest \/ ExtraMove
  <2>1. /\ UNCHANGED <<memoryVars, pc, layer, recomputeModules, scoreThread>>
        /\ computeThread' \in {computeThread, "done"}
        /\ loadThread' = "next" => loadThread = "next"
    BY <1>2 DEF Attention, Mlp, LoadNextLayer, ExtraTest, ExtraMove
  <2>2. pc \in {"idle", "done"} => loadThread' = "done"
    BY <1>2 DEF Attention, Mlp, LoadNextLayer, ExtraTest, ExtraMove, Phases
  <2>3. pc = "reload" => loadThread' \in {"next", "done"}
    BY <1>2 DEF Attention, Mlp, LoadNextLayer, ExtraTest, ExtraMove, Phases
  <2>4. QED
    BY <2>1, <2>2, <2>3 DEF Phases, CheckLayers, Modules, Active
<1>3. CASE Score
  <2>1. recomputeModules' \subseteq recomputeModules
    BY <1>3 DEF Score, Choices
  <2>2. QED
    BY <1>3, <2>1 DEF Score, Phases, CheckLayers, Modules, Active
<1>4. CASE JoinAttention
  <2>1. CASE Advance
    BY <1>4, <2>1, PhasesAdvance DEF JoinAttention
  <2>2. CASE pc' = "score"
    BY <1>4, <2>2
       DEF JoinAttention, Advance, Phases, CheckLayers, Modules, Active
  <2>3. QED
    BY <1>4, <2>1, <2>2 DEF JoinAttention
<1>5. CASE JoinScore
  BY <1>5 DEF JoinScore, Phases, CheckLayers, Modules, Active
<1>6. CASE JoinReload
  BY <1>6, PhasesAdvance DEF JoinReload
<1>7. CASE EndForward
  BY <1>7 DEF EndForward, Phases
<1>8. ASSUME NEW layout \in ObjectLayouts, ChangeMemory(layout)
      PROVE  Phases'
  BY <1>8 DEF ChangeMemory, Phases
<1>9. ASSUME NEW chosen \in [1 .. NumExamples -> Content], NewEpisode(chosen)
      PROVE  Phases'
  BY <1>9 DEF NewEpisode, Phases
<1>10. CASE UNCHANGED vars
  BY <1>10 DEF vars, Phases, CheckLayers, Modules, Active
<1>11. QED
  BY <1>1, <1>2, <1>3, <1>4, <1>5, <1>6, <1>7, <1>8, <1>9, <1>10
     DEF Next, ForwardStep

-----------------------------------------------------------------------------
(* The joins hand old_kv_next_layer on only after it was assigned. *)
LEMMA HandOverAdvance ==
  ASSUME OldKvHandedOver, Advance, layer + 1 \in Layer => NextLoaded
  PROVE  OldKvHandedOver'
<1>1. CASE layer + 1 \in Layer
  BY <1>1 DEF Advance, OldKvHandedOver, NextLoaded
<1>2. CASE layer + 1 \notin Layer
  BY <1>2 DEF Advance, OldKvHandedOver, NextLoaded
<1>3. QED
  BY <1>1, <1>2

LEMMA HandOverNext ==
  TypeOK /\ Phases /\ OldKvHandedOver /\ [Next]_vars => OldKvHandedOver'
<1> SUFFICES ASSUME TypeOK, Phases, OldKvHandedOver, [Next]_vars
             PROVE  OldKvHandedOver'
  OBVIOUS
<1> USE DEF memoryVars, tableVars, rowVars, threadVars
<1>0. TypeOK'
  BY TypeNext
<1>1. CASE BeginForward
  <2>1. 0 \in Layer
    BY PipelineAssumption DEF Layer
  <2>2. oldKv' \in Kv
    BY <1>0, <1>1, <2>1 DEF TypeOK, BeginForward
  <2>3. QED
    BY <1>1, <2>2 DEF BeginForward, OldKvHandedOver, NextLoaded
<1>2. CASE LoadNextLayer
  <2>1. oldKv' = oldKv /\ layer' = layer /\ pc' = pc
    BY <1>2 DEF LoadNextLayer
  <2>2. layer + 1 \in Layer => oldKvNext' \in Kv
    BY <1>0, <1>2 DEF TypeOK, LoadNextLayer
  <2>3. QED
    BY <2>1, <2>2 DEF OldKvHandedOver, NextLoaded
<1>3. CASE JoinAttention
  <2>1. CASE Advance
    BY <1>3, <2>1, HandOverAdvance DEF JoinAttention, NextLoaded
  <2>2. CASE pc' = "score"
    BY <1>3, <2>2 DEF OldKvHandedOver, NextLoaded
  <2>3. QED
    BY <1>3, <2>1, <2>2 DEF JoinAttention
<1>4. CASE JoinReload
  BY <1>4, HandOverAdvance DEF JoinReload, NextLoaded
<1>5. CASE Attention \/ Mlp \/ ExtraTest \/ ExtraMove \/ Score \/ UNCHANGED vars
  <2>1. /\ oldKv' = oldKv /\ oldKvNext' = oldKvNext
        /\ layer' = layer /\ pc' = pc
        /\ loadThread' = loadThread \/ loadThread \in {"extra", "move"}
    BY <1>5 DEF Attention, Mlp, ExtraTest, ExtraMove, Score, vars
  <2>2. QED
    BY <2>1 DEF OldKvHandedOver, NextLoaded, Phases
<1>6. CASE JoinScore \/ EndForward
  BY <1>6 DEF JoinScore, EndForward, OldKvHandedOver, NextLoaded
<1>7. ASSUME NEW layout \in ObjectLayouts, ChangeMemory(layout)
      PROVE  OldKvHandedOver'
  BY <1>7 DEF ChangeMemory, OldKvHandedOver, NextLoaded
<1>8. ASSUME NEW chosen \in [1 .. NumExamples -> Content], NewEpisode(chosen)
      PROVE  OldKvHandedOver'
  BY <1>8 DEF NewEpisode, OldKvHandedOver, NextLoaded
<1>9. QED
  BY <1>1, <1>2, <1>3, <1>4, <1>5, <1>6, <1>7, <1>8 DEF Next, ForwardStep

(* Type correctness, and with it that no attention is started on a None in  *)
(* place of its keys, whatever the order of the threads.                   *)
THEOREM TypeCorrect == Spec => [](TypeOK /\ OldKvHandedOver)
<1>1. Init => Phases /\ OldKvHandedOver
  BY DEF Init, Phases, OldKvHandedOver, NextLoaded
<1>2. QED
  BY TypeInit, TypeNext, PhasesNext, HandOverNext, <1>1, PTL DEF Spec

-----------------------------------------------------------------------------
(* Tables: a set bit tells the truth about its slot. *)

LEMMA SlotsApart == ExampleSlot \subseteq Active /\ ExampleSlot \intersect ObjectSlot = {}
BY PipelineAssumption DEF Active, ExampleSlot, ObjectSlot

(* Whoever loads, the bits it sets are true and the others stay as they were. *)
LEMMA LoadTruth ==
  ASSUME TypeOK, NEW l \in Layer, NEW slots \in SUBSET Active, Load(l, slots),
         objects' = objects, examples' = examples,
         NEW m \in Layer, NEW s \in loadingTable'[m],
         s \in loadingTable[m] => layerWiseKv[m][s] = Said(s)
  PROVE  layerWiseKv'[m][s] = Said(s)' /\ Said(s)' = Said(s)
<1>1. Said(s)' = Said(s)
  BY DEF Said
<1>2. Active \subseteq Slot
  BY PromptTypes DEF TypeOK
<1>3. s \in Slot
  BY <1>2, LoadTypes
<1>4. CASE m = l
  BY <1>1, <1>3, <1>4 DEF Load, TypeOK
<1>5. CASE m # l
  BY <1>1, <1>5 DEF Load, TypeOK
<1>6. QED
  BY <1>1, <1>4, <1>5

(* The steps that copy keys copy keys of modules of this prompt, to a layer *)
(* of the model.                                                           *)
LEMMA LoadingSteps ==
  ASSUME TypeOK, Phases, LoadNextLayer \/ ExtraMove
  PROVE  /\ UNCHANGED <<memoryVars, pc, layer, recomputeModules, keyValueHack>>
         /\ pc \in {"attend", "score", "reload"}
         /\ \/ UNCHANGED tableVars
            \/ \E l \in Layer : \E slots \in SUBSET Active : Load(l, slots)
<1>1. CASE LoadNextLayer
  <2>1. Missing(layer + 1, recomputeModules) \in SUBSET Active
    BY DEF Missing
  <2>2. QED
    BY <1>1, <2>1 DEF LoadNextLayer, Phases, TypeOK
<1>2. CASE ExtraMove
  <2>1. ASSUME NEW p \in ExtraMissing
        PROVE  p[1] \in Layer /\ {p[2]} \in SUBSET Active
    BY DEF ExtraMissing, Missing
  <2>2. QED
    BY <1>2, <2>1 DEF ExtraMove, Phases, TypeOK
<1>3. QED
  BY <1>1, <1>2

LEMMA ExampleTruthNext ==
  TypeOK /\ Phases /\ ExampleTruth /\ [Next]_vars => ExampleTruth'
<1> SUFFICES ASSUME TypeOK, Phases, ExampleTruth, [Next]_vars, tablesBuilt',
                    NEW l \in Layer, NEW s \in ExampleSlot, s \in loadingTable'[l]
             PROVE  layerWiseKv'[l][s] = Said(s)'
  BY DEF ExampleTruth
<1> USE DEF memoryVars, tableVars
<1>0. s \notin ObjectSlot /\ s \in Slot
  BY SlotsApart DEF Slot
<1>1. CASE BeginForward
  <2>1. CASE ResetStart
    BY <2>1 DEF ResetStart, NoSlots
  <2>2. CASE ResetStep
    <3>1. s \in loadingTable[l] /\ layerWiseKv'[l][s] = layerWiseKv[l][s]
      BY <1>0, <2>2 DEF ResetStep
    <3>2. Said(s)' = Said(s)
      BY <1>1 DEF BeginForward, Said
    <3>3. QED
      BY <2>2, <3>1, <3>2 DEF ResetStep, ExampleTruth
  <2>3. QED
    BY <1>1, <2>1, <2>2 DEF BeginForward
<1>2. CASE LoadNextLayer \/ ExtraMove
  <2>1. UNCHANGED memoryVars /\ Said(s)' = Said(s)
    BY <1>2, LoadingSteps DEF Said
  <2>2. s \in loadingTable[l] => layerWiseKv[l][s] = Said(s)
    BY <2>1 DEF ExampleTruth
  <2>3. CASE UNCHANGED tableVars
    BY <2>1, <2>2, <2>3
  <2>4. ASSUME NEW k \in Layer, NEW slots \in SUBSET Active, Load(k, slots)
        PROVE  layerWiseKv'[l][s] = Said(s)'
    BY <2>1, <2>2, <2>4, LoadTruth
  <2>5. QED
    BY <1>2, <2>3, <2>4, LoadingSteps
<1>3. CASE Attention \/ Mlp \/ ExtraTest \/ Score \/ JoinAttention \/ JoinScore
           \/ JoinReload \/ EndForward \/ UNCHANGED vars
  <2>1. UNCHANGED <<memoryVars, tableVars>>
    BY <1>3 DEF Attention, Mlp, ExtraTest, Score, JoinAttention, JoinScore,
                JoinReload, Advance, EndForward, vars
  <2>2. QED
    BY <2>1 DEF ExampleTruth, Said
<1>4. ASSUME NEW layout \in ObjectLayouts, ChangeMemory(layout)
      PROVE  layerWiseKv'[l][s] = Said(s)'
  BY <1>0, <1>4 DEF ChangeMemory, ExampleTruth, Said
<1>5. ASSUME NEW chosen \in [1 .. NumExamples -> Content], NewEpisode(chosen)
      PROVE  layerWiseKv'[l][s] = Said(s)'
  BY <1>5 DEF NewEpisode
<1>6. QED
  BY <1>1, <1>2, <1>3, <1>4, <1>5 DEF Next, ForwardStep

LEMMA TableTruthNext ==
  TypeOK /\ Phases /\ ExampleTruth /\ TableTruth /\ [Next]_vars => TableTruth'
<1> SUFFICES ASSUME TypeOK, Phases, ExampleTruth, TableTruth, [Next]_vars,
                    tablesBuilt', memoryChange' = "yes" => pc' # "idle",
                    NEW l \in Layer, NEW s \in Active', s \in loadingTable'[l]
             PROVE  layerWiseKv'[l][s] = Said(s)'
  BY DEF TableTruth
<1> USE DEF memoryVars, tableVars
<1>1. CASE BeginForward
  <2>1. Active' = Active /\ Said(s)' = Said(s)
    BY <1>1 DEF BeginForward, Active, Said
  <2>2. CASE ResetStart
    BY <2>2 DEF ResetStart, NoSlots
  <2>3. CASE ResetStep /\ memoryChange # "yes"
    BY <2>1, <2>3 DEF ResetStep, TableTruth
  <2>4. CASE ResetStep /\ memoryChange = "yes"
    <3>1. s \in ExampleSlot
      <4>1. CASE objects = << >>
        BY <2>1, <4>1, EmptySeq DEF Active
      <4>2. CASE objects # << >>
        <5>1. s \notin ObjectSlot
          BY <2>4, <4>2 DEF ResetStep
        <5>2. Active \subseteq Slot
          BY PromptTypes DEF TypeOK
        <5>3. QED
          BY <2>1, <5>1, <5>2 DEF Slot
      <4>3. QED
        BY <4>1, <4>2
    <3>2. QED
      BY <3>1, ExampleTruthNext, SlotsApart DEF ExampleTruth
  <2>5. QED
    BY <1>1, <2>2, <2>3, <2>4 DEF BeginForward
<1>2. CASE LoadNextLayer \/ ExtraMove
  <2>1. /\ UNCHANGED memoryVars
        /\ pc # "idle" /\ pc' = pc
        /\ Active' = Active /\ Said(s)' = Said(s)
    BY <1>2, LoadingSteps DEF Said, Active
  <2>2. s \in loadingTable[l] => layerWiseKv[l][s] = Said(s)
    BY <2>1 DEF TableTruth
  <2>3. CASE UNCHANGED tableVars
    BY <2>1, <2>2, <2>3
  <2>4. ASSUME NEW k \in Layer, NEW slots \in SUBSET Active, Load(k, slots)
        PROVE  layerWiseKv'[l][s] = Said(s)'
    BY <2>1, <2>2, <2>4, LoadTruth
  <2>5. QED
    BY <1>2, <2>3, <2>4, LoadingSteps
<1>3. CASE Attention \/ Mlp \/ ExtraTest \/ Score \/ JoinAttention \/ JoinScore
           \/ JoinReload \/ EndForward \/ UNCHANGED vars
  <2>1. UNCHANGED <<memoryVars, tableVars>>
    BY <1>3 DEF Attention, Mlp, ExtraTest, Score, JoinAttention, JoinScore,
                JoinReload, Advance, EndForward, vars
  <2>2. pc = "idle" => pc' = "idle"
    BY <1>3 DEF Attention, Mlp, ExtraTest, Score, JoinAttention, JoinScore,
                JoinReload, EndForward, vars, Phases
  <2>3. QED
    BY <2>1, <2>2 DEF TableTruth, Said, Active
<1>4. ASSUME NEW layout \in ObjectLayouts, ChangeMemory(layout)
      PROVE  layerWiseKv'[l][s] = Said(s)'
  BY <1>4 DEF ChangeMemory
<1>5. ASSUME NEW chosen \in [1 .. NumExamples -> Content], NewEpisode(chosen)
      PROVE  layerWiseKv'[l][s] = Said(s)'
  BY <1>5 DEF NewEpisode
<1>6. QED
  BY <1>1, <1>2, <1>3, <1>4, <1>5 DEF Next, ForwardStep

-----------------------------------------------------------------------------
(* Rows: hidden_states, positions and imp_indices agree. *)

LEMMA RowsAdvance ==
  ASSUME RowsKept, Advance, pc \in {"attend", "reload"},
         pc = "attend" => layer + 1 \notin CheckLayers,
         pc = "reload" => layer + 1 \in CheckLayers
  PROVE  RowsKept'
<1>1. rows' = recomputeModules' /\ positionRows' = rows'
  BY DEF RowsKept, Advance
<1>2. pc' \in {"attend", "done"}
  BY DEF Advance
<1>3. QED
  BY <1>1, <1>2 DEF RowsKept

LEMMA RowsNext == TypeOK /\ Phases /\ RowsKept /\ [Next]_vars => RowsKept'
<1> SUFFICES ASSUME TypeOK, Phases, RowsKept, [Next]_vars
             PROVE  RowsKept'
  OBVIOUS
<1> USE DEF rowVars, threadVars
<1>1. CASE BeginForward
  BY <1>1 DEF BeginForward, RowsKept
<1>2. CASE Attention \/ Mlp \/ LoadNextLayer \/ ExtraTest \/ ExtraMove
           \/ UNCHANGED vars
  <2>1. UNCHANGED <<pc, scoreThread, recomputeModules, rowVars>>
    BY <1>2 DEF Attention, Mlp, LoadNextLayer, ExtraTest, ExtraMove, vars
  <2>2. QED
    BY <2>1 DEF RowsKept
<1>3. CASE Score
  BY <1>3 DEF Score, Choices, RowsKept
<1>4. CASE JoinAttention
  <2>1. CASE layer + 1 \notin CheckLayers
    BY <1>4, <2>1, RowsAdvance DEF JoinAttention
  <2>2. CASE layer + 1 \in CheckLayers
    BY <1>4, <2>2 DEF JoinAttention, RowsKept
  <2>3. QED
    BY <1>4, <2>1, <2>2 DEF JoinAttention
<1>5. CASE JoinScore
  BY <1>5 DEF JoinScore, RowsKept
<1>6. CASE JoinReload
  BY <1>6, RowsAdvance DEF JoinReload, Phases
<1>7. CASE EndForward
  BY <1>7 DEF EndForward, RowsKept
<1>8. ASSUME NEW layout \in ObjectLayouts, ChangeMemory(layout)
      PROVE  RowsKept'
  BY <1>8 DEF ChangeMemory, RowsKept
<1>9. ASSUME NEW chosen \in [1 .. NumExamples -> Content], NewEpisode(chosen)
      PROVE  RowsKept'
  BY <1>9 DEF NewEpisode, RowsKept
<1>10. QED
  BY <1>1, <1>2, <1>3, <1>4, <1>5, <1>6, <1>7, <1>8, <1>9
     DEF Next, ForwardStep

-----------------------------------------------------------------------------
(* What is handed to the attentions. *)

LEMMA ReusedAdvance ==
  ASSUME ReusedCurrent, Advance, layer + 1 \in Layer => NextLoaded
  PROVE  ReusedCurrent'
<1>1. UNCHANGED <<objects, examples, recomputeModules>>
  BY DEF Advance, memoryVars
<1>2. Active' = Active /\ \A s : Said(s)' = Said(s)
  BY <1>1 DEF Active, Said
<1>3. CASE layer + 1 \in Layer
  <2>1. oldKv' = oldKvNext /\ loadThread' = "next" /\ pc' = "attend"
    BY <1>3 DEF Advance
  <2>2. QED
    BY <1>1, <1>2, <1>3, <2>1 DEF ReusedCurrent, NextLoaded
<1>4. CASE layer + 1 \notin Layer
  BY <1>4 DEF Advance, ReusedCurrent, NextLoaded
<1>5. QED
  BY <1>3, <1>4

LEMMA ReusedNext ==
  TypeOK /\ Phases /\ TableTruth /\ ReusedCurrent /\ [Next]_vars => ReusedCurrent'
<1> SUFFICES ASSUME TypeOK, Phases, TableTruth, ReusedCurrent, [Next]_vars
             PROVE  ReusedCurrent'
  OBVIOUS
<1> USE DEF memoryVars, tableVars, threadVars
<1>1. CASE BeginForward
  <2>1. Active' = Active /\ recomputeModules' = Active /\ loadThread' = "next"
        /\ pc' = "attend"
    BY <1>1 DEF BeginForward, Active
  <2>2. QED
    BY <2>1 DEF ReusedCurrent, NextLoaded
<1>2. CASE LoadNextLayer
  <2>1. /\ UNCHANGED <<memoryVars, pc, layer, recomputeModules, oldKv>>
        /\ Active' = Active /\ \A s : Said(s)' = Said(s)
    BY <1>2 DEF LoadNextLayer, Active, Said
  <2>2. ASSUME layer + 1 \in Layer, NEW s \in Active \ recomputeModules
        PROVE  oldKvNext'[s] = Said(s)
    <3>1. /\ Load(layer + 1, Missing(layer + 1, recomputeModules))
          /\ oldKvNext' = layerWiseKv'[layer + 1]
      BY <1>2, <2>2 DEF LoadNextLayer
    <3>2. Missing(layer + 1, recomputeModules) \in SUBSET Active
      BY DEF Missing
    <3>3. s \in loadingTable'[layer + 1]
      BY <2>2, <3>1 DEF Load, Missing, TypeOK
    <3>4. s \in loadingTable[layer + 1] => layerWiseKv[layer + 1][s] = Said(s)
      BY <1>2, <2>2, LoadingSteps DEF TableTruth, Phases
    <3>5. QED
      BY <2>1, <2>2, <3>1, <3>2, <3>3, <3>4, LoadTruth
  <2>3. QED
    BY <2>1, <2>2 DEF ReusedCurrent, NextLoaded
<1>3. CASE Attention \/ Mlp \/ ExtraTest \/ ExtraMove \/ UNCHANGED vars
  <2>1. /\ UNCHANGED <<objects, examples, recomputeModules, oldKv, oldKvNext,
                       layer, pc>>
        /\ loadThread' = loadThread \/ loadThread \in {"extra", "move"}
    BY <1>3 DEF Attention, Mlp, ExtraTest, ExtraMove, vars
  <2>2. Active' = Active /\ \A s : Said(s)' = Said(s)
    BY <2>1 DEF Active, Said
  <2>3. NextLoaded' => NextLoaded
    BY <2>1 DEF NextLoaded, Phases
  <2>4. QED
    BY <2>1, <2>2, <2>3 DEF ReusedCurrent
<1>4. CASE Score
  BY <1>4 DEF Score, ReusedCurrent, NextLoaded
<1>5. CASE JoinAttention
  <2>1. CASE Advance
    BY <1>5, <2>1, ReusedAdvance DEF JoinAttention, NextLoaded
  <2>2. CASE pc' = "score"
    BY <2>2 DEF ReusedCurrent, NextLoaded
  <2>3. QED
    BY <1>5, <2>1, <2>2 DEF JoinAttention
<1>6. CASE JoinScore
  BY <1>6 DEF JoinScore, ReusedCurrent, NextLoaded
<1>7. CASE JoinReload
  BY <1>7, ReusedAdvance DEF JoinReload, NextLoaded
<1>8. CASE EndForward
  BY <1>8 DEF EndForward, ReusedCurrent, NextLoaded
<1>9. ASSUME NEW layout \in ObjectLayouts, ChangeMemory(layout)
      PROVE  ReusedCurrent'
  BY <1>9 DEF ChangeMemory, ReusedCurrent, NextLoaded
<1>10. ASSUME NEW chosen \in [1 .. NumExamples -> Content], NewEpisode(chosen)
       PROVE  ReusedCurrent'
  BY <1>10 DEF NewEpisode, ReusedCurrent, NextLoaded
<1>11. QED
  BY <1>1, <1>2, <1>3, <1>4, <1>5, <1>6, <1>7, <1>8, <1>9, <1>10
     DEF Next, ForwardStep

-----------------------------------------------------------------------------
(* What the attentions have seen. *)

(* Every step but the attention, the start and the end of a forward leaves  *)
(* the layers already attended, and what they saw, as they are.            *)
QuietStep ==
  \/ Mlp \/ LoadNextLayer \/ ExtraTest \/ ExtraMove \/ Score
  \/ JoinAttention \/ JoinScore \/ JoinReload \/ UNCHANGED vars

LEMMA QuietSteps ==
  ASSUME TypeOK, Phases, QuietStep
  PROVE  /\ Attended' = Attended
         /\ pc' = "idle" <=> pc = "idle"
         /\ UNCHANGED <<objects, examples, keyValueHack>>
         /\ Active' = Active /\ \A s : Said(s)' = Said(s)
         /\ recomputeModules' \subseteq recomputeModules
<1> USE DEF memoryVars, tableVars, rowVars, threadVars
<1>1. ASSUME Advance, pc \in {"attend", "reload"}, computeThread = "done"
      PROVE  Attended' = Attended
  <2>1. layer \in 0 .. NumLayers - 1 /\ layer' = layer + 1 /\ NumLayers \in Nat
    BY <1>1, PipelineAssumption DEF Advance, TypeOK, Layer
  <2>2. Attended = {l \in Layer : l < layer + 1}
    BY <1>1, <2>1 DEF Attended, Layer
  <2>3. CASE layer + 1 \in Layer
    <3>1. pc' = "attend" /\ computeThread' = "run"
      BY <1>1, <2>3 DEF Advance
    <3>2. QED
      BY <2>1, <2>2, <3>1 DEF Attended
  <2>4. CASE layer + 1 \notin Layer
    <3>1. pc' = "done" /\ layer' \notin Layer
      BY <1>1, <2>1, <2>4 DEF Advance
    <3>2. QED
      BY <2>1, <2>2, <3>1 DEF Attended
  <2>5. QED
    BY <2>3, <2>4
<1>2. CASE Mlp \/ LoadNextLayer \/ ExtraTest \/ ExtraMove \/ Score \/ JoinScore
           \/ UNCHANGED vars
  <2>1. /\ layer' = layer
        /\ pc' = pc \/ {pc, pc'} = {"score", "reload"}
        /\ pc = "attend" => computeThread' = computeThread
        /\ UNCHANGED <<objects, examples, keyValueHack>>
        /\ recomputeModules' \subseteq recomputeModules
    BY <1>2 DEF Mlp, LoadNextLayer, ExtraTest, ExtraMove, Score, Choices,
                JoinScore, vars
  <2>2. Attended' = Attended
    BY <2>1 DEF Attended
  <2>3. QED
    BY <2>1, <2>2 DEF Active, Said
<1>3. CASE JoinAttention
  <2>1. CASE Advance
    BY <1>1, <1>3, <2>1 DEF JoinAttention, Advance, Active, Said
  <2>2. CASE pc' = "score" /\ ~Advance
    BY <1>3, <2>2 DEF JoinAttention, Attended, Active, Said
  <2>3. QED
    BY <1>3, <2>1, <2>2 DEF JoinAttention
<1>4. CASE JoinReload
  BY <1>1, <1>4 DEF JoinReload, Advance, Active, Said, Phases
<1>5. QED
  BY <1>2, <1>3, <1>4 DEF QuietStep

(* The attention adds its layer: modules it recomputed are fresh, the others *)
(* say what they say now.                                                  *)
LEMMA AttentionStep ==
  ASSUME TypeOK, Phases, OldKvHandedOver, ReusedCurrent, Attention
  PROVE  /\ Attended' = Attended \union {layer}
         /\ layer \in Layer /\ \A l \in Attended : l < layer
         /\ pc' # "idle" /\ recomputeModules' = recomputeModules
         /\ Active' = Active /\ \A s : Said(s)' = Said(s)
         /\ \A l \in Attended : keyValueHack'[l] = keyValueHack[l]
         /\ \A s \in Slot \intersect recomputeModules : keyValueHack'[layer][s] = Fresh
         /\ \A s \in Active \ recomputeModules : keyValueHack'[layer][s] = Said(s)
<1> USE DEF memoryVars
<1>1. /\ pc = "attend" /\ pc' = "attend" /\ computeThread = "run"
      /\ computeThread' = "done" /\ layer' = layer
      /\ recomputeModules' = recomputeModules
      /\ UNCHANGED <<objects, examples>>
  BY DEF Attention
<1>2. layer \in Layer /\ layer \in Nat
  BY <1>1, PipelineAssumption DEF TypeOK, Layer
<1>3. Attended = {l \in Layer : l < layer}
  BY <1>1 DEF Attended
<1>4. Attended' = {l \in Layer : l < layer \/ l = layer}
  BY <1>1 DEF Attended
<1>5. \A l \in Attended : l < layer /\ keyValueHack'[l] = keyValueHack[l]
  BY <1>2, <1>3 DEF Attention, TypeOK, Layer
<1>6. \A s \in Slot : keyValueHack'[layer][s] =
                        IF s \in recomputeModules THEN Fresh ELSE oldKv[s]
  BY <1>2 DEF Attention, TypeOK
<1>7. \A s \in Active \ recomputeModules : oldKv[s] = Said(s) /\ s \in Slot
  BY <1>1, PromptTypes DEF ReusedCurrent, TypeOK
<1>8. QED
  BY <1>1, <1>2, <1>3, <1>4, <1>5, <1>6, <1>7 DEF Active, Said

(* The steps of Next, as the invariants about past attentions see them. *)
LEMMA StepKinds ==
  ASSUME TypeOK, [Next]_vars
  PROVE  \/ QuietStep
         \/ Attention
         \/ BeginForward
         \/ pc' = "idle"
BY DEF Next, ForwardStep, QuietStep, EndForward, ChangeMemory, NewEpisode

LEMMA NothingAttended ==
  ASSUME pc' = "idle" \/ BeginForward
  PROVE  Attended' = {}
BY PipelineAssumption DEF BeginForward, Attended, Layer

LEMMA FreshNext ==
  TypeOK /\ Phases /\ OldKvHandedOver /\ ReusedCurrent /\ FreshSoFar /\ [Next]_vars
    => FreshSoFar'
<1> SUFFICES ASSUME TypeOK, Phases, OldKvHandedOver, ReusedCurrent, FreshSoFar,
                    [Next]_vars, pc' # "idle",
                    NEW l \in Attended', NEW s \in recomputeModules'
             PROVE  keyValueHack'[l][s] = Fresh
  BY DEF FreshSoFar
<1>1. CASE QuietStep
  BY <1>1, QuietSteps DEF FreshSoFar
<1>2. CASE Attention
  <2>1. s \in Slot /\ s \in recomputeModules
    BY <1>2, AttentionStep DEF TypeOK
  <2>2. CASE l = layer
    BY <1>2, <2>1, <2>2, AttentionStep
  <2>3. CASE l # layer
    <3>1. l \in Attended /\ keyValueHack'[l] = keyValueHack[l]
      BY <1>2, <2>3, AttentionStep
    <3>2. pc # "idle"
      BY <1>2 DEF Attention
    <3>3. QED
      BY <2>1, <3>1, <3>2 DEF FreshSoFar
  <2>4. QED
    BY <2>2, <2>3
<1>3. CASE BeginForward
  BY <1>3, NothingAttended
<1>4. QED
  BY <1>1, <1>2, <1>3, StepKinds

LEMMA ServedNext ==
  TypeOK /\ Phases /\ OldKvHandedOver /\ ReusedCurrent /\ ServedSound /\ [Next]_vars
    => ServedSound'
<1> SUFFICES ASSUME TypeOK, Phases, OldKvHandedOver, ReusedCurrent, ServedSound,
                    [Next]_vars, NEW l \in Attended', NEW s \in Active'
             PROVE  keyValueHack'[l][s] \in {Fresh, Said(s)'}
  BY DEF ServedSound, Sound
<1>1. CASE QuietStep
  BY <1>1, QuietSteps DEF ServedSound, Sound
<1>2. CASE Attention
  <2>1. s \in Active /\ s \in Slot /\ Said(s)' = Said(s)
    BY <1>2, AttentionStep, PromptTypes DEF TypeOK
  <2>2. CASE l = layer
    BY <1>2, <2>1, <2>2, AttentionStep
  <2>3. CASE l # layer
    <3>1. l \in Attended /\ keyValueHack'[l] = keyValueHack[l]
      BY <1>2, <2>3, AttentionStep
    <3>2. QED
      BY <2>1, <3>1 DEF ServedSound, Sound
  <2>4. QED
    BY <2>2, <2>3
<1>3. CASE BeginForward \/ pc' = "idle"
  BY <1>3, NothingAttended
<1>4. QED
  BY <1>1, <1>2, <1>3, StepKinds

LEMMA StaysReusedNext ==
  TypeOK /\ Phases /\ OldKvHandedOver /\ ReusedCurrent /\ FreshSoFar
    /\ ReusedStaysReused /\ [Next]_vars => ReusedStaysReused'
<1> SUFFICES ASSUME TypeOK, Phases, OldKvHandedOver, ReusedCurrent, FreshSoFar,
                    ReusedStaysReused, [Next]_vars,
                    NEW l \in Attended', NEW m \in Attended', l < m,
                    NEW s \in Active', keyValueHack'[m][s] = Fresh
             PROVE  keyValueHack'[l][s] = Fresh
  BY DEF ReusedStaysReused
<1>1. CASE QuietStep
  BY <1>1, QuietSteps DEF ReusedStaysReused
<1>2. CASE Attention
  <2>1. s \in Active /\ s \in Slot /\ Said(s) \in Content
    BY <1>2, AttentionStep, PromptTypes DEF TypeOK
  <2>2. CASE m = layer
    <3>1. s \in recomputeModules
      BY <1>2, <2>1, <2>2, AttentionStep, PipelineAssumption
    <3>2. layer \in Int
      BY <1>2, AttentionStep DEF Layer
    <3>3. l \in Attended /\ keyValueHack'[l] = keyValueHack[l]
      BY <1>2, <2>2, <3>2, AttentionStep
    <3>4. QED
      BY <1>2, <3>1, <3>3 DEF FreshSoFar, Attention
  <2>3. CASE m # layer
    <3>1. m \in Attended /\ m < layer
      BY <1>2, <2>3, AttentionStep
    <3>2. layer \in Int /\ m \in Int /\ l \in Int
      BY <1>2, AttentionStep DEF Layer, Attended
    <3>3. l \in Attended
      BY <1>2, <3>1, <3>2, AttentionStep
    <3>4. QED
      BY <1>2, <2>1, <3>1, <3>3, AttentionStep DEF ReusedStaysReused
  <2>4. QED
    BY <2>2, <2>3
<1>3. CASE BeginForward \/ pc' = "idle"
  BY <1>3, NothingAttended
<1>4. QED
  BY <1>1, <1>2, <1>3, StepKinds

-----------------------------------------------------------------------------
(* The extra load's snapshot of recompute_modules. *)
LEMMA LoadSetNext == TypeOK /\ Phases /\ LoadSetCovers /\ [Next]_vars => LoadSetCovers'
<1> SUFFICES ASSUME TypeOK, Phases, LoadSetCovers, [Next]_vars
             PROVE  LoadSetCovers'
  OBVIOUS
<1> USE DEF LoadSetCovers, threadVars
<1>1. CASE BeginForward \/ LoadNextLayer \/ ExtraTest \/ ExtraMove
           \/ JoinAttention \/ JoinScore \/ JoinReload
  BY <1>1 DEF BeginForward, LoadNextLayer, ExtraTest, ExtraMove,
              JoinAttention, JoinScore, JoinReload, Advance
<1>2. CASE Attention \/ Mlp \/ Score \/ EndForward \/ UNCHANGED vars
  BY <1>2 DEF Attention, Mlp, Score, Choices, EndForward, vars
<1>3. ASSUME NEW layout \in ObjectLayouts, ChangeMemory(layout)
      PROVE  LoadSetCovers'
  BY <1>3 DEF ChangeMemory
<1>4. ASSUME NEW chosen \in [1 .. NumExamples -> Content], NewEpisode(chosen)
      PROVE  LoadSetCovers'
  BY <1>4 DEF NewEpisode
<1>5. QED
  BY <1>1, <1>2, <1>3, <1>4 DEF Next, ForwardStep

(* The inductive invariant of the pipeline. *)
LEMMA InvInit == Init => PipelineInv
<1> SUFFICES ASSUME Init
             PROVE  PipelineInv
  OBVIOUS
<1>1. Attended = {}
  BY DEF Init, Attended
<1>2. TypeOK
  BY TypeInit
<1>3. QED
  BY <1>1, <1>2
     DEF Init, PipelineInv, OldKvHandedOver, NextLoaded, Phases, RowsKept,
         ReusedCurrent, FreshSoFar, LoadSetCovers, TableTruth, ExampleTruth,
         ServedSound, ReusedStaysReused

LEMMA InvNext == PipelineInv /\ [Next]_vars => PipelineInv'
BY TypeNext, PhasesNext, HandOverNext, RowsNext, ReusedNext, FreshNext,
   LoadSetNext, TableTruthNext, ExampleTruthNext, ServedNext, StaysReusedNext
   DEF PipelineInv

THEOREM PipelineInvariant == Spec => []PipelineInv
BY InvInit, InvNext, PTL DEF Spec

(* Every attention of every forward, and the skills scored after it, see    *)
(* each module either computed afresh or as the memory says it now is.     *)
THEOREM ServedSoundAlways == Spec => []ServedSound
<1>1. PipelineInv => ServedSound
  BY DEF PipelineInv
<1>2. QED
  BY <1>1, PipelineInvariant, PTL

(* A bit of the loading tables, once it may be read, is true. *)
THEOREM TableTruthAlways == Spec => []TableTruth
<1>1. PipelineInv => TableTruth
  BY DEF PipelineInv
<1>2. QED
  BY <1>1, PipelineInvariant, PTL

(* At every attention hidden_states, positions and imp_indices agree, and   *)
(* the mask that dropped rows fitted them.                                 *)
THEOREM RowsAlwaysFit == Spec => [](RowsMatch /\ MaskFits)
<1>1. PipelineInv => RowsMatch /\ MaskFits
  BY DEF PipelineInv, RowsKept, RowsMatch, MaskFits
<1>2. QED
  BY <1>1, PipelineInvariant, PTL

(* Once reused, a module is reused at every later layer of the forward. *)
THEOREM ReuseIsMonotone == Spec => []ReusedStaysReused
<1>1. PipelineInv => ReusedStaysReused
  BY DEF PipelineInv
<1>2. QED
  BY <1>1, PipelineInvariant, PTL

(* No thread copies keys of a module that is being recomputed: the extra    *)
(* load may work from an older choice, but an older choice is a larger one. *)
THEOREM LoadsOnlyReusedAlways == Spec => LoadsOnlyReused
<1>1. ASSUME PipelineInv, [Next]_vars, NEW l \in Layer
      PROVE  (loadingTable'[l] \ loadingTable[l]) \intersect recomputeModules' = {}
  <2> USE DEF tableVars
  <2>1. CASE LoadNextLayer
    <3>1. recomputeModules' = recomputeModules
      BY <2>1 DEF LoadNextLayer
    <3>2. loadingTable'[l] \subseteq loadingTable[l] \union (Active \ recomputeModules)
      BY <1>1, <2>1 DEF LoadNextLayer, Load, Missing, PipelineInv, TypeOK
    <3>3. QED
      BY <3>1, <3>2
  <2>2. CASE ExtraMove
    <3>1. recomputeModules' = recomputeModules /\ recomputeModules \subseteq loadSet
      BY <1>1, <2>2 DEF ExtraMove, PipelineInv, LoadSetCovers
    <3>2. loadingTable'[l] \subseteq loadingTable[l] \union (Active \ loadSet)
      <4>1. ASSUME NEW p \in ExtraMissing, Load(p[1], {p[2]})
            PROVE  loadingTable'[l] \subseteq loadingTable[l] \union (Active \ loadSet)
        BY <1>1, <4>1 DEF Load, ExtraMissing, Missing, PipelineInv, TypeOK
      <4>2. QED
        BY <2>2, <4>1 DEF ExtraMove
    <3>3. QED
      BY <3>1, <3>2
  <2>3. CASE BeginForward
    BY <1>1, <2>3
       DEF BeginForward, ResetStart, ResetStep, NoSlots, PipelineInv, TypeOK
  <2>4. CASE Attention \/ Mlp \/ ExtraTest \/ Score \/ JoinAttention \/ JoinScore
             \/ JoinReload \/ EndForward \/ UNCHANGED vars
    <3>1. loadingTable' = loadingTable
      BY <2>4 DEF Attention, Mlp, ExtraTest, Score, JoinAttention, JoinScore,
                  JoinReload, Advance, EndForward, vars
    <3>2. QED
      BY <3>1
  <2>5. ASSUME NEW layout \in ObjectLayouts, ChangeMemory(layout)
        PROVE  loadingTable' = loadingTable
    BY <2>5 DEF ChangeMemory
  <2>6. ASSUME NEW chosen \in [1 .. NumExamples -> Content], NewEpisode(chosen)
        PROVE  loadingTable' = NoSlots
    BY <2>6 DEF NewEpisode
  <2>7. QED
    BY <1>1, <2>1, <2>2, <2>3, <2>4, <2>5, <2>6 DEF Next, ForwardStep, NoSlots
<1>2. PipelineInv /\ [Next]_vars =>
        [\A l \in Layer :
           (loadingTable'[l] \ loadingTable[l]) \intersect recomputeModules' = {}]_vars
  BY <1>1
<1>3. QED
  BY <1>2, PipelineInvariant, PTL DEF Spec, LoadsOnlyReused

-----------------------------------------------------------------------------
(* Forwards are finite: each step of a forward leaves it fewer to take.      *)
LEMMA PlacesFinite ==
  /\ IsFiniteSet(Layer \X Slot)
  /\ Cardinality(Layer \X Slot) \in Nat
<1>1. IsFiniteSet(Layer)
  BY FS_Interval, PipelineAssumption DEF Layer
<1>2. IsFiniteSet(1 .. KvCapacity + NumExamples)
  BY FS_Interval, PipelineAssumption
<1>3. Slot \subseteq 1 .. KvCapacity + NumExamples
  BY PipelineAssumption DEF Slot, ObjectSlot, ExampleSlot
<1>4. IsFiniteSet(Slot)
  BY <1>2, <1>3, FS_Subset
<1>5. QED
  BY <1>1, <1>4, FS_Product, FS_CardinalityType

(* The measure is a natural number, and no greater than MaxSteps. *)
LEMMA PartsLeft ==
  ASSUME TypeOK
  PROVE  /\ IsFiniteSet(Unloaded) /\ Cardinality(Unloaded) \in Nat
         /\ Cardinality(Unloaded) <= Cardinality(Layer \X Slot)
         /\ PhaseLeft \in 0 .. 10 /\ LoadLeft \in 0 .. 3
         /\ \A b \in BOOLEAN : OneIf(b) \in 0 .. 1
         /\ layer \in 0 .. NumLayers /\ NumLayers \in Nat
<1>1. Unloaded \in SUBSET (Layer \X Slot)
  BY DEF Unloaded
<1>2. /\ IsFiniteSet(Unloaded) /\ Cardinality(Unloaded) \in Nat
      /\ Cardinality(Unloaded) <= Cardinality(Layer \X Slot)
  BY <1>1, PlacesFinite, FS_Subset, FS_CardinalityType
<1>3. PhaseLeft \in 0 .. 10 /\ LoadLeft \in 0 .. 3
  BY DEF PhaseLeft, LoadLeft, TypeOK
<1>4. \A b \in BOOLEAN : OneIf(b) \in 0 .. 1
  BY DEF OneIf
<1>5. layer \in 0 .. NumLayers /\ NumLayers \in Nat
  BY PipelineAssumption DEF TypeOK
<1>6. QED
  BY <1>2, <1>3, <1>4, <1>5

LEMMA StepsBounded == TypeOK => StepsLeft \in 0 .. MaxSteps
<1> SUFFICES ASSUME TypeOK PROVE StepsLeft \in 0 .. MaxSteps
  OBVIOUS
<1>1. OneIf(computeThread = "run") \in 0 .. 1 /\ OneIf(scoreThread = "run") \in 0 .. 1
      /\ OneIf(~finishLoad) \in 0 .. 1
  BY DEF OneIf
<1>2. QED
  BY <1>1, PartsLeft, PlacesFinite DEF StepsLeft, MaxSteps

(* No step of a forward takes a bit of the tables back. *)
LEMMA UnloadedFalls ==
  ASSUME TypeOK, TypeOK', \A l \in Layer : loadingTable[l] \subseteq loadingTable'[l]
  PROVE  /\ Cardinality(Unloaded)' \in Nat
         /\ Cardinality(Unloaded)' <= Cardinality(Unloaded)
         /\ \A p \in Unloaded : p \notin Unloaded' =>
              Cardinality(Unloaded)' <= Cardinality(Unloaded) - 1
<1>1. Unloaded' \subseteq Unloaded
  BY DEF Unloaded
<1>2. IsFiniteSet(Unloaded) /\ Cardinality(Unloaded) \in Nat
  BY PartsLeft
<1>3. /\ IsFiniteSet(Unloaded') /\ Cardinality(Unloaded') \in Nat
      /\ Cardinality(Unloaded') <= Cardinality(Unloaded)
  BY <1>1, <1>2, FS_Subset, FS_CardinalityType
<1>4. ASSUME NEW p \in Unloaded, p \notin Unloaded'
      PROVE  Cardinality(Unloaded') <= Cardinality(Unloaded) - 1
  <2>1. Unloaded' \subseteq Unloaded \ {p}
    BY <1>1, <1>4
  <2>2. IsFiniteSet(Unloaded \ {p}) /\ Cardinality(Unloaded \ {p}) = Cardinality(Unloaded) - 1
    BY <1>2, FS_RemoveElement
  <2>3. Cardinality(Unloaded') <= Cardinality(Unloaded \ {p})
    BY <2>1, <2>2, FS_Subset
  <2>4. QED
    BY <2>2, <2>3
<1>5. QED
  BY <1>3, <1>4

LEMMA LoadGrows ==
  ASSUME TypeOK, NEW l \in Layer, NEW slots, Load(l, slots)
  PROVE  /\ \A m \in Layer : loadingTable[m] \subseteq loadingTable'[m]
         /\ slots \subseteq loadingTable'[l]
BY DEF Load, TypeOK

LEMMA MovesUnfinishedNext == MovesUnfinished /\ [Next]_vars => MovesUnfinished'
<1> SUFFICES ASSUME MovesUnfinished, [Next]_vars PROVE MovesUnfinished'
  OBVIOUS
<1> USE DEF MovesUnfinished, threadVars
<1>1. CASE BeginForward \/ LoadNextLayer \/ ExtraTest \/ ExtraMove
           \/ JoinAttention \/ JoinScore \/ JoinReload
  BY <1>1 DEF BeginForward, LoadNextLayer, ExtraTest, ExtraMove,
              JoinAttention, JoinScore, JoinReload, Advance
<1>2. CASE Attention \/ Mlp \/ Score \/ EndForward \/ UNCHANGED vars
  BY <1>2 DEF Attention, Mlp, Score, EndForward, vars
<1>3. ASSUME NEW layout \in ObjectLayouts, ChangeMemory(layout)
      PROVE  MovesUnfinished'
  BY <1>3 DEF ChangeMemory
<1>4. ASSUME NEW chosen \in [1 .. NumExamples -> Content], NewEpisode(chosen)
      PROVE  MovesUnfinished'
  BY <1>4 DEF NewEpisode
<1>5. QED
  BY <1>1, <1>2, <1>3, <1>4 DEF Next, ForwardStep

(* The step into the next layer costs a layer and restarts its threads. *)
LEMMA AdvanceLeft ==
  ASSUME TypeOK, TypeOK', Phases, Advance, pc \in {"attend", "reload"},
         computeThread = "done", loadThread = "done"
  PROVE  StepsLeft' < StepsLeft
<1>1. layer \in Layer /\ layer' = layer + 1 /\ NumLayers \in Nat
  BY PipelineAssumption DEF TypeOK, Advance
<1>2. UNCHANGED <<loadingTable, scoreThread, finishLoad>>
  BY DEF Advance, tableVars
<1>3. Unloaded' = Unloaded
  BY <1>2 DEF Unloaded
<1>4. /\ OneIf(computeThread' = "run") \in 0 .. 1 /\ OneIf(computeThread = "run") = 0
      /\ OneIf(scoreThread' = "run") = OneIf(scoreThread = "run")
      /\ OneIf(scoreThread = "run") \in 0 .. 1
      /\ OneIf(~finishLoad') = OneIf(~finishLoad) /\ OneIf(~finishLoad) \in 0 .. 1
  BY <1>2 DEF OneIf
<1>5. PhaseLeft >= 1 /\ PhaseLeft \in 0 .. 10 /\ LoadLeft = 0
  BY DEF PhaseLeft, LoadLeft
<1>6. PhaseLeft' \in 0 .. 10 /\ LoadLeft' \in 0 .. 3 /\ NumLayers - layer' = NumLayers - layer - 1
  <2>1. PhaseLeft' \in 0 .. 10 /\ LoadLeft' \in 0 .. 3
    BY DEF PhaseLeft, LoadLeft
  <2>2. layer \in Nat
    BY <1>1 DEF Layer
  <2>3. QED
    BY <1>1, <2>1, <2>2
<1>7. /\ (layer + 1 \in Layer) \/ (PhaseLeft' = 1 /\ LoadLeft' = 0 /\ OneIf(computeThread' = "run") = 0)
      /\ PhaseLeft' + LoadLeft' + OneIf(computeThread' = "run") <= 14
  BY <1>4, <1>6 DEF Advance, PhaseLeft, LoadLeft, OneIf
<1>8. layer \in Nat /\ Cardinality(Unloaded) \in Nat
  BY <1>1, PartsLeft DEF Layer
<1>9. QED
  BY <1>1, <1>3, <1>4, <1>5, <1>6, <1>7, <1>8 DEF StepsLeft

LEMMA FewerLeft ==
  ASSUME PipelineInv, PipelineInv', MovesUnfinished, [Next]_vars, pc # "idle", ~UNCHANGED vars
  PROVE  StepsLeft' < StepsLeft
<1> USE DEF tableVars, threadVars
<1>0. /\ TypeOK /\ TypeOK' /\ Phases /\ Phases'
      /\ layer \in Nat /\ NumLayers \in Nat
      /\ Cardinality(Unloaded) \in Nat
  BY PartsLeft DEF PipelineInv
<1>1. CASE Attention \/ Mlp
  <2>1. /\ computeThread = "run" /\ computeThread' = "done"
        /\ UNCHANGED <<loadingTable, pc, layer, scoreThread, loadThread, finishLoad>>
    BY <1>1 DEF Attention, Mlp
  <2>2. Unloaded' = Unloaded /\ PhaseLeft' = PhaseLeft /\ LoadLeft' = LoadLeft
    BY <2>1 DEF Unloaded, PhaseLeft, LoadLeft
  <2>3. QED
    BY <1>0, <2>1, <2>2, PartsLeft DEF StepsLeft, OneIf
<1>2. CASE Score
  <2>1. /\ scoreThread = "run" /\ scoreThread' = "done"
        /\ UNCHANGED <<loadingTable, pc, layer, computeThread, loadThread, finishLoad>>
    BY <1>2 DEF Score
  <2>2. Unloaded' = Unloaded /\ PhaseLeft' = PhaseLeft /\ LoadLeft' = LoadLeft
    BY <2>1 DEF Unloaded, PhaseLeft, LoadLeft
  <2>3. QED
    BY <1>0, <2>1, <2>2, PartsLeft DEF StepsLeft, OneIf
<1>3. CASE LoadNextLayer
  <2>1. /\ loadThread = "next" /\ loadThread' \in {"extra", "done"}
        /\ UNCHANGED <<pc, layer, computeThread, scoreThread, finishLoad>>
    BY <1>3 DEF LoadNextLayer
  <2>2. \A l \in Layer : loadingTable[l] \subseteq loadingTable'[l]
    BY <1>0, <1>3, LoadGrows DEF LoadNextLayer
  <2>3. Cardinality(Unloaded)' \in Nat /\ Cardinality(Unloaded)' <= Cardinality(Unloaded)
    BY <1>0, <2>2, UnloadedFalls
  <2>4. PhaseLeft' = PhaseLeft /\ LoadLeft = 3 /\ LoadLeft' \in 0 .. 2
    BY <2>1 DEF PhaseLeft, LoadLeft
  <2>5. QED
    BY <1>0, <2>1, <2>3, <2>4, PartsLeft DEF StepsLeft, OneIf
<1>4. CASE ExtraTest
  <2>1. /\ loadThread = "extra" /\ loadThread' \in {"move", "done"}
        /\ UNCHANGED <<loadingTable, pc, layer, computeThread, scoreThread, finishLoad>>
    BY <1>4 DEF ExtraTest
  <2>2. Unloaded' = Unloaded /\ PhaseLeft' = PhaseLeft /\ LoadLeft = 2 /\ LoadLeft' \in 0 .. 1
    BY <2>1 DEF Unloaded, PhaseLeft, LoadLeft
  <2>3. QED
    BY <1>0, <2>1, <2>2, PartsLeft DEF StepsLeft, OneIf
<1>5. CASE ExtraMove
  <2>1. /\ loadThread = "move" /\ loadThread' = "extra" /\ ~finishLoad
        /\ UNCHANGED <<pc, layer, computeThread, scoreThread>>
    BY <1>5 DEF ExtraMove, MovesUnfinished
  <2>2. PhaseLeft' = PhaseLeft /\ LoadLeft = 1 /\ LoadLeft' = 2 /\ OneIf(~finishLoad) = 1
    BY <2>1 DEF PhaseLeft, LoadLeft, OneIf
  <2>3. CASE finishLoad' = TRUE /\ UNCHANGED tableVars
    <3>1. Unloaded' = Unloaded /\ OneIf(~finishLoad') = 0
      BY <2>3 DEF Unloaded, OneIf
    <3>2. QED
      BY <1>0, <2>1, <2>2, <3>1, PartsLeft DEF StepsLeft, OneIf
  <2>4. ASSUME NEW p \in ExtraMissing, Load(p[1], {p[2]}), UNCHANGED finishLoad
        PROVE  StepsLeft' < StepsLeft
    <3>1. p \in Layer \X Slot /\ p[1] \in Layer /\ p[2] \notin loadingTable[p[1]]
      BY DEF ExtraMissing, Missing
    <3>2. p \in Unloaded
      BY <3>1 DEF Unloaded
    <3>3. p \notin Unloaded'
      BY <1>0, <2>4, <3>1, LoadGrows DEF Unloaded
    <3>4. \A l \in Layer : loadingTable[l] \subseteq loadingTable'[l]
      BY <1>0, <2>4, <3>1, LoadGrows
    <3>5. /\ Cardinality(Unloaded)' \in Nat
          /\ Cardinality(Unloaded)' <= Cardinality(Unloaded) - 1
      BY <1>0, <3>2, <3>3, <3>4, UnloadedFalls
    <3>6. QED
      BY <1>0, <2>1, <2>2, <2>4, <3>5, PartsLeft DEF StepsLeft, OneIf
  <2>5. QED
    BY <1>5, <2>3, <2>4 DEF ExtraMove
<1>6. CASE JoinAttention
  <2>1. CASE Advance
    BY <1>0, <1>6, <2>1, AdvanceLeft DEF JoinAttention
  <2>2. CASE pc' = "score" /\ ~Advance
    <3>1. /\ pc = "attend" /\ computeThread = "done" /\ loadThread = "done"
          /\ loadThread' = "extra"
          /\ UNCHANGED <<loadingTable, layer, finishLoad>>
      BY <1>6, <2>2 DEF JoinAttention
    <3>2. /\ Unloaded' = Unloaded /\ PhaseLeft = 10 /\ PhaseLeft' = 5
          /\ LoadLeft = 0 /\ LoadLeft' = 2
      BY <2>2, <3>1 DEF Unloaded, PhaseLeft, LoadLeft
    <3>3. /\ OneIf(computeThread = "run") \in Nat /\ OneIf(scoreThread = "run") \in Nat
          /\ OneIf(computeThread' = "run") \in 0 .. 1 /\ OneIf(scoreThread' = "run") \in 0 .. 1
          /\ OneIf(~finishLoad) \in Nat /\ OneIf(~finishLoad') = OneIf(~finishLoad)
      BY <3>1 DEF OneIf
    <3>4. QED
      BY <1>0, <3>1, <3>2, <3>3 DEF StepsLeft
  <2>3. QED
    BY <1>6, <2>1, <2>2 DEF JoinAttention
<1>7. CASE JoinScore
  <2>1. /\ pc = "score" /\ pc' = "reload" /\ loadThread = "done" /\ loadThread' = "next"
        /\ UNCHANGED <<loadingTable, layer, computeThread, scoreThread, finishLoad>>
    BY <1>7 DEF JoinScore
  <2>2. /\ Unloaded' = Unloaded /\ PhaseLeft = 5 /\ PhaseLeft' = 1
        /\ LoadLeft = 0 /\ LoadLeft' = 3
    BY <2>1 DEF Unloaded, PhaseLeft, LoadLeft
  <2>3. QED
    BY <1>0, <2>1, <2>2 DEF StepsLeft, OneIf
<1>8. CASE JoinReload
  BY <1>0, <1>8, AdvanceLeft DEF JoinReload, Phases
<1>9. CASE EndForward
  <2>1. /\ pc = "done" /\ pc' = "idle"
        /\ UNCHANGED <<loadingTable, layer, computeThread, scoreThread, loadThread, finishLoad>>
    BY <1>9 DEF EndForward
  <2>2. /\ Unloaded' = Unloaded /\ PhaseLeft = 1 /\ PhaseLeft' = 0 /\ LoadLeft' = LoadLeft
    BY <2>1 DEF Unloaded, PhaseLeft, LoadLeft
  <2>3. QED
    BY <1>0, <2>1, <2>2, PartsLeft DEF StepsLeft, OneIf
<1>10. QED
  BY <1>1, <1>2, <1>3, <1>4, <1>5, <1>6, <1>7, <1>8, <1>9
     DEF Next, ForwardStep, BeginForward, ChangeMemory, NewEpisode

(* A forward takes at most MaxSteps steps, whatever the threads do: a number   *)
(* fixed by the layers and the slots goes down with each of them.           *)
THEOREM ForwardsAreFinite == Spec => [](StepsLeft \in 0 .. MaxSteps) /\ ForwardIsFinite
<1>1. Init => MovesUnfinished
  BY DEF Init, MovesUnfinished
<1>2. PipelineInv => StepsLeft \in 0 .. MaxSteps
  BY StepsBounded DEF PipelineInv
<1>3. PipelineInv /\ PipelineInv' /\ MovesUnfinished /\ [Next]_vars
        => [pc # "idle" => StepsLeft' < StepsLeft]_vars
  BY FewerLeft
<1>4. Spec => [](PipelineInv /\ MovesUnfinished)
  <2>1. Spec => []MovesUnfinished
    BY <1>1, MovesUnfinishedNext, PTL DEF Spec
  <2>2. QED
    BY <2>1, PipelineInvariant, PTL
<1>5. QED
  BY <1>2, <1>3, <1>4, PTL DEF Spec, ForwardIsFinite

-----------------------------------------------------------------------------
(* LayerPipeline implements the safety part of PromptFeed.                  *)

(* How many layers count as attended changes with the attention only. *)
LEMMA AttendedNumSteps ==
  ASSUME PipelineInv
  PROVE  /\ QuietStep => AttendedNum' = AttendedNum
         /\ Attention => AttendedNum = layer /\ AttendedNum' = layer + 1
         /\ pc # "idle" => AttendedNum \in 0 .. NumLayers
         /\ \A l \in 0 .. AttendedNum - 1 : l \in Attended
<1> USE DEF PipelineInv, memoryVars, tableVars, rowVars, threadVars
<1>0. /\ layer \in 0 .. NumLayers /\ NumLayers \in Nat
      /\ pc \in {"attend", "score", "reload"} => layer \in 0 .. NumLayers - 1
      /\ pc \in {"idle", "attend", "score", "reload", "done"}
  BY PipelineAssumption DEF TypeOK, Layer
<1>1. ASSUME Advance, pc \in {"attend", "reload"}, computeThread = "done"
      PROVE  AttendedNum' = AttendedNum
  BY <1>0, <1>1 DEF Advance, AttendedNum
<1>2. ASSUME QuietStep
      PROVE  AttendedNum' = AttendedNum
  <2>1. CASE JoinAttention
    <3>1. CASE layer + 1 \notin CheckLayers
      BY <1>1, <2>1, <3>1 DEF JoinAttention
    <3>2. CASE layer + 1 \in CheckLayers
      BY <2>1, <3>2 DEF JoinAttention, AttendedNum
    <3>3. QED
      BY <3>1, <3>2
  <2>2. CASE JoinReload
    BY <1>1, <2>2 DEF JoinReload, Phases
  <2>3. CASE Mlp \/ LoadNextLayer \/ ExtraTest \/ ExtraMove \/ Score \/ JoinScore
             \/ UNCHANGED vars
    <3>1. /\ layer' = layer
          /\ pc' = pc \/ {pc, pc'} = {"score", "reload"}
          /\ pc = "attend" => computeThread' = computeThread
      BY <2>3 DEF Mlp, LoadNextLayer, ExtraTest, ExtraMove, Score, JoinScore, vars
    <3>2. QED
      BY <3>1 DEF AttendedNum
  <2>4. QED
    BY <1>2, <2>1, <2>2, <2>3 DEF QuietStep
<1>3. ASSUME Attention
      PROVE  AttendedNum = layer /\ AttendedNum' = layer + 1
  BY <1>3 DEF Attention, AttendedNum
<1>4. pc # "idle" => AttendedNum \in 0 .. NumLayers
  BY <1>0 DEF AttendedNum
<1>5. \A l \in 0 .. AttendedNum - 1 : l \in Attended
  <2> SUFFICES ASSUME NEW l \in 0 .. AttendedNum - 1
               PROVE  l \in Attended
    OBVIOUS
  <2>1. CASE pc = "idle"
    BY <2>1 DEF AttendedNum
  <2>2. CASE pc = "done" \/ (pc = "attend" /\ computeThread = "run")
    <3>1. l \in 0 .. layer - 1 /\ l \in Layer /\ l < layer
      BY <1>0, <2>2 DEF AttendedNum, Layer
    <3>2. QED
      BY <2>2, <3>1 DEF Attended
  <2>3. CASE pc \notin {"idle", "done"} /\ ~(pc = "attend" /\ computeThread = "run")
    <3>1. l \in 0 .. layer /\ l \in Layer /\ (l < layer \/ l = layer)
      BY <1>0, <2>3 DEF AttendedNum, Layer
    <3>2. pc = "attend" => computeThread = "done"
      BY <2>3 DEF PipelineInv, TypeOK
    <3>3. QED
      BY <2>3, <3>1, <3>2 DEF Attended
  <2>4. QED
    BY <2>1, <2>2, <2>3
<1>6. QED
  BY <1>2, <1>3, <1>4, <1>5

LEMMA PromptIsPrompt == TypeOK => [s \in Active |-> Said(s)] \in Feed!Prompts
<1> SUFFICES ASSUME TypeOK
             PROVE  [s \in Active |-> Said(s)] \in Feed!Prompts
  OBVIOUS
<1>1. Active \in SUBSET Slot /\ [s \in Active |-> Said(s)] \in [Active -> Content]
  BY PromptTypes DEF TypeOK
<1>2. QED
  BY <1>1 DEF Feed!Prompts

LEMMA FeedInitStep == Init => Feed!FeedInit
<1> SUFFICES ASSUME Init
             PROVE  Feed!FeedInit
  OBVIOUS
<1>1. pc = "idle" /\ AttendedNum = 0
  BY DEF Init, AttendedNum
<1>2. 0 .. AttendedNum - 1 = {}
  BY <1>1
<1>3. [s \in Active |-> Said(s)] \in Feed!Prompts
  BY TypeInit, PromptIsPrompt
<1>4. [l \in 0 .. AttendedNum - 1 |-> [s \in Active |-> keyValueHack[l][s]]]
        = [l \in {} |-> {}]
  BY <1>2
<1>5. QED
  BY <1>1, <1>3, <1>4 DEF Feed!FeedInit

LEMMA FeedNextStep ==
  PipelineInv /\ PipelineInv' /\ [Next]_vars => [Feed!FeedNext]_(Feed!feedVars)
<1> SUFFICES ASSUME PipelineInv, PipelineInv', [Next]_vars
             PROVE  [Feed!FeedNext]_(Feed!feedVars)
  OBVIOUS
<1>0. TypeOK /\ Phases /\ OldKvHandedOver /\ ReusedCurrent /\ TypeOK'
  BY DEF PipelineInv
<1>1. CASE QuietStep
  <2>1. /\ AttendedNum' = AttendedNum
        /\ pc' = "idle" <=> pc = "idle"
        /\ UNCHANGED <<objects, examples, keyValueHack>>
        /\ Active' = Active
        /\ recomputeModules' \subseteq recomputeModules
    BY <1>0, <1>1, QuietSteps, AttendedNumSteps
  <2>2. \A s : Said(s)' = Said(s)
    BY <2>1 DEF Said
  <2>3. CASE recomputeModules' = recomputeModules
    BY <2>1, <2>2, <2>3 DEF Feed!feedVars
  <2>4. CASE recomputeModules' # recomputeModules
    <3>1. Score
      BY <1>1, <2>4
         DEF QuietStep, Mlp, LoadNextLayer, ExtraTest, ExtraMove, JoinAttention,
             JoinScore, JoinReload, Advance, vars
    <3>2. pc = "score" /\ AttendedNum > 0
      BY <1>0, <3>1, PipelineAssumption DEF Score, AttendedNum, TypeOK, Layer
    <3>3. Feed!Reuse
      BY <2>1, <2>2, <3>2 DEF Feed!Reuse
    <3>4. QED
      BY <3>3 DEF Feed!FeedNext
  <2>5. QED
    BY <2>3, <2>4
<1>2. CASE Attention
  <2>1. /\ AttendedNum = layer /\ AttendedNum' = layer + 1
        /\ layer \in Layer /\ layer \in Nat /\ layer < NumLayers
    BY <1>0, <1>2, AttendedNumSteps, AttentionStep, PipelineAssumption DEF Layer
  <2>2. pc # "idle" /\ pc' # "idle"
    BY <1>2 DEF Attention
  <2>3. /\ Active' = Active /\ \A s : Said(s)' = Said(s)
        /\ recomputeModules' = recomputeModules /\ Active \subseteq Slot
    BY <1>0, <1>2, AttentionStep, PromptTypes DEF TypeOK
  <2>4. Feed!View = [s \in Active |-> keyValueHack'[layer][s]]
    BY <1>0, <1>2, <2>2, <2>3, AttentionStep DEF Feed!View
  <2>5. \A l \in 0 .. layer - 1 : keyValueHack'[l] = keyValueHack[l]
    BY <1>0, <1>2, <2>1, AttentionStep, AttendedNumSteps
  <2>6. 0 .. AttendedNum' - 1 = 0 .. layer
    BY <2>1
  <2>7. \A l \in 0 .. layer :
          [s \in Active' |-> keyValueHack'[l][s]]
            = IF l = layer THEN Feed!View
              ELSE [k \in 0 .. AttendedNum - 1 |->
                     [s \in Active |-> keyValueHack[k][s]]][l]
    BY <2>1, <2>3, <2>4, <2>5
  <2>8. Feed!Attend
    BY <2>1, <2>2, <2>3, <2>6, <2>7 DEF Feed!Attend
  <2>9. QED
    BY <2>8 DEF Feed!FeedNext
<1>3. CASE BeginForward
  <2>1. /\ pc = "idle" /\ pc' = "attend" /\ recomputeModules' = Active
        /\ layer' = 0 /\ computeThread' = "run"
        /\ Active' = Active /\ \A s : Said(s)' = Said(s)
        /\ keyValueHack' = keyValueHack
    BY <1>3 DEF BeginForward, Active, Said
  <2>2. AttendedNum = 0 /\ AttendedNum' = 0
    BY <2>1 DEF AttendedNum
  <2>3. Feed!Begin
    BY <2>1, <2>2 DEF Feed!Begin
  <2>4. QED
    BY <2>3 DEF Feed!FeedNext
<1>4. CASE EndForward
  <2>1. /\ pc = "done" /\ pc' = "idle" /\ layer = NumLayers
        /\ Active' = Active /\ \A s : Said(s)' = Said(s)
    BY <1>0, <1>4 DEF EndForward, Active, Said, Phases, memoryVars
  <2>2. AttendedNum = NumLayers /\ AttendedNum' = 0
    BY <2>1 DEF AttendedNum
  <2>3. 0 .. AttendedNum' - 1 = {}
    BY <2>2
  <2>4. Feed!End
    BY <2>1, <2>2, <2>3 DEF Feed!End
  <2>5. QED
    BY <2>4 DEF Feed!FeedNext
<1>5. ASSUME pc = "idle", pc' = "idle"
      PROVE  Feed!Rewrite
  <2>1. AttendedNum = 0 /\ AttendedNum' = 0
    BY <1>5 DEF AttendedNum
  <2>2. 0 .. AttendedNum - 1 = {} /\ 0 .. AttendedNum' - 1 = {}
    BY <2>1
  <2>3. ([s \in Active |-> Said(s)] \in Feed!Prompts)'
    BY <1>0, PromptIsPrompt, PTL
  <2>4. QED
    BY <1>5, <2>1, <2>2, <2>3 DEF Feed!Rewrite
<1>6. CASE (\E layout \in ObjectLayouts : ChangeMemory(layout))
           \/ (\E chosen \in [1 .. NumExamples -> Content] : NewEpisode(chosen))
  BY <1>5, <1>6 DEF Feed!FeedNext, ChangeMemory, NewEpisode
<1>7. QED
  BY <1>1, <1>2, <1>3, <1>4, <1>6 DEF Next, ForwardStep, QuietStep

(* Threads, tables and buffers implement the plain feed for every number of *)
(* layers, capacity, schedule and interleaving.                            *)
THEOREM PipelineRefinesFeed == Spec => RefinesFeed
<1>1. QED
  BY FeedInitStep, FeedNextStep, PipelineInvariant, PTL
     DEF Spec, RefinesFeed, Feed!FeedSafety
=============================================================================
