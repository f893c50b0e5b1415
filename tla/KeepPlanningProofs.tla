------------------------- MODULE KeepPlanningProofs -------------------------
(***************************************************************************)
(* Memory and pipeline put together: each keeps the promises the other was  *)
(* proved under, so what was proved of either holds of the planning loop,   *)
(* and the keys a forward reuses are those of the last reports.            *)
(***************************************************************************)
EXTENDS KeepPlanning, TLAPS

(* What is proved of the parts. *)
SP == INSTANCE MemoryStoreProofs WITH MaxFailures <- 0
PP == INSTANCE LayerPipelineProofs WITH objects <- Store!Layout

LEMMA Assumed == SP!StoreAssumption /\ PP!PipelineAssumption
<1>1. SP!StoreAssumption
  BY KeepAssumption DEF SP!StoreAssumption
<1>2. PP!PipelineAssumption
  BY KeepAssumption
     DEF PP!PipelineAssumption, PP!ModuleCount, PP!Layer, Pipeline!ModuleCount, Pipeline!Layer
<1>3. QED
  BY <1>1, <1>2

-----------------------------------------------------------------------------
(* The two instances of MemoryStore, and of LayerPipeline, say the same.    *)
LEMMA SameLayout ==
  /\ SP!FedIndices = Store!FedIndices
  /\ SP!Layout = Store!Layout
  /\ SP!Layout' = Store!Layout'
BY Zenon DEF SP!Layout, SP!FedIndices, SP!FedCount, SP!SortedIndices, SP!Precedes,
             Store!Layout, Store!FedIndices, Store!FedCount, Store!SortedIndices,
             Store!Precedes

LEMMA SameStoreInit == Store!Init => SP!Init
BY Zenon DEF Store!Init, SP!Init

LEMMA SameReport ==
  ASSUME NEW o \in ObjId, NEW c \in Content, NEW survives, Store!Report(o, c, survives)
  PROVE  SP!Report(o, c, survives)
<1>1. Store!Add(o, c, survives) => SP!Add(o, c, survives)
  BY DEF Store!Add, Store!IndexOf, Store!Collected, Store!CollectionRaises, Store!Message,
         Store!NoPlace, SP!Add, SP!IndexOf, SP!Collected, SP!CollectionRaises, SP!Message,
         SP!NoPlace
<1>2. Store!Refresh(o, c, survives) => SP!Refresh(o, c, survives)
  BY DEF Store!Refresh, Store!IndexOf, Store!Collected, Store!CollectionRaises,
         Store!Message, Store!NoPlace, Store!PlaceIndex, Store!RemoveAt,
         SP!Refresh, SP!IndexOf, SP!Collected, SP!CollectionRaises, SP!Message,
         SP!NoPlace, SP!PlaceIndex, SP!RemoveAt
<1>3. Store!Keep(o, c) => SP!Keep(o, c)
  BY DEF Store!Keep, Store!IndexOf, SP!Keep, SP!IndexOf
<1>4. QED
  BY <1>1, <1>2, <1>3 DEF Store!Report, SP!Report

LEMMA SameEpisode ==
  ASSUME NEW q \in Query, Store!NewEpisode(q)
  PROVE  SP!NewEpisode(q)
BY DEF Store!NewEpisode, SP!NewEpisode

LEMMA SameStoreForward == Store!Forward => SP!Forward
BY SameLayout DEF Store!Forward, Store!FlagAfterReset, Store!NoPlace,
                  SP!Forward, SP!FlagAfterReset, SP!NoPlace

LEMMA SamePipelineInit == Pipeline!Init => PP!Init
BY DEF Pipeline!Init, Pipeline!NoSlots, Pipeline!ZeroKv, Pipeline!Layer, Pipeline!Slot,
       Pipeline!ObjectSlot, Pipeline!ExampleSlot,
       PP!Init, PP!NoSlots, PP!ZeroKv, PP!Layer, PP!Slot, PP!ObjectSlot, PP!ExampleSlot

LEMMA SameForwardStep == Pipeline!ForwardStep => PP!ForwardStep
<1>1. Pipeline!BeginForward => PP!BeginForward
  BY DEF Pipeline!BeginForward, Pipeline!ResetStart, Pipeline!ResetStep,
         Pipeline!Active, Pipeline!NoSlots, Pipeline!ZeroKv,
         Pipeline!Layer, Pipeline!Slot, Pipeline!ObjectSlot,
         Pipeline!ExampleSlot, Pipeline!tableVars, PP!BeginForward,
         PP!ResetStart, PP!ResetStep, PP!Active, PP!NoSlots, PP!ZeroKv,
         PP!Layer, PP!Slot, PP!ObjectSlot, PP!ExampleSlot, PP!tableVars
<1>2. Pipeline!Attention => PP!Attention
  BY DEF Pipeline!Attention, Pipeline!Layer, Pipeline!Slot,
         Pipeline!ObjectSlot, Pipeline!ExampleSlot, Pipeline!memoryVars,
         Pipeline!tableVars, Pipeline!rowVars, PP!Attention, PP!Layer,
         PP!Slot, PP!ObjectSlot, PP!ExampleSlot, PP!memoryVars,
         PP!tableVars, PP!rowVars
<1>3. Pipeline!Mlp => PP!Mlp
  BY DEF Pipeline!Mlp, Pipeline!memoryVars, Pipeline!tableVars,
         Pipeline!rowVars, PP!Mlp, PP!memoryVars, PP!tableVars,
         PP!rowVars
<1>4. Pipeline!LoadNextLayer => PP!LoadNextLayer
  BY DEF Pipeline!LoadNextLayer, Pipeline!Load, Pipeline!Missing,
         Pipeline!Active, Pipeline!Said, Pipeline!Layer, Pipeline!Slot,
         Pipeline!ObjectSlot, Pipeline!ExampleSlot, Pipeline!memoryVars,
         Pipeline!tableVars, Pipeline!rowVars, PP!LoadNextLayer,
         PP!Load, PP!Missing, PP!Active, PP!Said, PP!Layer, PP!Slot,
         PP!ObjectSlot, PP!ExampleSlot, PP!memoryVars, PP!tableVars,
         PP!rowVars
<1>5. Pipeline!ExtraTest => PP!ExtraTest
  BY DEF Pipeline!ExtraTest, Pipeline!memoryVars, Pipeline!tableVars,
         Pipeline!rowVars, PP!ExtraTest, PP!memoryVars, PP!tableVars,
         PP!rowVars
<1>6. Pipeline!ExtraMove => PP!ExtraMove
  BY DEF Pipeline!ExtraMove, Pipeline!ExtraMissing, Pipeline!Before,
         Pipeline!Load, Pipeline!Missing, Pipeline!Active,
         Pipeline!Said, Pipeline!Layer, Pipeline!Slot,
         Pipeline!ObjectSlot, Pipeline!ExampleSlot, Pipeline!memoryVars,
         Pipeline!tableVars, Pipeline!rowVars, PP!ExtraMove,
         PP!ExtraMissing, PP!Before, PP!Load, PP!Missing, PP!Active,
         PP!Said, PP!Layer, PP!Slot, PP!ObjectSlot, PP!ExampleSlot,
         PP!memoryVars, PP!tableVars, PP!rowVars
<1>7. Pipeline!Score => PP!Score
  <2>1. Pipeline!Choices = PP!Choices
    BY Zenon DEF Pipeline!Choices, Pipeline!KeepNum, Pipeline!Modules, Pipeline!Cardinality,
                 PP!Choices, PP!KeepNum, PP!Modules, PP!Cardinality
  <2>2. QED
    BY <2>1 DEF Pipeline!Score, Pipeline!memoryVars, Pipeline!tableVars,
                PP!Score, PP!memoryVars, PP!tableVars
<1>8. Pipeline!JoinAttention => PP!JoinAttention
  BY DEF Pipeline!JoinAttention, Pipeline!Advance, Pipeline!CheckLayers,
         Pipeline!Modules, Pipeline!Layer, Pipeline!memoryVars,
         Pipeline!tableVars, Pipeline!rowVars, PP!JoinAttention,
         PP!Advance, PP!CheckLayers, PP!Modules, PP!Layer,
         PP!memoryVars, PP!tableVars, PP!rowVars
<1>9. Pipeline!JoinScore => PP!JoinScore
  BY DEF Pipeline!JoinScore, Pipeline!memoryVars, Pipeline!tableVars,
         Pipeline!rowVars, PP!JoinScore, PP!memoryVars, PP!tableVars,
         PP!rowVars
<1>10. Pipeline!JoinReload => PP!JoinReload
  BY DEF Pipeline!JoinReload, Pipeline!Advance, Pipeline!CheckLayers,
         Pipeline!Modules, Pipeline!Layer, Pipeline!memoryVars,
         Pipeline!tableVars, PP!JoinReload, PP!Advance, PP!CheckLayers,
         PP!Modules, PP!Layer, PP!memoryVars, PP!tableVars
<1>11. Pipeline!EndForward => PP!EndForward
  BY DEF Pipeline!EndForward, Pipeline!memoryVars, Pipeline!tableVars,
         Pipeline!threadVars, PP!EndForward, PP!memoryVars,
         PP!tableVars, PP!threadVars
<1>12. QED
  BY <1>1, <1>2, <1>3, <1>4, <1>5, <1>6, <1>7, <1>8, <1>9, <1>10, <1>11
     DEF Pipeline!ForwardStep, PP!ForwardStep

LEMMA SameNewEpisode ==
  ASSUME NEW chosen \in [1 .. NumExamples -> Content], Pipeline!NewEpisode(chosen)
  PROVE  PP!NewEpisode(chosen)
BY DEF Pipeline!NewEpisode, Pipeline!NoSlots, Pipeline!ZeroKv,
       Pipeline!Layer, Pipeline!Slot, Pipeline!ObjectSlot,
       Pipeline!ExampleSlot, Pipeline!rowVars, Pipeline!threadVars,
       PP!NewEpisode, PP!NoSlots, PP!ZeroKv, PP!Layer, PP!Slot,
       PP!ObjectSlot, PP!ExampleSlot, PP!rowVars, PP!threadVars

LEMMA SameChangeMemory ==
  ASSUME NEW layout, Pipeline!ChangeMemory(layout)
  PROVE  PP!ChangeMemory(layout)
BY DEF Pipeline!ChangeMemory, Pipeline!tableVars, Pipeline!rowVars,
       Pipeline!threadVars, PP!ChangeMemory, PP!tableVars, PP!rowVars,
       PP!threadVars

-----------------------------------------------------------------------------
(* What is true between the steps of the loop: what is true of either part,  *)
(* and nothing has ended the evaluation, as no collection fails.           *)
KeepInv == SP!StoreInv /\ PP!PipelineInv /\ alive

LEMMA NoFailures ==
  ASSUME SP!StoreInv
  PROVE  /\ failures = 0
         /\ messages \in Seq(SP!MessageType) /\ similarity \in Seq(Nat)
         /\ Len(similarity) = Len(messages)
         /\ \A i \in DOMAIN messages : messages[i].id # NoId
         /\ \A i \in DOMAIN messages : messages[i].content = reported[messages[i].id]
<1>1. failures = 0
  BY DEF SP!StoreInv, SP!Rest
<1>2. QED
  BY <1>1 DEF SP!StoreInv, SP!Sound, SP!Typed, SP!Parallel, SP!Told, SP!Named

LEMMA LayoutTyped == SP!StoreInv => Store!Layout \in Pipeline!ObjectLayouts
<1> SUFFICES ASSUME SP!StoreInv PROVE Store!Layout \in Pipeline!ObjectLayouts
  OBVIOUS
<1>1. /\ messages \in Seq(SP!MessageType) /\ similarity \in Seq(Nat)
      /\ Len(similarity) <= Len(messages)
  BY NoFailures
<1>2. SP!Layout \in [1 .. SP!FedCount -> Content] /\ SP!FedCount \in 0 .. KvCapacity
  BY <1>1, Assumed, SP!FedAre
<1>3. QED
  BY <1>2, SameLayout DEF Pipeline!ObjectLayouts

(* A report that changes anything raises memory_change. *)
LEMMA ReportEffect ==
  ASSUME SP!StoreInv, NEW o \in ObjId, NEW c \in Content, NEW survives \in BOOLEAN,
         SP!Report(o, c, survives)
  PROVE  /\ alive' = alive /\ tablesBuilt' = tablesBuilt
         /\ memoryChange' = "yes" \/ UNCHANGED <<messages, similarity, memoryChange>>
<1>1. ASSUME NEW m, NEW s, NEW p
      PROVE  /\ SP!Collected(o, c, m, s, p) => memoryChange' = "yes" /\ alive' = alive
             /\ ~SP!CollectionRaises(c, m, s, p)
  BY NoFailures DEF SP!Collected, SP!CollectionRaises
<1>2. CASE SP!Add(o, c, survives)
  BY <1>1, <1>2 DEF SP!Add, SP!Report
<1>3. CASE SP!Refresh(o, c, survives)
  <2>1. PICK i \in SP!IndexOf(o) :
          \/ \E m, s, p : SP!Collected(o, c, m, s, p) \/ SP!CollectionRaises(c, m, s, p)
          \/ i \notin DOMAIN similarity
    BY <1>3, Zenon DEF SP!Refresh
  <2>2. i \in DOMAIN similarity
    BY NoFailures DEF SP!IndexOf
  <2>3. QED
    BY <1>1, <2>1, <2>2 DEF SP!Report
<1>4. CASE SP!Keep(o, c)
  BY <1>4 DEF SP!Keep, SP!Report
<1>5. QED
  BY <1>2, <1>3, <1>4 DEF SP!Report

-----------------------------------------------------------------------------
(* The three kinds of step, as the two parts see them. *)
LEMMA RememberStep ==
  ASSUME SP!StoreInv, Remember
  PROVE  /\ Store!Next /\ SP!Next /\ alive' = alive
         /\ \/ Pipeline!ChangeMemory(Store!Layout') /\ PP!ChangeMemory(Store!Layout')
            \/ UNCHANGED <<Pipeline!vars, PP!vars>>
<1>1. PICK o \in ObjId, c \in Content, survives \in BOOLEAN :
        /\ Store!Report(o, c, survives)
        /\ survives = TRUE => Store!Observe(o, c)
        /\ survives = FALSE => Store!RecordAction(o, c)
  BY DEF Remember, Store!Observe, Store!RecordAction
<1>2. SP!Report(o, c, survives)
  BY <1>1, SameReport
<1>3. Store!Next /\ SP!Next
  BY <1>1, <1>2, Zenon DEF Store!Next, SP!Next, SP!Observe, SP!RecordAction, Store!Observe, Store!RecordAction
<1>4. /\ alive' = alive /\ tablesBuilt' = tablesBuilt
      /\ memoryChange' = "yes" \/ UNCHANGED <<messages, similarity, memoryChange>>
  BY <1>2, ReportEffect
<1>5. CASE memoryChange' = "yes"
  <2>1. Pipeline!ChangeMemory(Store!Layout')
    BY <1>4, <1>5 DEF Remember, Pipeline!ChangeMemory, Pipeline!tableVars, Pipeline!rowVars,
                      Pipeline!threadVars, forwardVars
  <2>2. PP!ChangeMemory(Store!Layout')
    BY <2>1, SameChangeMemory
  <2>3. QED
    BY <1>3, <1>4, <2>1, <2>2
<1>6. CASE UNCHANGED <<messages, similarity, memoryChange>>
  <2>1. SP!Layout' = SP!Layout
    BY <1>6, Assumed, SP!LayoutKept
  <2>2. UNCHANGED <<Pipeline!vars, PP!vars>>
    BY <1>4, <1>6, <2>1, SameLayout DEF Remember, Pipeline!vars, PP!vars, forwardVars
  <2>3. QED
    BY <1>3, <1>4, <2>2
<1>7. QED
  BY <1>4, <1>5, <1>6

LEMMA NextTaskStep ==
  ASSUME NextTask
  PROVE  /\ Store!Next /\ SP!Next /\ alive' = alive
         /\ examples' \in [1 .. NumExamples -> Content]
         /\ Pipeline!NewEpisode(examples') /\ PP!NewEpisode(examples')
<1>1. PICK q \in Query : Store!NewEpisode(q)
  BY DEF NextTask
<1>2. SP!NewEpisode(q)
  BY <1>1, SameEpisode
<1>3. Store!Next /\ SP!Next /\ alive' = alive
  BY <1>1, <1>2, Zenon DEF Store!Next, SP!Next, Store!NewEpisode
<1>4. SP!Layout' = << >>
  BY <1>1, Assumed, SP!NothingFed DEF Store!NewEpisode
<1>5. examples' \in [1 .. NumExamples -> Content]
  BY DEF NextTask
<1>6. Pipeline!NewEpisode(examples')
  BY <1>1, <1>4, SameLayout
     DEF NextTask, Store!NewEpisode, Pipeline!NewEpisode, Pipeline!rowVars,
         Pipeline!threadVars, forwardVars
<1>7. PP!NewEpisode(examples')
  BY <1>5, <1>6, SameNewEpisode
<1>8. QED
  BY <1>3, <1>5, <1>6, <1>7

LEMMA PlanStep ==
  ASSUME KeepInv, Plan
  PROVE  /\ (Store!Forward /\ SP!Forward) \/ UNCHANGED <<Store!vars, SP!vars>>
         /\ alive' = alive
         /\ Pipeline!ForwardStep /\ PP!ForwardStep
<1>1. Pipeline!ForwardStep /\ PP!ForwardStep /\ UNCHANGED memoryVars
  BY SameForwardStep DEF Plan
<1>2. CASE Pipeline!BeginForward
  <2>1. memoryChange \in {"none", "no", "yes"}
    BY DEF KeepInv, SP!StoreInv, SP!Rest
  <2>2. tablesBuilt' = TRUE /\ memoryChange' = Store!FlagAfterReset
    BY <1>2, <2>1 DEF Pipeline!BeginForward, Pipeline!ResetStart, Pipeline!ResetStep,
                      Store!FlagAfterReset
  <2>3. alive = TRUE /\ alive' = TRUE
    BY <1>1 DEF KeepInv, SP!StoreInv, SP!Rest, memoryVars
  <2>4. Store!Forward
    BY <1>1, <2>2, <2>3 DEF Store!Forward, memoryVars
  <2>5. QED
    BY <1>1, <2>3, <2>4, SameStoreForward
<1>3. CASE ~Pipeline!BeginForward
  <2>1. UNCHANGED <<memoryChange, tablesBuilt>>
    BY <1>1, <1>3
       DEF Pipeline!ForwardStep, Pipeline!Attention, Pipeline!Mlp, Pipeline!LoadNextLayer,
           Pipeline!ExtraTest, Pipeline!ExtraMove, Pipeline!Score, Pipeline!JoinAttention,
           Pipeline!JoinScore, Pipeline!JoinReload, Pipeline!EndForward, Pipeline!Advance,
           Pipeline!memoryVars
  <2>2. QED
    BY <1>1, <2>1 DEF memoryVars, Store!vars, SP!vars
<1>4. QED
  BY <1>2, <1>3

-----------------------------------------------------------------------------
LEMMA KeepInitially == Init => KeepInv
<1> SUFFICES ASSUME Init PROVE KeepInv
  OBVIOUS
<1>1. SP!Init /\ PP!Init /\ alive
  BY SameStoreInit, SamePipelineInit DEF Init, Store!Init
<1>2. SP!StoreInv
  BY <1>1, Assumed, SP!StoreInitially
<1>3. PP!PipelineInv
  BY <1>1, Assumed, PP!InvInit
<1>4. QED
  BY <1>1, <1>2, <1>3 DEF KeepInv

(* Each step of the loop is a step, or none, of either part. *)
LEMMA KeepStep ==
  ASSUME KeepInv, [Next]_vars
  PROVE  /\ [Store!Next]_Store!vars /\ [SP!Next]_SP!vars
         /\ [Pipeline!Next]_Pipeline!vars /\ [PP!Next]_PP!vars
         /\ alive' = alive
<1>1. CASE Remember
  <2>1. /\ Store!Next /\ SP!Next /\ alive' = alive
        /\ \/ Pipeline!ChangeMemory(Store!Layout') /\ PP!ChangeMemory(Store!Layout')
           \/ UNCHANGED <<Pipeline!vars, PP!vars>>
    BY <1>1, RememberStep DEF KeepInv
  <2>2. Store!Layout' \in Pipeline!ObjectLayouts
    <3>1. SP!StoreInv'
      BY <2>1, Assumed, SP!StoreStep DEF KeepInv
    <3>2. (SP!StoreInv => Store!Layout \in Pipeline!ObjectLayouts)'
      BY LayoutTyped, PTL
    <3>3. QED
      BY <3>1, <3>2 DEF Pipeline!ObjectLayouts
  <2>3. Store!Layout' \in PP!ObjectLayouts
    BY <2>2 DEF Pipeline!ObjectLayouts, PP!ObjectLayouts
  <2>4. QED
    BY <2>1, <2>2, <2>3, Zenon DEF Pipeline!Next, PP!Next
<1>2. CASE NextTask
  <2>1. /\ Store!Next /\ SP!Next /\ alive' = alive
        /\ examples' \in [1 .. NumExamples -> Content]
        /\ Pipeline!NewEpisode(examples') /\ PP!NewEpisode(examples')
    BY <1>2, NextTaskStep
  <2>2. QED
    BY <2>1, Zenon DEF Pipeline!Next, PP!Next
<1>3. CASE Plan
  <2>1. /\ (Store!Forward /\ SP!Forward) \/ UNCHANGED <<Store!vars, SP!vars>>
        /\ alive' = alive
        /\ Pipeline!ForwardStep /\ PP!ForwardStep
    BY <1>3, PlanStep
  <2>2. QED
    BY <2>1, Zenon DEF Store!Next, SP!Next, Pipeline!Next, PP!Next
<1>4. CASE UNCHANGED vars
  <2>1. UNCHANGED <<messages, similarity>>
    BY <1>4, Zenon DEF vars, memoryVars
  <2>2. Store!Layout' = Store!Layout
    BY <2>1, Assumed, SP!LayoutKept, SameLayout
  <2>3. QED
    BY <1>4, <2>2 DEF vars, memoryVars, forwardVars, Store!vars, SP!vars,
                      Pipeline!vars, PP!vars
<1>5. QED
  BY <1>1, <1>2, <1>3, <1>4 DEF Next

LEMMA KeepKept == KeepInv /\ [Next]_vars => KeepInv'
<1> SUFFICES ASSUME KeepInv, [Next]_vars PROVE KeepInv'
  OBVIOUS
<1>1. [SP!Next]_SP!vars /\ [PP!Next]_PP!vars /\ alive' = alive
  BY KeepStep
<1>2. SP!StoreInv'
  BY <1>1, Assumed, SP!StoreStep DEF KeepInv
<1>3. PP!PipelineInv'
  BY <1>1, Assumed, PP!InvNext DEF KeepInv
<1>4. QED
  BY <1>1, <1>2, <1>3 DEF KeepInv

(* Whatever is proved of either part from its invariant holds of the loop. *)
THEOREM KeepInvariant == Spec => []KeepInv
BY KeepInitially, KeepKept, PTL DEF Spec

(* The memory of the loop behaves as MemoryStore: a forward only reads the   *)
(* fed messages and takes the flag down.                                   *)
THEOREM LoopImplementsStore == Spec => ImplementsStore
<1>1. Init => Store!Init
  BY DEF Init
<1>2. KeepInv /\ [Next]_vars => [Store!Next]_Store!vars
  BY KeepStep
<1>3. QED
  BY <1>1, <1>2, KeepInvariant, PTL DEF Spec, Store!Spec, ImplementsStore

(* The memory keeps the promise the pipeline was proved under: the fed       *)
(* messages change only between forwards, with memory_change or a reset.    *)
THEOREM LoopImplementsPipeline == Spec => ImplementsPipeline
<1>1. Init => Pipeline!Init
  BY DEF Init
<1>2. KeepInv /\ [Next]_vars => [Pipeline!Next]_Pipeline!vars
  BY KeepStep
<1>3. QED
  BY <1>1, <1>2, KeepInvariant, PTL DEF Spec, Pipeline!Spec, ImplementsPipeline

(* The keys every attention reuses are those of what was last reported of    *)
(* the objects it is fed, through collections, sorting, tables and threads. *)
THEOREM LastReportIsReused == Spec => []ReusesLastReport
<1>1. KeepInv => ReusesLastReport
  <2> SUFFICES ASSUME KeepInv, NEW l \in Pipeline!Attended, NEW k \in DOMAIN Store!FedIndices
               PROVE  keyValueHack[l][k] \in
                        {Fresh, reported[messages[Store!FedIndices[k]].id]}
    BY Zenon DEF ReusesLastReport
  <2>1. /\ messages \in Seq(SP!MessageType) /\ similarity \in Seq(Nat)
        /\ Len(similarity) <= Len(messages)
        /\ \A i \in DOMAIN messages : messages[i].content = reported[messages[i].id]
    BY NoFailures DEF KeepInv
  <2>2. /\ SP!FedCount \in 0 .. KvCapacity
        /\ DOMAIN SP!FedIndices = 1 .. SP!FedCount
        /\ \A n \in 1 .. SP!FedCount : SP!FedIndices[n] \in DOMAIN messages
        /\ SP!Layout \in [1 .. SP!FedCount -> Content]
        /\ \A n \in 1 .. SP!FedCount : SP!Layout[n] = messages[SP!FedIndices[n]].content
    BY <2>1, Assumed, SP!FedAre
  <2>3. /\ k \in 1 .. SP!FedCount
        /\ Store!Layout[k] = reported[messages[Store!FedIndices[k]].id]
    BY <2>1, <2>2, SameLayout
  <2>4. Len(Store!Layout) = SP!FedCount
    BY <2>2, SameLayout
  <2>5. k \in PP!Active /\ PP!Said(k) = Store!Layout[k]
    <3>1. KvCapacity \in Nat /\ k \in 1 .. KvCapacity /\ k \in 1 .. Len(Store!Layout)
      BY <2>2, <2>3, <2>4, KeepAssumption
    <3>2. k \in PP!ObjectSlot /\ k \in PP!Active
      BY <3>1, Zenon DEF PP!Active, PP!ObjectSlot
    <3>3. QED
      BY <3>2, Zenon DEF PP!Said
  <2>6. l \in PP!Attended
    BY DEF Pipeline!Attended, PP!Attended, Pipeline!Layer, PP!Layer
  <2>7. PP!Sound(keyValueHack[l], k)
    BY <2>5, <2>6 DEF KeepInv, PP!PipelineInv, PP!ServedSound
  <2>8. QED
    BY <2>3, <2>5, <2>7 DEF PP!Sound
<1>2. QED
  BY <1>1, KeepInvariant, PTL

(* What was proved of the pipeline's behaviours holds of the loop's. *)
LEMMA LoopRunsPipeline == Spec => PP!Spec
<1>1. Init => PP!Init
  BY SamePipelineInit DEF Init
<1>2. KeepInv /\ [Next]_vars => [PP!Next]_(PP!vars)
  BY KeepStep
<1>3. QED
  BY <1>1, <1>2, KeepInvariant, PTL DEF Spec, PP!Spec

(* What the robot saw and did is read by the language model as PromptFeed    *)
(* promises: whatever the memory does between two forwards, every layer's   *)
(* attention is fed the whole prompt, the layers in order, with the keys of *)
(* what each part says, and a part that is reused is never recomputed again. *)
THEOREM LoopFeedsInOrder == Spec => PP!RefinesFeed
<1>1. PP!PipelineAssumption
  BY Assumed
<1>2. PP!Spec => PP!RefinesFeed
  BY <1>1, PP!PipelineRefinesFeed
<1>3. QED
  BY <1>2, LoopRunsPipeline

(* The evaluator waits for a forward, and has only so many steps of it to    *)
(* wait for: nothing the memory does starts one of its threads again.      *)
THEOREM LoopForwardsAreFinite ==
  Spec => [](PP!StepsLeft \in 0 .. PP!MaxSteps) /\ PP!ForwardIsFinite
<1>1. PP!PipelineAssumption
  BY Assumed
<1>2. PP!Spec => [](PP!StepsLeft \in 0 .. PP!MaxSteps) /\ PP!ForwardIsFinite
  BY <1>1, PP!ForwardsAreFinite
<1>3. QED
  BY <1>2, LoopRunsPipeline
=============================================================================
