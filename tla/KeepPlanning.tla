---------------------------- MODULE KeepPlanning ----------------------------
(***************************************************************************)
(* The planning loop of KEEP on the evaluator's thread: tasks begin, the    *)
(* memory is told what the robot saw and did, and between those a forward   *)
(* runs over the messages the memory feeds it.  The memory and the layer    *)
(* pipeline meet in three places: the fed layout, memory_change, and        *)
(* whether the loading tables exist.  No collection fails here              *)
(* (MaxFailures = 0); MemoryStore has the failures.                        *)
(***************************************************************************)
EXTENDS Naturals, Sequences, FiniteSets

CONSTANTS
  \* of MemoryStore
  ObjId, NoId, Content, NoContent, Query, Length, Similarity, StaticLength,
  KvCapacity, MaxPlace,
  \* of LayerPipeline
  NumLayers, NumExamples, Zero, Fresh, NoKv, CheckLayersOf, KeepNumOf

VARIABLES
  messages, similarity, kvPlaces, place, query, alive, reported, failures,
  memoryChange, tablesBuilt,
  examples, loadingTable, layerWiseKv, pc, layer, recomputeModules, queryImp,
  rows, positionRows, oldKv, oldKvNext, computeThread, scoreThread,
  loadThread, loadSet, finishLoad, keyValueHack

Store == INSTANCE MemoryStore WITH MaxFailures <- 0

(* The pipeline reads sorted_indices, similarity_objects and messages_objects *)
(* through the schedule it was handed: its objects are the fed layout.     *)
Pipeline == INSTANCE LayerPipeline WITH objects <- Store!Layout

(* The assumptions of the two modules; no layer 0 is checked. *)
ASSUME KeepAssumption ==
  /\ NoId \notin ObjId
  /\ NoContent \notin Content
  /\ Length \in [Content -> Nat \ {0}]
  /\ Similarity \in [Query -> [Content -> Nat]]
  /\ StaticLength \in Nat
  /\ KvCapacity \in Nat \ {0}
  /\ MaxPlace \in Nat
  /\ NumLayers \in Nat \ {0, 1}
  /\ NumExamples \in Nat \ {0}
  /\ Zero \notin Content
  /\ Fresh \notin Content \union {Zero}
  /\ CheckLayersOf \in [Pipeline!ModuleCount -> SUBSET (Pipeline!Layer \ {0})]

forwardVars == <<pc, layer, recomputeModules, queryImp, rows, positionRows,
                 oldKv, oldKvNext, computeThread, scoreThread, loadThread,
                 loadSet, finishLoad, keyValueHack>>
memoryVars == <<messages, similarity, kvPlaces, place, query, alive, reported,
                failures>>
vars == <<memoryVars, memoryChange, tablesBuilt, examples, loadingTable,
          layerWiseKv, forwardVars>>

Init == Store!Init /\ Pipeline!Init

(* add_message_objects_by_observation, add_message_objects_by_action *)
Remember ==
  /\ pc = "idle"
  /\ \E o \in ObjId, c \in Content : Store!Observe(o, c) \/ Store!RecordAction(o, c)
  /\ UNCHANGED <<examples, loadingTable, layerWiseKv, forwardVars>>

(* The next task: reset, its instruction, and its examples. *)
NextTask ==
  /\ pc = "idle"
  /\ \E q \in Query : Store!NewEpisode(q)
  /\ examples' \in [1 .. NumExamples -> Content]
  /\ loadingTable' = Pipeline!NoSlots
  /\ layerWiseKv' = Pipeline!ZeroKv
  /\ UNCHANGED forwardVars

(* A planning step: the evaluator waits for the forward. *)
Plan ==
  /\ UNCHANGED memoryVars
  /\ Pipeline!ForwardStep

Next == Remember \/ NextTask \/ Plan

Spec == Init /\ [][Next]_vars

-----------------------------------------------------------------------------
(* Whatever is remembered between two forwards, the memory keeps the promise *)
(* the pipeline was checked under: the fed messages change only together    *)
(* with memory_change, or with a reset.                                    *)
ImplementsPipeline == Pipeline!Spec

(* A forward of the pipeline is, to the memory, a forward that reads the     *)
(* fed messages and takes the flag down.                                   *)
ImplementsStore == Store!Spec

(* End to end: once a forward's first attention has run, what it is fed is   *)
(* what was last reported of the objects, and what its later attentions     *)
(* reuse are the keys of exactly these reports.                            *)
ReusesLastReport ==
  \A l \in Pipeline!Attended : \A k \in DOMAIN Store!FedIndices :
    LET o == messages[Store!FedIndices[k]].id IN
      keyValueHack[l][k] \in {Fresh, reported[o]}
=============================================================================
