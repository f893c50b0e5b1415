------------------------- MODULE RecomputeSchedule -------------------------
(***************************************************************************)
(* The schedule Qwen2Model.forward computes before its layer loop: at which *)
(* layers modules are dropped from recomputation (check_layers) and how     *)
(* many stay (recompute_num).  The number of modules is multiplied by       *)
(* recompute_delay_ratio once per layer; a layer at which its integer part  *)
(* falls is checked, except the first.  The float is a number of 1/Scale.  *)
(***************************************************************************)
EXTENDS Integers, Sequences

CONSTANTS
  NumLayers,   \* len(self.layers)
  MaxModules,  \* bound on the number of modules of a prompt
  RatioNum,    \* recompute_delay_ratio is RatioNum / RatioDen
  RatioDen,
  Scale        \* resolution of recompute_num

ASSUME ScheduleAssumption ==
  /\ NumLayers \in Nat \ {0}
  /\ MaxModules \in Nat \ {0}
  /\ RatioNum \in Nat
  /\ RatioDen \in Nat \ {0}
  /\ Scale \in Nat \ {0}

VARIABLES
  modules,      \* min(kv_capacity, objects) + examples + 1 (the static one)
  i,            \* the layer of the for loop
  number,       \* recompute_num, the local variable
  numberOld,    \* recompute_num_old
  flag,         \* a first drop has been seen
  checkLayers,  \* cache_fuse_metadata["check_layers"]
  recomputeNum  \* cache_fuse_metadata["recompute_num"]

vars == <<modules, i, number, numberOld, flag, checkLayers, recomputeNum>>

Init ==
  /\ modules \in 1 .. MaxModules
  /\ i = 1
  /\ number = modules * Scale
  /\ numberOld = modules
  /\ flag = FALSE
  /\ checkLayers = << >>
  /\ recomputeNum = << >>

(* Mutant: every layer shrinks the number of modules anew. *)
ShrunkOnce == (modules * Scale * RatioNum) \div RatioDen

Shrunk == (number * RatioNum) \div RatioDen

Floor(x) == IF x \div Scale > 1 THEN x \div Scale ELSE 1

(* Mutant: the first fall is scheduled like the others. *)
FirstDropScheduled ==
  /\ ~flag
  /\ flag' = TRUE
  /\ recomputeNum' = Append(recomputeNum, Floor(Shrunk))
  /\ checkLayers' = Append(checkLayers, i)

(* The first fall of the integer part only sets flag. *)
FirstDrop ==
  /\ ~flag
  /\ flag' = TRUE
  /\ UNCHANGED <<checkLayers, recomputeNum>>

(* Mutant: check_layers grows at the wrong end. *)
ScheduleFirst ==
  /\ flag
  /\ recomputeNum' = Append(recomputeNum, Floor(Shrunk))
  /\ checkLayers' = <<i>> \o checkLayers
  /\ UNCHANGED flag

Schedule ==
  /\ flag
  /\ recomputeNum' = Append(recomputeNum, Floor(Shrunk))
  /\ checkLayers' = Append(checkLayers, i)
  /\ UNCHANGED flag

NextLayer ==
  /\ i < NumLayers
  /\ i' = i + 1
  /\ number' = Shrunk
  /\ IF Floor(Shrunk) < numberOld
       THEN /\ FirstDrop \/ Schedule
            /\ numberOld' = Floor(Shrunk)
       ELSE UNCHANGED <<numberOld, flag, checkLayers, recomputeNum>>
  /\ UNCHANGED modules

Next == NextLayer

Spec == Init /\ [][Next]_vars

-----------------------------------------------------------------------------
TypeOK ==
  /\ modules \in 1 .. MaxModules
  /\ i \in Nat
  /\ 1 <= i /\ i <= NumLayers
  /\ number \in Nat
  /\ numberOld \in Nat
  /\ flag \in BOOLEAN
  /\ checkLayers \in Seq(Nat)
  /\ recomputeNum \in Seq(Nat)

(* What a layer before the k-th check recomputes: at first all modules but   *)
(* the static one.                                                         *)
AskedBefore(k) == IF k = 1 THEN modules - 1 ELSE recomputeNum[k - 1]

(* Each check asks to keep at least one module and fewer than the layers     *)
(* before it recompute.  The first fall is to modules - 1, which is what    *)
(* the first layers recompute anyway, since the static module is never      *)
(* recomputed; a check there would cost a layer of attention weights and    *)
(* drop nothing.                                                           *)
EveryCheckDrops ==
  \A k \in 1 .. Len(recomputeNum) :
    recomputeNum[k] >= 1 /\ recomputeNum[k] < AskedBefore(k)

(* check_layers and recompute_num run in parallel and check_layers grows, so *)
(* recompute_num[check_layers.index(l)] is the number meant for layer l;    *)
(* layer 0 and layer 1 are never checked.                                  *)
LayersInOrder ==
  /\ Len(checkLayers) = Len(recomputeNum)
  /\ \A k \in 1 .. Len(checkLayers) :
       checkLayers[k] \in 2 .. NumLayers - 1
  /\ \A j, k \in 1 .. Len(checkLayers) : j < k => checkLayers[j] < checkLayers[k]

(* The layer loop reads check_layers[0] before anything else: with at least  *)
(* two modules beside the static one there is a layer to check.  (With      *)
(* fewer there is none, and check_layers[0] raises.)                       *)
SomeLayerChecked == i = NumLayers /\ modules >= 3 => checkLayers # << >>

-----------------------------------------------------------------------------
(* The strengthening that makes EveryCheckDrops and LayersInOrder inductive. *)
Bookkeeping ==
  /\ numberOld >= 1
  /\ ~flag => numberOld = modules /\ recomputeNum = << >>
  /\ flag => i >= 2 /\ numberOld <= modules - 1
  /\ recomputeNum # << >> => numberOld <= recomputeNum[Len(recomputeNum)]
  /\ \A k \in 1 .. Len(checkLayers) : checkLayers[k] < i

ScheduleInv == TypeOK /\ Bookkeeping /\ EveryCheckDrops /\ LayersInOrder

(* What SomeLayerChecked asks of the ratio: it is below one, three modules    *)
(* leave two at the first fall, and two modules lose one more in the layers  *)
(* that are left.  (0.96 does so from 15 layers on.)                        *)
RatioFits ==
  /\ RatioNum < RatioDen
  /\ 2 * RatioDen <= 3 * RatioNum
  /\ RatioDen <= 2 * (NumLayers - 2) * (RatioDen - RatioNum)

(* Between the first fall and the first check each layer takes away at least *)
(* the same share of the modules that were left by the fall.                *)
LossSoFar ==
  modules >= 3 =>
    /\ ~flag => i = 1 /\ number = modules * Scale
    /\ flag /\ checkLayers = << >> =>
         /\ numberOld >= 2
         /\ numberOld * Scale <= number
         /\ number * RatioDen
              < ((numberOld + 1) * RatioDen - (i - 2) * numberOld * (RatioDen - RatioNum)) * Scale
=============================================================================
