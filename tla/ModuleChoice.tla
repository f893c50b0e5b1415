---------------------------- MODULE ModuleChoice ----------------------------
(***************************************************************************)
(* calculate_recomputation_modules: which of the modules recomputed so far  *)
(* the next layer still recomputes.  The attention the instruction pays to  *)
(* each module, and in later hops the attention it pays through the other   *)
(* modules, gives a score; the best recompute_num modules are chosen, and   *)
(* hops go on until two choices in a row agree or a score is no longer a    *)
(* finite number.  LayerPipeline takes one such call as one step, Score;    *)
(* CheckedForward makes the calls of a forward one after the other.        *)
(*                                                                         *)
(* What attention weights say is left open: a hop may give any scores.     *)
(***************************************************************************)
EXTENDS Naturals, FiniteSetsExt

CONSTANTS
  LastModule,  \* modules 1..LastModule follow the static one, module 0
  MaxScore,    \* scores are 0..MaxScore
  MaxHops      \* bound on the hops with finite scores

Module == 0 .. LastModule
Dynamic == 1 .. LastModule
Scores == [Dynamic -> 0 .. MaxScore]

VARIABLES
  recompute,    \* cache_fuse_metadata["recompute_modules"] at the call
  recomputeNum, \* recompute_num of this layer
  hop,          \* diedaicishu
  chosen,       \* recompute_modules_tmp
  chosenOld,    \* recompute_modules_tmp_old
  done,         \* the call has returned, and chosen is recompute_modules
  lastScores,   \* history: the scores chosen was taken by
  lastNan       \* history: the modules whose score was then not a number

AtLeastOne(n) == IF n < 1 THEN 1 ELSE n

(* Mutant: sorted ascending. *)
KthWorst(scores, mods, k) ==
  CHOOSE v \in {scores[m] : m \in mods} :
    /\ Cardinality({m \in mods : scores[m] < v}) < k
    /\ k <= Cardinality({m \in mods : scores[m] <= v})

(* The k-th highest score of a set of modules. *)
KthBest(scores, mods, k) ==
  CHOOSE v \in {scores[m] : m \in mods} :
    /\ Cardinality({m \in mods : scores[m] > v}) < k
    /\ k <= Cardinality({m \in mods : scores[m] >= v})

(* module_attention_sorted[max(1, recompute_num) - 1], but not below 0.      *)
(* torch.sort puts what is no number first, and max(0, nan) is 0; modules   *)
(* that are not recomputed come last, with -100.                           *)
Threshold(scores, nan) ==
  LET k == AtLeastOne(recomputeNum)
      finite == recompute \ nan
      rank == k - Cardinality(nan)
  IN IF k <= Cardinality(nan) \/ rank > Cardinality(finite)
       THEN 0
       ELSE KthBest(scores, finite, rank)

(* Mutant: the last one asked for does not pass its own threshold. *)
BestAbove(scores, nan) ==
  {m \in recompute \ nan : scores[m] > Threshold(scores, nan)}

Best(scores, nan) ==
  {m \in recompute \ nan : scores[m] >= Threshold(scores, nan)}

(* The loop is entered with all ones against all zeros. *)
Init ==
  /\ hop = 0
  /\ chosen = {}
  /\ chosenOld = Module
  /\ done = FALSE
  /\ lastScores = [m \in Dynamic |-> 0]
  /\ lastNan = {}

Enter ==
  /\ hop' = 0
  /\ chosen' = {}
  /\ chosenOld' = Module
  /\ done' = FALSE
  /\ lastScores' = [m \in Dynamic |-> 0]
  /\ lastNan' = {}

Looping == ~done /\ chosen # chosenOld

Hop(scores, nan) ==
  /\ Looping
  /\ hop < MaxHops
  /\ hop' = hop + 1
  /\ nan = {} \/ hop' = 1
  /\ chosenOld' = chosen
  /\ chosen' = Best(scores, nan)
  /\ lastScores' = scores
  /\ lastNan' = nan
  /\ UNCHANGED <<recompute, recomputeNum, done>>

(* From the second hop on, NaN or Inf leaves the loop with the choice before. *)
Break ==
  /\ Looping
  /\ hop >= 1
  /\ hop' = hop + 1
  /\ done' = TRUE
  /\ UNCHANGED <<recompute, recomputeNum, chosen, chosenOld, lastScores, lastNan>>

Settle ==
  /\ ~done
  /\ chosen = chosenOld
  /\ done' = TRUE
  /\ UNCHANGED <<recompute, recomputeNum, hop, chosen, chosenOld, lastScores,
                 lastNan>>

Next ==
  \/ \E scores \in Scores, nan \in SUBSET recompute : Hop(scores, nan)
  \/ Break
  \/ Settle

-----------------------------------------------------------------------------
(* More modules than asked for are kept only when they tie with the last one *)
(* asked for, and nothing kept scores below anything dropped.              *)
BestKept ==
  hop >= 1 /\ lastNan = {} =>
    /\ \A m \in chosen, n \in recompute \ chosen : lastScores[m] > lastScores[n]
    /\ Cardinality({m \in chosen : \E n \in chosen : lastScores[m] > lastScores[n]})
         < AtLeastOne(recomputeNum)

(* If not every score is a number at the first hop, something is kept all    *)
(* the same, and never a module without a score; the next layer runs with   *)
(* no module to recompute only when no module has a score at all.          *)
NanContained ==
  hop >= 1 =>
    /\ chosen \intersect lastNan = {}
    /\ chosen = {} => lastNan = recompute
=============================================================================
