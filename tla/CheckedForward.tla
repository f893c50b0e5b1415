--------------------------- MODULE CheckedForward ---------------------------
(***************************************************************************)
(* Qwen2Model.forward with check on, seen from its checked layers: the      *)
(* schedule is computed first (RecomputeSchedule), then the layer loop      *)
(* runs; before a checked layer calculate_recomputation_modules chooses     *)
(* among the modules that still have rows (ModuleChoice), and what is left  *)
(* of hidden_states is laid out anew (KeyPositions).  LayerPipeline has the *)
(* threads this happens in.                                                *)
(***************************************************************************)
EXTENDS RecomputeSchedule, FiniteSets

CONSTANTS
  LastModule,    \* bound: the layers are followed for modules 0..LastModule
  FirstExample,  \* objects before it, examples from it on
  MaxLength,     \* bound on the tokens of a module
  MaxScore,      \* scores are 0..MaxScore
  MaxHops        \* bound on the hops of a choice with finite scores

ASSUME ForwardAssumption ==
  /\ LastModule \in Nat \ {0}
  /\ FirstExample \in 1 .. LastModule + 1
  /\ MaxLength \in Nat \ {0}
  /\ MaxScore \in Nat
  /\ MaxHops \in Nat

VARIABLES
  lengths, collected, layer, rows, rowStart, suffixStart, keyStart,
  hop, chosen, chosenOld, done, lastScores, lastNan,
  nanSeen  \* history: a choice of this forward met a score that is no number

positionVars == <<lengths, collected, layer, rows, rowStart, suffixStart, keyStart>>
choiceVars == <<hop, chosen, chosenOld, done, lastScores, lastNan>>
forwardVars == <<vars, positionVars, choiceVars, nanSeen>>

Checked(l) == \E k \in DOMAIN checkLayers : checkLayers[k] = l

(* Mutant: the entry of the next check. *)
AskedAtNext(l) ==
  LET k == CHOOSE n \in DOMAIN checkLayers : checkLayers[n] = l
  IN IF k < Len(recomputeNum) THEN recomputeNum[k + 1] ELSE 0

(* recompute_num[check_layers.index(layer_idx)] *)
AskedAt(l) == recomputeNum[CHOOSE k \in DOMAIN checkLayers : checkLayers[k] = l]

Asked == IF Checked(layer + 1) THEN AskedAt(layer + 1) ELSE 0

Positions == INSTANCE KeyPositions
Choice == INSTANCE ModuleChoice WITH recompute <- rows, recomputeNum <- Asked

ForwardInit ==
  /\ Init
  /\ Positions!Init
  /\ Choice!Init
  /\ nanSeen = FALSE

ScheduleLayer ==
  /\ NextLayer
  /\ UNCHANGED <<positionVars, choiceVars, nanSeen>>

(* The layer loop reads check_layers[0] and raises if there is none. *)
BeginForward ==
  /\ i = NumLayers
  /\ modules = LastModule + 1
  /\ checkLayers # << >>
  /\ Positions!BeginForward
  /\ nanSeen' = FALSE
  /\ UNCHANGED <<vars, choiceVars>>

UncheckedNext ==
  /\ layer < NumLayers
  /\ ~Checked(layer + 1)
  /\ Positions!PlainLayer
  /\ UNCHANGED <<vars, choiceVars, nanSeen>>

(* With no module left recompute_slices[-1] raises. *)
Choose ==
  /\ layer < NumLayers
  /\ Checked(layer + 1)
  /\ rows # {}
  /\ UNCHANGED <<vars, positionVars>>
  /\ Choice!Next
  /\ nanSeen' = (nanSeen \/ lastNan' # {})

CheckedNext ==
  /\ layer < NumLayers
  /\ Checked(layer + 1)
  /\ done
  /\ Positions!CheckNext(chosen)
  /\ Choice!Enter
  /\ UNCHANGED <<vars, nanSeen>>

ForwardNext ==
  \/ ScheduleLayer
  \/ BeginForward
  \/ UncheckedNext
  \/ Choose
  \/ CheckedNext

ForwardSpec == ForwardInit /\ [][ForwardNext]_forwardVars

-----------------------------------------------------------------------------
ChecksPassed == Cardinality({k \in DOMAIN checkLayers : checkLayers[k] <= layer})

(* As long as every score was a number, a layer never recomputes fewer       *)
(* modules than the schedule asks for there, through all its checks; so the *)
(* threshold of a choice is never looked up among the modules dropped       *)
(* before, and the layers never run out of modules to choose from.         *)
KeptEnough ==
  layer < NumLayers /\ ~nanSeen => Cardinality(rows) >= AskedBefore(ChecksPassed + 1)

(* More modules than asked for are kept only when they tie (ModuleChoice). *)
BestKept == Choice!BestKept

(* A module whose score is no number is not kept (ModuleChoice). *)
NanContained == Choice!NanContained

(* The instruction stays where the whole prompt put it (KeyPositions). *)
SuffixInPlace == Positions!SuffixInPlace

(* The rows never overlap and keep their order (KeyPositions). *)
RowsInOrder == Positions!RowsInOrder

-----------------------------------------------------------------------------
(* The strengthening that makes the five inductive.                         *)
ForwardTypeOK ==
  /\ lengths \in [Positions!Module -> 1 .. MaxLength]
  /\ layer \in 0 .. NumLayers
  /\ rows \in SUBSET Positions!Dynamic
  /\ chosen \in SUBSET rows
  /\ lastNan \in SUBSET rows
  /\ lastScores \in Choice!Scores
  /\ hop \in Nat
  /\ done \in BOOLEAN

(* The schedule is complete before the layer loop begins.                   *)
ScheduledFirst ==
  layer < NumLayers => i = NumLayers /\ modules = LastModule + 1

(* A choice is made at a checked layer only, and settles in no hop.         *)
ChoosesAtCheck ==
  IF hop = 0
    THEN chosen = {} /\ chosenOld = Positions!Module /\ ~done /\ lastNan = {}
    ELSE layer < NumLayers /\ Checked(layer + 1)

NanIsSeen == lastNan # {} => nanSeen

(* Where every score is a number, a choice keeps what it is asked for.      *)
EnoughChosen ==
  hop >= 1 /\ lastNan = {} /\ Cardinality(rows) >= Choice!AtLeastOne(Asked) =>
    Cardinality(chosen) >= Choice!AtLeastOne(Asked)

ForwardInv ==
  /\ ScheduleInv
  /\ ForwardTypeOK
  /\ ScheduledFirst
  /\ SuffixInPlace
  /\ RowsInOrder
  /\ ChoosesAtCheck
  /\ NanIsSeen
  /\ EnoughChosen
  /\ BestKept
  /\ NanContained
  /\ KeptEnough
=============================================================================
