----------------------------- MODULE PromptFeed -----------------------------
(***************************************************************************)
(* What a planning forward promises, with no threads, tables or buffers:   *)
(* the layers are attended in order, each on keys of the whole prompt as   *)
(* it reads now, and the modules whose keys are computed rather than       *)
(* remembered only become fewer from layer to layer.                       *)
(***************************************************************************)
EXTENDS Naturals

CONSTANTS
  NumLayers,  \* layers of the model
  Slot,       \* places of the prompt a module can take
  Content,    \* what a module may say
  Fresh       \* keys computed by this forward

VARIABLES
  said,       \* the prompt: its modules and what they say
  busy,       \* a forward is running
  fresh,      \* modules whose keys are computed
  attended,   \* how many layers have been attended
  served      \* what each of those attentions saw

feedVars == <<said, busy, fresh, attended, served>>

Prompts == UNION {[D -> Content] : D \in SUBSET Slot}

FeedInit ==
  /\ said \in Prompts
  /\ busy = FALSE
  /\ fresh = {}
  /\ attended = 0
  /\ served = [l \in {} |-> {}]

(* The prompt changes only while no forward reads it. *)
Rewrite ==
  /\ ~busy
  /\ said' \in Prompts
  /\ UNCHANGED <<busy, fresh, attended, served>>

Begin ==
  /\ ~busy
  /\ busy' = TRUE
  /\ fresh' = DOMAIN said
  /\ UNCHANGED <<said, attended, served>>

View == [s \in DOMAIN said |-> IF s \in fresh THEN Fresh ELSE said[s]]

Attend ==
  /\ busy
  /\ attended < NumLayers
  /\ attended' = attended + 1
  /\ served' = [l \in 0 .. attended |-> IF l = attended THEN View ELSE served[l]]
  /\ UNCHANGED <<said, busy, fresh>>

Reuse ==
  /\ busy
  /\ attended > 0
  /\ fresh' \in SUBSET fresh
  /\ UNCHANGED <<said, busy, attended, served>>

End ==
  /\ busy
  /\ attended = NumLayers
  /\ busy' = FALSE
  /\ fresh' = {}
  /\ attended' = 0
  /\ served' = [l \in {} |-> {}]
  /\ UNCHANGED said

FeedNext == Rewrite \/ Begin \/ Attend \/ Reuse \/ End

FeedSpec == FeedInit /\ [][FeedNext]_feedVars /\ WF_feedVars(Attend \/ End)
FeedSafety == FeedInit /\ [][FeedNext]_feedVars
=============================================================================
