---------------------------- MODULE KeyPositions ----------------------------
(***************************************************************************)
(* The positions rotary_emb rotates keys to: when the keys of a message are *)
(* collected, when a forward lays out its prompt, and when checked layers   *)
(* lay out what is left of hidden_states.  A module is contiguous           *)
(* everywhere, so the position of its first token stands for it; module 0   *)
(* is the static prefix.                                                   *)
(***************************************************************************)
EXTENDS Naturals, FiniteSetsExt

CONSTANTS
  LastModule,   \* modules 1..LastModule follow the static one
  FirstExample, \* objects before it, examples from it on
  MaxLength,    \* bound on the tokens of a module
  NumLayers     \* config.num_hidden_layers

Module == 0 .. LastModule
Dynamic == 1 .. LastModule

VARIABLES
  lengths,     \* tokens of each module
  collected,   \* where the stored keys of each module begin
  layer,       \* the layer whose attention comes next
  rows,        \* modules with rows in hidden_states
  rowStart,    \* positions: where the rows of each module begin
  suffixStart, \* positions: where the rows of the instruction begin
  keyStart     \* where the keys of each module begin in key_value_hack

vars == <<lengths, collected, layer, rows, rowStart, suffixStart, keyStart>>

Tokens(mods) == MapThenSumSet(LAMBDA m : lengths[m], mods)

(* Mutant: a module begins where it ends. *)
PlaceAfter(m) == Tokens({k \in Module : k <= m})

(* module_lengths[m][0], and the length of the prompt before the suffix. *)
Place(m) == Tokens({k \in Module : k < m})

PrefixLength == Tokens(Module)

NotLaidOut == [m \in Dynamic |-> 0]

(* The engine gets the tokens alone, so a prompt begins at position 0.  The  *)
(* static prefix and each object are collected in a prompt of their own, the *)
(* examples behind one another in one (use_static_memory, the default) or   *)
(* each alone as well.                                                     *)
Collected(together) ==
  [m \in Module |-> IF together /\ m >= FirstExample
                    THEN Tokens({k \in FirstExample .. m : k < m})
                    ELSE 0]

Init ==
  /\ lengths \in [Module -> 1 .. MaxLength]
  /\ \E together \in BOOLEAN : collected = Collected(together)
  /\ layer = NumLayers
  /\ rows = {}
  /\ rowStart = NotLaidOut
  /\ suffixStart = 0
  /\ keyStart = collected

(* get_input_ids_vllm: every module at its place, the suffix behind them. *)
BeginForward ==
  /\ layer = NumLayers
  /\ layer' = 0
  /\ rows' = Dynamic
  /\ rowStart' = [m \in Dynamic |-> Place(m)]
  /\ suffixStart' = PrefixLength
  /\ UNCHANGED <<lengths, collected, keyStart>>

(* The keys of the rows are rotated to positions; those of the other modules *)
(* are taken from old_kv as they were collected.                           *)
Attention ==
  keyStart' = [m \in Module |-> IF m \in rows THEN rowStart[m] ELSE collected[m]]

PlainLayer ==
  /\ layer < NumLayers
  /\ Attention
  /\ layer' = layer + 1
  /\ UNCHANGED <<lengths, collected, rows, rowStart, suffixStart>>

(* Mutant: what is left begins behind the static prefix. *)
StartPosLeft(kept) == Place(1)

(* Before a checked layer: what remains of hidden_states is laid out as one  *)
(* run of positions that ends where the whole prompt ended.                *)
StartPos(kept) == PrefixLength - Tokens(kept)

CheckNext(kept) ==
  /\ layer + 1 < NumLayers
  /\ Attention
  /\ layer' = layer + 1
  /\ rows' = kept
  /\ rowStart' = [m \in Dynamic |->
       IF m \in kept THEN StartPos(kept) + Tokens({k \in kept : k < m})
                     ELSE rowStart[m]]
  /\ suffixStart' = StartPos(kept) + Tokens(kept)
  /\ UNCHANGED <<lengths, collected>>

Next ==
  \/ BeginForward
  \/ PlainLayer
  \/ \E kept \in SUBSET rows \ {{}} : CheckNext(kept)

Spec == Init /\ [][Next]_vars

-----------------------------------------------------------------------------
(* Whatever modules were dropped at however many checked layers, the         *)
(* instruction stays where the whole prompt put it: the skills that are     *)
(* scored afterwards begin at prefix_len and follow it.                    *)
SuffixInPlace == layer < NumLayers => suffixStart = PrefixLength

(* The rows never overlap and keep the order of the modules, so the causal   *)
(* mask, which knows rows and not positions, orders them as positions do.  *)
RowsInOrder ==
  layer < NumLayers =>
    \A m \in rows :
      /\ rowStart[m] + lengths[m] <= suffixStart
      /\ \A n \in rows : m < n => rowStart[m] + lengths[m] <= rowStart[n]

(* A comment of Qwen2Attention.forward: keys loaded from memory are rotated  *)
(* to their position in the current context.  (A module dropped just now    *)
(* still has the keys its rows computed.)                                  *)
Loaded == {m \in Dynamic \ rows : keyStart[m] # rowStart[m]}
LoadedKeysAtPlace == \A m \in Loaded : keyStart[m] = Place(m)
=============================================================================
