-------------------------- MODULE MCLayerPipeline --------------------------
(* A small instance of LayerPipeline: five layers, up to two objects and   *)
(* one or two examples.                                                    *)
EXTENDS LayerPipeline, TLC

CONSTANTS a, b

MCContent == {a, b}
ContentSymmetry == Permutations(MCContent)

(* Layers 2 and 3 in a row (status 3 then 1) for the larger prompts, one   *)
(* check for the smaller.                                                  *)
MCCheckLayersOf == [n \in ModuleCount |-> IF n > NumExamples + 1 THEN {2, 3} ELSE {3}]
MCKeepNumOf == [n \in ModuleCount |-> [l \in Layer |-> IF l < 3 THEN 2 ELSE 1]]
=============================================================================
