--------------------------- MODULE MCKeepPlanning ---------------------------
(***************************************************************************)
(* KeepPlanning for TLC: two objects compete for one place in the prompt.  *)
(***************************************************************************)
EXTENDS KeepPlanning, TLC

CONSTANTS o1, o2, a, b, q

MCLength == [m \in Content |-> 1]
MCSimilarity == q :> ((a :> 2) @@ (b :> 1))

(* The second of four layers chooses anew which module it recomputes; the   *)
(* last of them is what the extra load reaches.                            *)
MCCheckLayersOf == [n \in NumExamples + 1 .. KvCapacity + NumExamples + 1 |-> {1}]
MCKeepNumOf ==
  [n \in NumExamples + 1 .. KvCapacity + NumExamples + 1 |->
    [l \in 0 .. NumLayers - 1 |-> 1]]

ObjSymmetry == Permutations(ObjId)
=============================================================================
