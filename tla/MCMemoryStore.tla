---------------------------- MODULE MCMemoryStore ----------------------------
(***************************************************************************)
(* MemoryStore for TLC: three objects, two things to say of an object, an  *)
(* instruction that tells them apart and one that does not.                *)
(***************************************************************************)
EXTENDS MemoryStore

CONSTANTS o1, o2, o3, a, b, q1, q2

MCLength == (a :> 1) @@ (b :> 2)
MCSimilarity == (q1 :> ((a :> 2) @@ (b :> 1))) @@ (q2 :> ((a :> 1) @@ (b :> 1)))

ObjSymmetry == Permutations(ObjId)
=============================================================================
