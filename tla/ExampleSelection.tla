-------------------------- MODULE ExampleSelection --------------------------
(***************************************************************************)
(* The examples a task is given: select_examples_topk ranks the examples of *)
(* the file by their similarity to the instruction, and init_prompt feeds   *)
(* the chosen ones to the memory.  cfg.prompt.num_examples is shared by all *)
(* tasks.  Examples are their numbers in the file, counted from 1.         *)
(***************************************************************************)
EXTENDS Naturals, SequencesExt

CONSTANTS
  NumFile,       \* examples in cfg.prompt.example_file_path
  Asked,         \* cfg.prompt.num_examples as configured
  MaxSimilarity  \* similarities are 0..MaxSimilarity

VARIABLES
  numExamples,  \* cfg.prompt.num_examples
  similarities, \* of the examples of the file to this task's instruction
  fed           \* the examples given to this task, best first

vars == <<numExamples, similarities, fed>>

Init ==
  /\ numExamples = Asked
  /\ similarities = [e \in 1 .. NumFile |-> 0]
  /\ fed = << >>

(* similarities[0][1:] *)
Ranked(sims) == Tail(sims)

(* torch.argsort(descending=True) promises no order among equals. *)
ArgSorts(values) ==
  {keys \in SetToSeqs(DOMAIN values) :
     \A j, k \in DOMAIN keys : j < k => values[keys[j]] >= values[keys[k]]}

Fewer(n, values) == IF n > Len(values) THEN Len(values) ELSE n

(* The keys are used as they are to pick from the examples of the file;      *)
(* init_prompt drops them all when no example is asked for.                *)
NextTask(sims) ==
  /\ similarities' = sims
  /\ numExamples' = Fewer(numExamples, Ranked(sims))
  /\ \E keys \in ArgSorts(Ranked(sims)) : fed' = SubSeq(keys, 1, numExamples')

Next == \E sims \in [1 .. NumFile -> 0 .. MaxSimilarity] : NextTask(sims)

Spec == Init /\ [][Next]_vars

-----------------------------------------------------------------------------
(* The comment of select_examples_topk: "get top k examples".  No example    *)
(* left out is more similar to the instruction than one that is fed.       *)
TopKSelected ==
  \A k \in DOMAIN fed : \A e \in 1 .. NumFile :
    (\A j \in DOMAIN fed : fed[j] # e) => similarities[e] <= similarities[fed[k]]
=============================================================================
