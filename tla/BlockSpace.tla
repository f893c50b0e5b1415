----------------------------- MODULE BlockSpace -----------------------------
(***************************************************************************)
(* BlockSpaceManagerV1 over UncachedBlockAllocator: the physical blocks of  *)
(* the KV cache, on the GPU and in the CPU's swap space, and the block      *)
(* table of every sequence.  Blocks are shared by reference counts.  Which  *)
(* free block an allocator hands out is left open; what is written into     *)
(* the blocks is not modelled.  No sliding window, no prefix caching.       *)
(***************************************************************************)
EXTENDS Integers, Sequences, FiniteSets

CONSTANTS
  Seqs,       \* sequence ids
  GpuBlocks,  \* blocks of gpu_allocator
  CpuBlocks,  \* blocks of cpu_allocator
  Counts      \* what SequenceGroup.num_seqs() may be when a prompt is allocated

ASSUME BlockAssumption ==
  /\ IsFiniteSet(Seqs)
  /\ GpuBlocks \intersect CpuBlocks = {}
  /\ Counts \subseteq Nat \ {0}

Block == GpuBlocks \union CpuBlocks

VARIABLES
  free,   \* free_blocks of both allocators
  ref,    \* ref_count of every block
  table   \* block_tables; << >> when a sequence has none

blockVars == <<free, ref, table>>

Entries(t) == {t[k] : k \in DOMAIN t}
Held(s) == Entries(table[s])
Holders(b) == {s \in Seqs : b \in Held(s)}
HeldBy(group) == UNION {Held(s) : s \in group}
LastBlock(s) == table[s][Len(table[s])]

NumFree(pool) == Cardinality(free \intersect pool)

IsInjection(f) == \A j, k \in DOMAIN f : f[j] = f[k] => j = k

BlockInit ==
  /\ free = Block
  /\ ref = [b \in Block |-> 0]
  /\ table = [s \in Seqs |-> << >>]

(* allocate: the table t of new blocks; every block gets the count num_seqs(). *)
Allocate(s, t, count) ==
  /\ table[s] = << >>
  /\ IsInjection(t)
  /\ Entries(t) \subseteq free \intersect GpuBlocks
  /\ table' = [table EXCEPT ![s] = t]
  /\ ref' = [b \in Block |-> IF b \in Entries(t) THEN count ELSE ref[b]]
  /\ free' = free \ Entries(t)

(* append_slots of a sequence that has needed logical blocks; b is the block *)
(* the GPU allocator would hand out.                                       *)
AppendBlock(s, b) ==
  /\ b \in free \intersect GpuBlocks
  /\ table' = [table EXCEPT ![s] = Append(@, b)]
  /\ ref' = [ref EXCEPT ![b] = 1]
  /\ free' = free \ {b}

CopyOnWrite(s, b) ==
  /\ b \in free \intersect GpuBlocks
  /\ table' = [table EXCEPT ![s][Len(table[s])] = b]
  /\ ref' = [ref EXCEPT ![b] = 1, ![LastBlock(s)] = @ - 1]
  /\ free' = (free \ {b}) \union (IF ref[LastBlock(s)] = 1 THEN {LastBlock(s)} ELSE {})

(* Mutant: a shared block is written in place. *)
AppendInPlace(s, needed, b) ==
  IF Len(table[s]) < needed THEN AppendBlock(s, b) ELSE UNCHANGED blockVars

AppendSlots(s, needed, b) ==
  IF Len(table[s]) < needed
    THEN AppendBlock(s, b)
    ELSE IF ref[LastBlock(s)] = 1 THEN UNCHANGED blockVars ELSE CopyOnWrite(s, b)

(* fork: the child shares all blocks of its parent. *)
Fork(parent, child) ==
  /\ table' = [table EXCEPT ![child] = table[parent]]
  /\ ref' = [b \in Block |-> IF b \in Held(parent) THEN ref[b] + 1 ELSE ref[b]]
  /\ UNCHANGED free

(* What is left of the count when the sequences of a group let go of b. *)
Without(group, b) == ref[b] - Cardinality(Holders(b) \intersect group)

(* Mutant: the count is not looked at. *)
ReleaseOutright(group) ==
  /\ table' = [s \in Seqs |-> IF s \in group THEN << >> ELSE table[s]]
  /\ ref' = [b \in Block |-> IF b \in HeldBy(group) THEN 0 ELSE ref[b]]
  /\ free' = free \union HeldBy(group)

(* free, for every sequence of a set. *)
Release(group) ==
  /\ table' = [s \in Seqs |-> IF s \in group THEN << >> ELSE table[s]]
  /\ ref' = [b \in Block |-> Without(group, b)]
  /\ free' = free \union {b \in HeldBy(group) : Without(group, b) = 0}

(* swap_out and swap_in: mapping takes every block of the group to a new     *)
(* block on the other device, and the block is freed once per table.       *)
Move(group, mapping, pool) ==
  /\ IsInjection(mapping)
  /\ Entries(mapping) \subseteq free \intersect pool
  /\ table' = [s \in Seqs |-> IF s \in group
                  THEN [k \in DOMAIN table[s] |-> mapping[table[s][k]]]
                  ELSE table[s]]
  /\ ref' = [b \in Block |->
       IF b \in Entries(mapping)
         THEN Cardinality({s \in group : \E c \in Held(s) : mapping[c] = b})
         ELSE Without(group, b)]
  /\ free' = (free \ Entries(mapping))
               \union {b \in HeldBy(group) : Without(group, b) = 0}

-----------------------------------------------------------------------------
(* The calls the scheduler makes, each only where it is legal: a group that  *)
(* is moved shares no block with sequences that stay.                       *)
OnDevice(s, pool) == table[s] # << >> /\ Held(s) \subseteq pool

Closed(group) ==
  \A s \in group, other \in Seqs \ group : Held(s) \intersect Held(other) = {}

CallAllocate ==
  \E s \in Seqs, count \in Counts, n \in 1 .. NumFree(GpuBlocks) :
    \E t \in [1 .. n -> free \intersect GpuBlocks] : Allocate(s, t, count)

CallAppend ==
  \E s \in Seqs, b \in free \intersect GpuBlocks :
    /\ OnDevice(s, GpuBlocks)
    /\ \E needed \in {Len(table[s]), Len(table[s]) + 1} : AppendSlots(s, needed, b)

CallFork ==
  \E parent, child \in Seqs :
    OnDevice(parent, GpuBlocks) /\ table[child] = << >> /\ Fork(parent, child)

CallRelease ==
  \E group \in SUBSET {s \in Seqs : table[s] # << >>} : Release(group)

CallSwap(from, to) ==
  \E group \in SUBSET {s \in Seqs : OnDevice(s, from)} :
    /\ Closed(group)
    /\ \E mapping \in [HeldBy(group) -> free \intersect to] : Move(group, mapping, to)

BlockNext ==
  \/ CallAllocate
  \/ CallAppend
  \/ CallFork
  \/ CallRelease
  \/ CallSwap(GpuBlocks, CpuBlocks)
  \/ CallSwap(CpuBlocks, GpuBlocks)

BlockSpec == BlockInit /\ [][BlockNext]_blockVars

-----------------------------------------------------------------------------
BlockTypeOK ==
  /\ free \subseteq Block
  /\ ref \in [Block -> Nat]
  /\ table \in [Seqs -> Seq(Block)]

(* A block is on the free list when its count is zero, and only then. *)
FreeWhenUnreferenced == \A b \in Block : b \in free <=> ref[b] = 0

(* No block is counted fewer times than there are tables that hold it, so    *)
(* the last holder to go is the one that frees it.                         *)
CountCoversHolders == \A b \in Block : Cardinality(Holders(b)) <= ref[b]

(* A table names a block once, and all its blocks are on one device. *)
TablesWellFormed ==
  \A s \in Seqs : /\ IsInjection(table[s])
                  /\ Held(s) \subseteq GpuBlocks \/ Held(s) \subseteq CpuBlocks

(* Sequences share a block only at the same place of their tables: what a    *)
(* block holds are the keys of one run of positions.                       *)
SharedAtSamePlace ==
  \A s, t \in Seqs : \A j \in DOMAIN table[s], k \in DOMAIN table[t] :
    table[s][j] = table[t][k] => j = k

(* A block in use is never on the free list, whatever calls came before: it  *)
(* cannot be handed to a second sequence while the first still reads it.   *)
InUseNotFree == \A s \in Seqs : Held(s) \intersect free = {}

BlockInv ==
  /\ BlockTypeOK
  /\ FreeWhenUnreferenced
  /\ CountCoversHolders
  /\ TablesWellFormed
  /\ SharedAtSamePlace

(* No block is counted more often than it is held, so none is lost to the    *)
(* free list: the tests of the block manager expect that all blocks are     *)
(* free again once every sequence is freed.                                *)
CountExact == \A b \in Block : ref[b] = Cardinality(Holders(b))
=============================================================================
