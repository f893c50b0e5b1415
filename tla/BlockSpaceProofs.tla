-------------------------- MODULE BlockSpaceProofs --------------------------
(***************************************************************************)
(* Proofs about BlockSpace for any sequences and blocks: BlockInv is         *)
(* inductive, so no block in use is ever free; and if every prompt is       *)
(* counted once, counts are exact and no block is lost.                     *)
(***************************************************************************)
EXTENDS BlockSpace, FiniteSetTheorems, TLAPS

(* Counting sets of sequences. *)
LEMMA CountType ==
  ASSUME BlockAssumption, NEW S \in SUBSET Seqs
  PROVE  /\ IsFiniteSet(S)
         /\ Cardinality(S) \in Nat
         /\ Cardinality(S) = 0 <=> S = {}
  <1>1. IsFiniteSet(S)
    BY FS_Subset DEF BlockAssumption
  <1> QED
    BY <1>1, FS_CardinalityType, FS_EmptySet

LEMMA CountWithout ==
  ASSUME BlockAssumption, NEW S \in SUBSET Seqs, NEW G \in SUBSET Seqs
  PROVE  Cardinality(S \ G) = Cardinality(S) - Cardinality(S \cap G)
  BY CountType, FS_Difference

LEMMA CountOne ==
  ASSUME NEW s
  PROVE  Cardinality({s}) = 1
  BY FS_Singleton

LEMMA CountAdd ==
  ASSUME BlockAssumption, NEW S \in SUBSET Seqs, NEW s \in Seqs, s \notin S
  PROVE  Cardinality(S \cup {s}) = Cardinality(S) + 1
  BY CountType, FS_AddElement

LEMMA CountRemove ==
  ASSUME BlockAssumption, NEW S \in SUBSET Seqs, NEW s \in S
  PROVE  Cardinality(S \ {s}) = Cardinality(S) - 1
  BY CountType, FS_RemoveElement

-----------------------------------------------------------------------------
LEMMA HoldersType ==
  ASSUME BlockAssumption, NEW b
  PROVE  /\ Holders(b) \in SUBSET Seqs
         /\ Cardinality(Holders(b)) \in Nat
  BY CountType DEF Holders

LEMMA HeldInBlocks ==
  ASSUME BlockTypeOK, NEW s \in Seqs
  PROVE  /\ table[s] \in Seq(Block)
         /\ Held(s) \subseteq Block
  BY DEF BlockTypeOK, Held, Entries

(* Nobody holds a block of the free list. *)
LEMMA FreeUnheld ==
  ASSUME BlockAssumption, BlockInv, NEW b \in free
  PROVE  Holders(b) = {}
  <1>1. b \in Block /\ ref[b] = 0
    BY DEF BlockInv, BlockTypeOK, FreeWhenUnreferenced
  <1>2. Cardinality(Holders(b)) <= 0
    BY <1>1 DEF BlockInv, CountCoversHolders
  <1> QED
    BY <1>2, HoldersType, CountType

LEMMA InvImpliesInUseNotFree ==
  ASSUME BlockAssumption, BlockInv
  PROVE  InUseNotFree
  BY FreeUnheld DEF InUseNotFree, Holders

LEMMA InitInv ==
  ASSUME BlockAssumption, BlockInit
  PROVE  BlockInv /\ CountExact
  <1>1. \A b : Holders(b) = {}
    BY DEF BlockInit, Holders, Held, Entries
  <1>2. \A b : Cardinality(Holders(b)) = 0
    BY <1>1, FS_EmptySet
  <1>3. BlockTypeOK
    BY DEF BlockInit, BlockTypeOK
  <1>4. CountCoversHolders /\ CountExact /\ FreeWhenUnreferenced
    BY <1>2 DEF BlockInit, CountCoversHolders, CountExact, FreeWhenUnreferenced
  <1>5. TablesWellFormed /\ SharedAtSamePlace
    BY DEF BlockInit, TablesWellFormed, SharedAtSamePlace, IsInjection, Held, Entries
  <1> QED
    BY <1>3, <1>4, <1>5 DEF BlockInv

-----------------------------------------------------------------------------
(* One lemma per call. *)
LEMMA AllocateKeeps ==
  ASSUME BlockAssumption, BlockInv,
         NEW s \in Seqs, NEW count \in Counts, NEW n \in Nat,
         NEW t \in [1 .. n -> free \intersect GpuBlocks],
         Allocate(s, t, count)
  PROVE  /\ BlockInv'
         /\ CountExact /\ count = 1 => CountExact'
  <1>0. count \in Nat /\ count >= 1
    BY DEF BlockAssumption
  <1>1. Entries(t) \subseteq free /\ Entries(t) \subseteq GpuBlocks /\ Entries(t) \subseteq Block
    BY DEF Entries, Block
  <1>2. BlockTypeOK'
    <2>1. free' \subseteq Block /\ ref' \in [Block -> Nat]
      BY <1>0 DEF Allocate, BlockInv, BlockTypeOK
    <2>2. t \in Seq(Block)
      BY DEF Block
    <2> QED
      BY <2>1, <2>2 DEF Allocate, BlockInv, BlockTypeOK
  <1>3. ASSUME NEW q \in Seqs
        PROVE  Held(q)' = IF q = s THEN Entries(t) ELSE Held(q)
    BY DEF Allocate, Held, BlockInv, BlockTypeOK
  <1>4. Held(s) = {}
    BY DEF Allocate, Held, Entries
  <1>5. ASSUME NEW b \in Block
        PROVE  Holders(b)' = IF b \in Entries(t) THEN {s} ELSE Holders(b)
    <2>1. CASE b \in Entries(t)
      BY <2>1, <1>1, <1>3, FreeUnheld DEF Holders
    <2>2. CASE b \notin Entries(t)
      BY <2>2, <1>3, <1>4 DEF Holders
    <2> QED
      BY <2>1, <2>2
  <1>6. ASSUME NEW b \in Block
        PROVE  /\ ref'[b] = IF b \in Entries(t) THEN count ELSE ref[b]
               /\ b \in free' <=> b \in free /\ b \notin Entries(t)
    BY DEF Allocate
  <1>7. FreeWhenUnreferenced'
    BY <1>0, <1>6 DEF BlockInv, FreeWhenUnreferenced
  <1>8. CountCoversHolders'
    BY <1>0, <1>5, <1>6, CountOne DEF BlockInv, CountCoversHolders
  <1>9. TablesWellFormed'
    BY <1>1, <1>3 DEF Allocate, BlockInv, BlockTypeOK, TablesWellFormed
  <1>10. SharedAtSamePlace'
    <2>1. \A q \in Seqs : Held(q) \cap Entries(t) = {}
      BY <1>1, FreeUnheld DEF Holders
    <2>2. \A q \in Seqs : table'[q] = IF q = s THEN t ELSE table[q]
      BY DEF Allocate, BlockInv, BlockTypeOK
    <2>3. \A q \in Seqs : \A k \in DOMAIN table[q] : table[q][k] \in Held(q)
      BY DEF Held, Entries
    <2>4. \A k \in DOMAIN t : t[k] \in Entries(t)
      BY DEF Entries
    <2>5. IsInjection(t)
      BY DEF Allocate
    <2>6. SUFFICES ASSUME NEW p \in Seqs, NEW q \in Seqs,
                          NEW j \in DOMAIN table'[p], NEW k \in DOMAIN table'[q],
                          table'[p][j] = table'[q][k]
                   PROVE  j = k
      BY DEF SharedAtSamePlace
    <2>7. CASE p = s /\ q = s
      BY <2>7, <2>2, <2>5, <2>6 DEF IsInjection
    <2>8. CASE p # s /\ q # s
      BY <2>8, <2>2, <2>6 DEF BlockInv, SharedAtSamePlace
    <2>9. CASE (p = s) # (q = s)
      BY <2>9, <2>1, <2>2, <2>3, <2>4, <2>6
    <2> QED
      BY <2>7, <2>8, <2>9
  <1>11. CountExact /\ count = 1 => CountExact'
    BY <1>5, <1>6, CountOne DEF CountExact
  <1> QED
    BY <1>2, <1>7, <1>8, <1>9, <1>10, <1>11 DEF BlockInv

LEMMA AppendFacts ==
  ASSUME NEW t \in Seq(Block), NEW b \in Block
  PROVE  /\ Append(t, b) \in Seq(Block)
         /\ DOMAIN Append(t, b) = DOMAIN t \cup {Len(t) + 1}
         /\ Len(t) + 1 \notin DOMAIN t
         /\ Append(t, b)[Len(t) + 1] = b
         /\ \A k \in DOMAIN t : Append(t, b)[k] = t[k]
         /\ Entries(Append(t, b)) = Entries(t) \cup {b}
  <1>1. /\ Append(t, b) \in Seq(Block)
        /\ DOMAIN Append(t, b) = DOMAIN t \cup {Len(t) + 1}
        /\ Len(t) + 1 \notin DOMAIN t
        /\ Append(t, b)[Len(t) + 1] = b
        /\ \A k \in DOMAIN t : Append(t, b)[k] = t[k]
    OBVIOUS
  <1>2. Entries(Append(t, b)) = Entries(t) \cup {b}
    <2> DEFINE u == Append(t, b)
    <2>1. ASSUME NEW c PROVE c \in Entries(u) <=> c \in Entries(t) \cup {b}
      <3> HIDE DEF u
      <3>1. /\ DOMAIN u = DOMAIN t \cup {Len(t) + 1}
            /\ u[Len(t) + 1] = b
            /\ \A k \in DOMAIN t : u[k] = t[k]
        BY <1>1 DEF u
      <3> QED
        BY <3>1 DEF Entries
    <2> QED
      BY <2>1
  <1> QED
    BY <1>1, <1>2

LEMMA AppendBlockKeeps ==
  ASSUME BlockAssumption, BlockInv,
         NEW s \in Seqs, NEW b \in free \intersect GpuBlocks,
         OnDevice(s, GpuBlocks), AppendBlock(s, b)
  PROVE  /\ BlockInv'
         /\ CountExact => CountExact'
  <1>1. b \in Block /\ b \in GpuBlocks /\ table[s] \in Seq(Block)
    BY HeldInBlocks DEF Block, BlockInv
  <1>2. /\ \A q \in Seqs : table'[q] = IF q = s THEN Append(table[s], b) ELSE table[q]
        /\ \A c \in Block : ref'[c] = IF c = b THEN 1 ELSE ref[c]
        /\ free' = free \ {b}
    BY DEF AppendBlock, BlockInv, BlockTypeOK
  <1>3. BlockTypeOK'
    BY <1>1 DEF AppendBlock, BlockInv, BlockTypeOK
  <1>4. \A q \in Seqs : Held(q)' = IF q = s THEN Held(s) \cup {b} ELSE Held(q)
    <2>1. Entries(Append(table[s], b)) = Entries(table[s]) \cup {b}
      BY <1>1, AppendFacts
    <2> QED
      BY <1>2, <2>1 DEF Held
  <1>5. \A q \in Seqs : b \notin Held(q)
    BY FreeUnheld DEF Holders
  <1>6. ASSUME NEW c \in Block
        PROVE  /\ Holders(c)' = IF c = b THEN {s} ELSE Holders(c)
               /\ ref'[c] = IF c = b THEN 1 ELSE ref[c]
    BY <1>2, <1>4, <1>5 DEF Holders
  <1>7. FreeWhenUnreferenced'
    BY <1>2 DEF BlockInv, FreeWhenUnreferenced
  <1>8. CountCoversHolders'
    <2>1. SUFFICES ASSUME NEW c \in Block
                   PROVE  Cardinality(Holders(c)') <= ref'[c]
      BY DEF CountCoversHolders
    <2>2. CASE c = b
      BY <2>2, <1>6, CountOne
    <2>3. CASE c # b
      BY <2>3, <1>6 DEF BlockInv, CountCoversHolders
    <2> QED
      BY <2>2, <2>3
  <1>9. TablesWellFormed'
    <2>1. IsInjection(Append(table[s], b))
      <3>1. IsInjection(table[s])
        BY DEF BlockInv, TablesWellFormed
      <3>2. \A k \in DOMAIN table[s] : table[s][k] # b
        BY <1>5 DEF Held, Entries
      <3> QED
        BY <1>1, <3>1, <3>2, AppendFacts DEF IsInjection
    <2>2. Held(s)' \subseteq GpuBlocks
      BY <1>1, <1>4 DEF OnDevice
    <2> QED
      BY <1>2, <1>4, <2>1, <2>2 DEF BlockInv, TablesWellFormed
  <1>10. SharedAtSamePlace'
    <2>1. SUFFICES ASSUME NEW p \in Seqs, NEW q \in Seqs,
                          NEW j \in DOMAIN table'[p], NEW k \in DOMAIN table'[q],
                          table'[p][j] = table'[q][k]
                   PROVE  j = k
      BY DEF SharedAtSamePlace
    <2>2. ASSUME NEW r \in Seqs, NEW i \in DOMAIN table'[r]
          PROVE  \/ i \in DOMAIN table[r] /\ table'[r][i] = table[r][i] /\ table'[r][i] # b
                 \/ r = s /\ i = Len(table[s]) + 1 /\ table'[r][i] = b
      <3>1. \A m \in DOMAIN table[r] : table[r][m] # b
        BY <1>5 DEF Held, Entries
      <3>2. CASE r = s
        <4>1. i \in DOMAIN Append(table[s], b) /\ table'[r] = Append(table[s], b)
          BY <1>2, <3>2
        <4> QED
          BY <1>1, <3>1, <3>2, <4>1, AppendFacts
      <3>3. CASE r # s
        BY <1>2, <3>1, <3>3
      <3> QED
        BY <3>2, <3>3
    <2> QED
      BY <2>1, <2>2 DEF BlockInv, SharedAtSamePlace
  <1>11. CountExact => CountExact'
    BY <1>2, <1>6, CountOne DEF CountExact
  <1> QED
    BY <1>3, <1>7, <1>8, <1>9, <1>10, <1>11 DEF BlockInv

LEMMA CopyOnWriteKeeps ==
  ASSUME BlockAssumption, BlockInv,
         NEW s \in Seqs, NEW b \in free \intersect GpuBlocks,
         OnDevice(s, GpuBlocks), CopyOnWrite(s, b), ref[LastBlock(s)] # 1
  PROVE  /\ BlockInv'
         /\ CountExact => CountExact'
  <1> DEFINE last == LastBlock(s)
             n == Len(table[s])
  <1>1. /\ b \in Block /\ b \in GpuBlocks /\ table[s] \in Seq(Block)
        /\ n \in Nat \ {0} /\ n \in DOMAIN table[s] /\ table[s][n] = last
        /\ last \in Held(s) /\ last \in Block
    <2>1. b \in Block /\ b \in GpuBlocks /\ table[s] \in Seq(Block)
      BY HeldInBlocks DEF Block, BlockInv
    <2>2. table[s] # << >>
      BY DEF OnDevice
    <2>3. n \in Nat \ {0} /\ n \in DOMAIN table[s]
      BY <2>1, <2>2
    <2> QED
      BY <2>1, <2>3 DEF LastBlock, Held, Entries
  <1>2. \A q \in Seqs : b \notin Held(q)
    BY FreeUnheld DEF Holders
  <1>3. last # b
    BY <1>1, <1>2
  <1>4. s \in Holders(last) /\ Holders(last) \in SUBSET Seqs
    BY <1>1 DEF Holders
  <1>5. ref[last] \in Nat /\ ref[last] >= 2
    <2>1. Cardinality(Holders(last)) \in Nat /\ Cardinality(Holders(last)) # 0
      BY <1>4, CountType
    <2>2. Cardinality(Holders(last)) <= ref[last] /\ ref[last] \in Nat
      BY <1>1 DEF BlockInv, CountCoversHolders, BlockTypeOK
    <2> QED
      BY <2>1, <2>2
  <1>6. /\ \A q \in Seqs : table'[q] = IF q = s THEN [table[s] EXCEPT ![n] = b] ELSE table[q]
        /\ \A c \in Block : ref'[c] = IF c = b THEN 1
                                      ELSE IF c = last THEN ref[c] - 1 ELSE ref[c]
        /\ free' = free \ {b}
    BY <1>1, <1>3, <1>5 DEF CopyOnWrite, BlockInv, BlockTypeOK
  <1>7. BlockTypeOK'
    <2>1. [table[s] EXCEPT ![n] = b] \in Seq(Block)
      BY <1>1
    <2>2. table' \in [Seqs -> Seq(Block)]
      BY <2>1 DEF CopyOnWrite, BlockInv, BlockTypeOK
    <2>3. ref' \in [Block -> Nat]
      BY <1>1, <1>3, <1>5 DEF CopyOnWrite, BlockInv, BlockTypeOK
    <2> QED
      BY <1>6, <2>2, <2>3 DEF BlockInv, BlockTypeOK
  <1>8. IsInjection(table[s])
    BY DEF BlockInv, TablesWellFormed
  <1>9. \A q \in Seqs : Held(q)' = IF q = s THEN (Held(s) \ {last}) \cup {b} ELSE Held(q)
    <2>1. Entries([table[s] EXCEPT ![n] = b]) = (Entries(table[s]) \ {last}) \cup {b}
      BY <1>1, <1>8 DEF Entries, IsInjection
    <2> QED
      BY <1>6, <2>1 DEF Held
  <1>10. ASSUME NEW c \in Block
         PROVE  Holders(c)' = IF c = b THEN {s}
                              ELSE IF c = last THEN Holders(c) \ {s} ELSE Holders(c)
    BY <1>2, <1>3, <1>9 DEF Holders
  <1>11. Cardinality(Holders(last) \ {s}) = Cardinality(Holders(last)) - 1
    BY <1>4, CountRemove
  <1>12. FreeWhenUnreferenced'
    BY <1>3, <1>5, <1>6 DEF BlockInv, FreeWhenUnreferenced
  <1>13. CountCoversHolders'
    <2>1. SUFFICES ASSUME NEW c \in Block
                   PROVE  Cardinality(Holders(c)') <= ref'[c]
      BY DEF CountCoversHolders
    <2>2. CASE c = b
      <3>1. Holders(c)' = {s} /\ ref'[c] = 1
        BY <2>2, <1>6, <1>10
      <3> QED
        BY <3>1, CountOne
    <2>3. CASE c = last
      <3>1. Holders(c)' = Holders(last) \ {s} /\ ref'[c] = ref[last] - 1
        BY <2>3, <1>3, <1>6, <1>10
      <3>2. Cardinality(Holders(last)) <= ref[last]
        BY <1>1 DEF BlockInv, CountCoversHolders
      <3>3. Cardinality(Holders(last)) \in Nat
        BY HoldersType
      <3> QED
        BY <3>1, <3>2, <3>3, <1>5, <1>11
    <2>4. CASE c # b /\ c # last
      BY <2>4, <1>6, <1>10 DEF BlockInv, CountCoversHolders
    <2> QED
      BY <2>2, <2>3, <2>4
  <1>14. TablesWellFormed'
    <2>1. IsInjection([table[s] EXCEPT ![n] = b])
      <3>1. \A k \in DOMAIN table[s] : table[s][k] # b
        BY <1>2 DEF Held, Entries
      <3> QED
        BY <1>1, <1>8, <3>1 DEF IsInjection
    <2>2. Held(s)' \subseteq GpuBlocks
      BY <1>1, <1>9 DEF OnDevice
    <2> QED
      BY <1>6, <1>9, <2>1, <2>2 DEF BlockInv, TablesWellFormed
  <1>15. SharedAtSamePlace'
    <2>1. SUFFICES ASSUME NEW p \in Seqs, NEW q \in Seqs,
                          NEW j \in DOMAIN table'[p], NEW k \in DOMAIN table'[q],
                          table'[p][j] = table'[q][k]
                   PROVE  j = k
      BY DEF SharedAtSamePlace
    <2>2. ASSUME NEW r \in Seqs, NEW i \in DOMAIN table'[r]
          PROVE  \/ i \in DOMAIN table[r] /\ table'[r][i] = table[r][i] /\ table'[r][i] # b
                 \/ r = s /\ i = n /\ table'[r][i] = b
      <3>1. \A m \in DOMAIN table[r] : table[r][m] # b
        BY <1>2 DEF Held, Entries
      <3> QED
        BY <1>1, <1>6, <3>1
    <2> QED
      BY <2>1, <2>2 DEF BlockInv, SharedAtSamePlace
  <1>16. CountExact => CountExact'
    BY <1>5, <1>6, <1>10, <1>11, CountOne, HoldersType DEF CountExact
  <1> QED
    BY <1>7, <1>12, <1>13, <1>14, <1>15, <1>16 DEF BlockInv

LEMMA AppendSlotsKeeps ==
  ASSUME BlockAssumption, BlockInv,
         NEW s \in Seqs, NEW needed, NEW b \in free \intersect GpuBlocks,
         OnDevice(s, GpuBlocks), AppendSlots(s, needed, b)
  PROVE  /\ BlockInv'
         /\ CountExact => CountExact'
  <1>1. CASE AppendBlock(s, b)
    BY <1>1, AppendBlockKeeps
  <1>2. CASE CopyOnWrite(s, b) /\ ref[LastBlock(s)] # 1
    BY <1>2, CopyOnWriteKeeps
  <1>3. CASE UNCHANGED blockVars
    BY <1>3 DEF blockVars, BlockInv, BlockTypeOK, FreeWhenUnreferenced,
        CountCoversHolders, TablesWellFormed, SharedAtSamePlace, CountExact,
        Holders, Held
  <1> QED
    BY <1>1, <1>2, <1>3 DEF AppendSlots

LEMMA ForkKeeps ==
  ASSUME BlockAssumption, BlockInv,
         NEW parent \in Seqs, NEW child \in Seqs,
         OnDevice(parent, GpuBlocks), table[child] = << >>, Fork(parent, child)
  PROVE  /\ BlockInv'
         /\ CountExact => CountExact'
  <1>1. /\ \A q \in Seqs : table'[q] = IF q = child THEN table[parent] ELSE table[q]
        /\ \A c \in Block : ref'[c] = IF c \in Held(parent) THEN ref[c] + 1 ELSE ref[c]
        /\ free' = free
    BY DEF Fork, BlockInv, BlockTypeOK
  <1>2. BlockTypeOK'
    <2>1. table' \in [Seqs -> Seq(Block)]
      BY HeldInBlocks DEF Fork, BlockInv, BlockTypeOK
    <2>2. ref' \in [Block -> Nat]
      BY DEF Fork, BlockInv, BlockTypeOK
    <2> QED
      BY <1>1, <2>1, <2>2 DEF BlockInv, BlockTypeOK
  <1>3. \A q \in Seqs : Held(q)' = IF q = child THEN Held(parent) ELSE Held(q)
    BY <1>1 DEF Held
  <1>4. Held(child) = {}
    BY DEF Held, Entries
  <1>5. ASSUME NEW c \in Block
        PROVE  Holders(c)' = IF c \in Held(parent) THEN Holders(c) \cup {child} ELSE Holders(c)
    BY <1>3, <1>4 DEF Holders
  <1>6. ASSUME NEW c \in Block
        PROVE  Cardinality(Holders(c)') = IF c \in Held(parent)
                                            THEN Cardinality(Holders(c)) + 1
                                            ELSE Cardinality(Holders(c))
    <2>1. child \notin Holders(c)
      BY <1>4 DEF Holders
    <2>2. Cardinality(Holders(c) \cup {child}) = Cardinality(Holders(c)) + 1
      BY <2>1, CountAdd, HoldersType
    <2> QED
      BY <1>5, <2>2
  <1>7. ASSUME NEW c \in Block
        PROVE  ref[c] \in Nat /\ Cardinality(Holders(c)) \in Nat
    BY HoldersType DEF BlockInv, BlockTypeOK
  <1>8. FreeWhenUnreferenced'
    <2>1. \A c \in Held(parent) : c \notin free
      BY InvImpliesInUseNotFree DEF InUseNotFree
    <2> QED
      BY <1>1, <1>7, <2>1 DEF BlockInv, FreeWhenUnreferenced
  <1>9. CountCoversHolders'
    <2>1. SUFFICES ASSUME NEW c \in Block
                   PROVE  Cardinality(Holders(c)') <= ref'[c]
      BY DEF CountCoversHolders
    <2>2. Cardinality(Holders(c)) <= ref[c]
      BY DEF BlockInv, CountCoversHolders
    <2> QED
      BY <1>1, <1>6, <1>7, <2>2
  <1>10. TablesWellFormed'
    BY <1>1, <1>3 DEF BlockInv, TablesWellFormed
  <1>11. SharedAtSamePlace'
    BY <1>1 DEF BlockInv, SharedAtSamePlace
  <1>12. CountExact => CountExact'
    BY <1>1, <1>6, <1>7 DEF CountExact
  <1> QED
    BY <1>2, <1>8, <1>9, <1>10, <1>11, <1>12 DEF BlockInv

(* What a group leaves of a count is what covers the other holders. *)
LEMMA WithoutGroup ==
  ASSUME BlockAssumption, BlockInv, NEW group \in SUBSET Seqs, NEW b \in Block
  PROVE  /\ Without(group, b) \in Nat
         /\ Cardinality(Holders(b) \ group) <= Without(group, b)
         /\ CountExact => Cardinality(Holders(b) \ group) = Without(group, b)
         /\ b \in free => Without(group, b) = 0
         /\ b \notin HeldBy(group) /\ Without(group, b) = 0 => b \in free
  <1>1. Cardinality(Holders(b) \ group) = Cardinality(Holders(b))
                                           - Cardinality(Holders(b) \cap group)
    BY HoldersType, CountWithout
  <1>2. /\ Cardinality(Holders(b)) \in Nat
        /\ Cardinality(Holders(b) \ group) \in Nat
        /\ Cardinality(Holders(b) \cap group) \in Nat
    <2>1. Holders(b) \ group \in SUBSET Seqs /\ Holders(b) \cap group \in SUBSET Seqs
      BY HoldersType
    <2> QED
      BY <2>1, HoldersType, CountType
  <1>3. ref[b] \in Nat /\ Cardinality(Holders(b)) <= ref[b]
    BY DEF BlockInv, BlockTypeOK, CountCoversHolders
  <1>4. CountExact => Cardinality(Holders(b)) = ref[b]
    BY DEF CountExact
  <1>5. b \notin HeldBy(group) => Holders(b) \cap group = {}
    BY DEF HeldBy, Holders
  <1>6. b \notin HeldBy(group) => Without(group, b) = ref[b]
    BY <1>3, <1>5, FS_EmptySet DEF Without
  <1>7. b \in free => Without(group, b) = 0
    <2>1. ASSUME b \in free
          PROVE  Without(group, b) = 0
      <3>1. Holders(b) \cap group = {} /\ ref[b] = 0
        BY <2>1, FreeUnheld DEF BlockInv, FreeWhenUnreferenced
      <3> QED
        BY <3>1, FS_EmptySet DEF Without
    <2> QED
      BY <2>1
  <1>8. ref[b] = 0 <=> b \in free
    BY DEF BlockInv, FreeWhenUnreferenced
  <1> QED
    BY <1>1, <1>2, <1>3, <1>4, <1>6, <1>7, <1>8 DEF Without

LEMMA ReleaseKeeps ==
  ASSUME BlockAssumption, BlockInv, NEW group \in SUBSET Seqs, Release(group)
  PROVE  /\ BlockInv'
         /\ CountExact => CountExact'
  <1>1. /\ \A q \in Seqs : table'[q] = IF q \in group THEN << >> ELSE table[q]
        /\ \A c \in Block : ref'[c] = Without(group, c)
        /\ free' = free \cup {c \in HeldBy(group) : Without(group, c) = 0}
    BY DEF Release
  <1>2. BlockTypeOK'
    <2>1. HeldBy(group) \subseteq Block
      BY HeldInBlocks DEF HeldBy, BlockInv
    <2>2. table' \in [Seqs -> Seq(Block)]
      BY DEF Release, BlockInv, BlockTypeOK
    <2>3. ref' \in [Block -> Nat]
      BY WithoutGroup DEF Release
    <2> QED
      BY <1>1, <2>1, <2>2, <2>3 DEF BlockInv, BlockTypeOK
  <1>3. \A q \in Seqs : Held(q)' = IF q \in group THEN {} ELSE Held(q)
    BY <1>1 DEF Held, Entries
  <1>4. ASSUME NEW c \in Block
        PROVE  Holders(c)' = Holders(c) \ group
    BY <1>3 DEF Holders
  <1>5. FreeWhenUnreferenced'
    <2>1. ASSUME NEW c \in Block
          PROVE  c \in free' <=> ref'[c] = 0
      <3>1. c \in free' <=> c \in free \/ (c \in HeldBy(group) /\ Without(group, c) = 0)
        BY <1>1
      <3>2. ref'[c] = Without(group, c)
        BY <1>1
      <3> QED
        BY <3>1, <3>2, WithoutGroup
    <2> QED
      BY <2>1 DEF FreeWhenUnreferenced
  <1>6. CountCoversHolders'
    BY <1>1, <1>4, WithoutGroup DEF CountCoversHolders
  <1>7. TablesWellFormed'
    BY <1>1, <1>3 DEF BlockInv, TablesWellFormed, IsInjection
  <1>8. SharedAtSamePlace'
    BY <1>1 DEF BlockInv, SharedAtSamePlace
  <1>9. CountExact => CountExact'
    BY <1>1, <1>4, WithoutGroup DEF CountExact
  <1> QED
    BY <1>2, <1>5, <1>6, <1>7, <1>8, <1>9 DEF BlockInv

LEMMA MoveKeeps ==
  ASSUME BlockAssumption, BlockInv,
         NEW group \in SUBSET Seqs, NEW pool \in {GpuBlocks, CpuBlocks},
         NEW mapping \in [HeldBy(group) -> free \intersect pool],
         Move(group, mapping, pool)
  PROVE  /\ BlockInv'
         /\ CountExact => CountExact'
  <1> DEFINE new == Entries(mapping)
             Movers(b) == {s \in group : \E c \in Held(s) : mapping[c] = b}
  <1>1. /\ new \subseteq free /\ new \subseteq pool /\ new \subseteq Block
        /\ \A s \in group : Held(s) \subseteq DOMAIN mapping
    BY DEF Entries, Block, HeldBy
  <1>2. /\ \A q \in group : table'[q] = [k \in DOMAIN table[q] |-> mapping[table[q][k]]]
        /\ \A q \in Seqs \ group : table'[q] = table[q]
        /\ \A c \in Block : ref'[c] = IF c \in new THEN Cardinality(Movers(c))
                                                  ELSE Without(group, c)
        /\ free' = (free \ new) \cup {c \in HeldBy(group) : Without(group, c) = 0}
        /\ IsInjection(mapping)
    BY DEF Move
  <1>3. /\ \A q \in Seqs : Held(q) \cap new = {}
        /\ \A q \in group : /\ DOMAIN table'[q] = DOMAIN table[q]
                             /\ \A k \in DOMAIN table[q] :
                                  table'[q][k] = mapping[table[q][k]]
    <2>1. \A q \in Seqs : Held(q) \cap new = {}
      BY <1>1, FreeUnheld DEF Holders
    <2>2. ASSUME NEW q \in group
          PROVE  /\ DOMAIN table'[q] = DOMAIN table[q]
                 /\ \A k \in DOMAIN table[q] : table'[q][k] = mapping[table[q][k]]
      <3>1. table'[q] = [k \in DOMAIN table[q] |-> mapping[table[q][k]]]
        BY <1>2
      <3> QED
        BY <3>1
    <2> QED
      BY <2>1, <2>2
  <1>4. ASSUME NEW b \in Block
        PROVE  /\ Movers(b) \in SUBSET Seqs
               /\ Cardinality(Movers(b)) \in Nat
               /\ b \in new => Cardinality(Movers(b)) # 0
    <2>1. Movers(b) \in SUBSET Seqs
      OBVIOUS
    <2>2. b \in new => Movers(b) # {}
      BY DEF Entries, HeldBy
    <2> HIDE DEF Movers
    <2> QED
      BY <2>1, <2>2, CountType
  <1>5. BlockTypeOK'
    <2>1. HeldBy(group) \subseteq Block
      BY HeldInBlocks DEF HeldBy, BlockInv
    <2>2. ASSUME NEW q \in Seqs
          PROVE  table'[q] \in Seq(Block)
      <3>1. table[q] \in Seq(Block)
        BY HeldInBlocks DEF BlockInv
      <3>2. CASE q \in group
        <4>1. \A k \in DOMAIN table[q] : mapping[table[q][k]] \in Block
          BY <1>1, <3>2 DEF Held, Entries
        <4>2. DOMAIN table[q] = 1 .. Len(table[q]) /\ Len(table[q]) \in Nat
          BY <3>1
        <4>3. table'[q] = [k \in 1 .. Len(table[q]) |-> mapping[table[q][k]]]
          BY <1>2, <3>2, <4>2
        <4> QED
          BY <4>1, <4>2, <4>3
      <3>3. CASE q \notin group
        BY <1>2, <3>1, <3>3
      <3> QED
        BY <3>2, <3>3
    <2>3. table' \in [Seqs -> Seq(Block)]
      BY <2>2 DEF Move
    <2>4. ref' \in [Block -> Nat]
      <3>1. \A c \in Block : ref'[c] \in Nat
        BY <1>2, <1>4, WithoutGroup
      <3> QED
        BY <3>1 DEF Move
    <2> QED
      BY <1>2, <2>1, <2>3, <2>4 DEF BlockInv, BlockTypeOK
  <1>6. ASSUME NEW q \in group
        PROVE  Held(q)' = {mapping[c] : c \in Held(q)}
    BY <1>3 DEF Held, Entries
  <1>7. \A q \in Seqs \ group : Held(q)' = Held(q)
    BY <1>2 DEF Held
  <1>8. ASSUME NEW q \in group
        PROVE  Held(q)' \subseteq new
    BY <1>1, <1>6 DEF Entries
  <1>9. ASSUME NEW b \in Block
        PROVE  Holders(b)' = IF b \in new THEN Movers(b) ELSE Holders(b) \ group
    <2>1. CASE b \in new
      BY <2>1, <1>3, <1>6, <1>7 DEF Holders
    <2>2. CASE b \notin new
      BY <2>2, <1>7, <1>8 DEF Holders
    <2> QED
      BY <2>1, <2>2
  <1> HIDE DEF Movers
  <1>10. FreeWhenUnreferenced'
    <2>1. ASSUME NEW c \in Block
          PROVE  c \in free' <=> ref'[c] = 0
      <3>1. CASE c \in new
        <4>1. c \notin HeldBy(group)
          BY <3>1, <1>3 DEF HeldBy
        <4> QED
          BY <3>1, <4>1, <1>2, <1>4
      <3>2. CASE c \notin new
        <4>1. c \in free' <=> c \in free \/ (c \in HeldBy(group) /\ Without(group, c) = 0)
          BY <3>2, <1>2
        <4>2. ref'[c] = Without(group, c)
          BY <3>2, <1>2
        <4> QED
          BY <4>1, <4>2, WithoutGroup
      <3> QED
        BY <3>1, <3>2
    <2> QED
      BY <2>1 DEF FreeWhenUnreferenced
  <1>11. ASSUME NEW c \in Block
         PROVE  /\ Cardinality(Holders(c)') <= ref'[c]
                /\ CountExact => Cardinality(Holders(c)') = ref'[c]
    <2>1. CASE c \in new
      BY <2>1, <1>2, <1>4, <1>9
    <2>2. CASE c \notin new
      BY <2>2, <1>2, <1>9, WithoutGroup
    <2> QED
      BY <2>1, <2>2
  <1>12. CountCoversHolders'
    BY <1>11 DEF CountCoversHolders
  <1>13. CountExact => CountExact'
    BY <1>11 DEF CountExact
  <1>14. ASSUME NEW p \in group, NEW j \in DOMAIN table'[p]
         PROVE  /\ j \in DOMAIN table[p]
                /\ table[p][j] \in DOMAIN mapping
                /\ table'[p][j] = mapping[table[p][j]]
                /\ table'[p][j] \in new
    <2>1. j \in DOMAIN table[p] /\ table'[p][j] = mapping[table[p][j]]
      BY <1>3
    <2>2. table[p][j] \in DOMAIN mapping
      BY <1>1, <2>1 DEF Held, Entries
    <2> QED
      BY <2>1, <2>2 DEF Entries
  <1>15. \A p \in Seqs \ group : \A j \in DOMAIN table'[p] :
           j \in DOMAIN table[p] /\ table'[p][j] = table[p][j] /\ table'[p][j] \notin new
    BY <1>2, <1>3 DEF Held, Entries
  <1> HIDE DEF new
  <1>16. SharedAtSamePlace'
    <2>1. SUFFICES ASSUME NEW p \in Seqs, NEW q \in Seqs,
                          NEW j \in DOMAIN table'[p], NEW k \in DOMAIN table'[q],
                          table'[p][j] = table'[q][k]
                   PROVE  j = k
      BY DEF SharedAtSamePlace
    <2>2. CASE p \in group /\ q \in group
      <3>1. /\ j \in DOMAIN table[p] /\ k \in DOMAIN table[q]
            /\ table[p][j] \in DOMAIN mapping /\ table[q][k] \in DOMAIN mapping
            /\ mapping[table[p][j]] = mapping[table[q][k]]
        BY <1>14, <2>1, <2>2
      <3>2. table[p][j] = table[q][k]
        BY <3>1, <1>2 DEF IsInjection
      <3> QED
        BY <3>1, <3>2 DEF BlockInv, SharedAtSamePlace
    <2>3. CASE p \notin group /\ q \notin group
      BY <1>15, <2>1, <2>3 DEF BlockInv, SharedAtSamePlace
    <2>4. CASE (p \in group) # (q \in group)
      BY <1>14, <1>15, <2>1, <2>4
    <2> QED
      BY <2>2, <2>3, <2>4
  <1>17. TablesWellFormed'
    <2>1. ASSUME NEW q \in Seqs
          PROVE  /\ IsInjection(table'[q])
                 /\ Held(q)' \subseteq GpuBlocks \/ Held(q)' \subseteq CpuBlocks
      <3>1. IsInjection(table'[q])
        BY <1>16 DEF SharedAtSamePlace, IsInjection
      <3>2. CASE q \in group
        BY <3>1, <3>2, <1>1, <1>8
      <3>3. CASE q \notin group
        BY <3>1, <3>3, <1>7 DEF BlockInv, TablesWellFormed
      <3> QED
        BY <3>2, <3>3
    <2> QED
      BY <2>1 DEF TablesWellFormed
  <1> QED
    BY <1>5, <1>10, <1>12, <1>13, <1>16, <1>17 DEF BlockInv

-----------------------------------------------------------------------------
LEMMA StutterKeeps ==
  ASSUME BlockInv, UNCHANGED blockVars
  PROVE  /\ BlockInv'
         /\ CountExact => CountExact'
  BY DEF blockVars, BlockInv, BlockTypeOK, FreeWhenUnreferenced, CountCoversHolders,
         TablesWellFormed, SharedAtSamePlace, CountExact, Holders, Held

LEMMA NextKeeps ==
  ASSUME BlockAssumption, BlockInv, [BlockNext]_blockVars
  PROVE  /\ BlockInv'
         /\ CountExact /\ Counts \subseteq {1} => CountExact'
  <1>1. CASE CallAllocate
    <2>1. PICK s \in Seqs, count \in Counts, n \in 1 .. NumFree(GpuBlocks) :
            \E t \in [1 .. n -> free \intersect GpuBlocks] : Allocate(s, t, count)
      BY <1>1 DEF CallAllocate
    <2>2. PICK t \in [1 .. n -> free \intersect GpuBlocks] : Allocate(s, t, count)
      BY <2>1
    <2>3. n \in Nat
      OBVIOUS
    <2> QED
      BY <2>2, <2>3, AllocateKeeps
  <1>2. CASE CallAppend
    BY <1>2, AppendSlotsKeeps DEF CallAppend
  <1>3. CASE CallFork
    BY <1>3, ForkKeeps DEF CallFork
  <1>4. CASE CallRelease
    BY <1>4, ReleaseKeeps DEF CallRelease
  <1>5. CASE CallSwap(GpuBlocks, CpuBlocks)
    BY <1>5, MoveKeeps DEF CallSwap
  <1>6. CASE CallSwap(CpuBlocks, GpuBlocks)
    BY <1>6, MoveKeeps DEF CallSwap
  <1>7. CASE UNCHANGED blockVars
    BY <1>7, StutterKeeps
  <1> QED
    BY <1>1, <1>2, <1>3, <1>4, <1>5, <1>6, <1>7 DEF BlockNext

(* Blocks, counts and tables agree in every state: BlockInv is inductive. *)
THEOREM BlocksConsistent == ASSUME BlockAssumption PROVE BlockSpec => []BlockInv
  <1>1. BlockInit => BlockInv
    BY InitInv
  <1>2. BlockInv /\ [BlockNext]_blockVars => BlockInv'
    BY NextKeeps
  <1> QED
    BY <1>1, <1>2, PTL DEF BlockSpec

(* However sequences fork, copy, swap and end, a block that one of them uses *)
(* is on no free list.                                                     *)
THEOREM NoBlockInUseIsFree == ASSUME BlockAssumption PROVE BlockSpec => []InUseNotFree
  <1>1. BlockInv => InUseNotFree
    BY InvImpliesInUseNotFree
  <1> QED
    BY <1>1, BlocksConsistent, PTL

(* When groups are allocated with a count of one, which is so as long as no  *)
(* group with finished samples is prefilled again, no block is ever lost.  *)
THEOREM NoBlockIsLost ==
  ASSUME BlockAssumption, Counts \subseteq {1}
  PROVE  BlockSpec => []CountExact
  <1>1. BlockInit => BlockInv /\ CountExact
    BY InitInv
  <1>2. BlockInv /\ CountExact /\ [BlockNext]_blockVars => (BlockInv /\ CountExact)'
    BY NextKeeps
  <1> QED
    BY <1>1, <1>2, PTL DEF BlockSpec
=============================================================================
