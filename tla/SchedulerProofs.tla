-------------------------- MODULE SchedulerProofs --------------------------
(***************************************************************************)
(* The queues, blocks and budget of the engine for any requests, samples,    *)
(* budgets and devices.                                                    *)
(***************************************************************************)
EXTENDS Scheduler, BlockSpaceProofs, SequenceTheorems, FunctionTheorems,
        WellFoundedInduction

-----------------------------------------------------------------------------
(* What the operations on queues do to what is in them and to its order.    *)
Names(q, set) == q \in Seq(Group) /\ IsInjective(q) /\ ToSet(q) = set

LEMMA GroupNumbers ==
  /\ Group \subseteq Nat
  /\ IsFiniteSet(Seqs)
<1>1. IsFiniteSet(Seqs)
  BY BlockAssumption DEF BlockAssumption
<1>2. PICK n : n = Cardinality(Group)
  OBVIOUS
<1>3. n \in Nat /\ Group = 1 .. n
  BY <1>2, SchedulerAssumption, FS_CardinalityType DEF SchedulerAssumption
<1>4. QED
  BY <1>1, <1>3

LEMMA InQueue ==
  ASSUME NEW q \in Seq(Group)
  PROVE  /\ Len(q) \in Nat /\ DOMAIN q = 1 .. Len(q)
         /\ ToSet(q) \subseteq Group
         /\ \A k \in DOMAIN q : q[k] \in ToSet(q)
         /\ \A g \in ToSet(q) : \E k \in DOMAIN q : q[k] = g
         /\ q = << >> <=> ToSet(q) = {}
<1>1. Len(q) \in Nat /\ DOMAIN q = 1 .. Len(q)
  OBVIOUS
<1>2. q = << >> => ToSet(q) = {}
  BY DEF ToSet
<1>3. q # << >> => q[1] \in ToSet(q)
  BY <1>1 DEF ToSet
<1>4. /\ ToSet(q) \subseteq Group
      /\ \A k \in DOMAIN q : q[k] \in ToSet(q)
      /\ \A g \in ToSet(q) : \E k \in DOMAIN q : q[k] = g
  BY <1>1 DEF ToSet
<1>5. QED
  BY <1>1, <1>2, <1>3, <1>4

LEMMA EmptyNames == Names(<< >>, {}) /\ Rises(<< >>) /\ Falls(<< >>)
BY DEF Names, Rises, Falls, ToSet, IsInjective

LEMMA RisingNames ==
  ASSUME NEW q \in Seq(Group), Rises(q)
  PROVE  IsInjective(q)
<1>1. DOMAIN q = 1 .. Len(q) /\ Len(q) \in Nat /\ \A k \in DOMAIN q : q[k] \in Group
  OBVIOUS
<1>2. \A k \in DOMAIN q : q[k] \in Nat
  BY <1>1, GroupNumbers
<1>3. QED
  BY <1>1, <1>2 DEF Rises, IsInjective

LEMMA TailNames ==
  ASSUME NEW q \in Seq(Group), IsInjective(q), q # << >>
  PROVE  /\ Head(q) \in ToSet(q)
         /\ Names(Tail(q), ToSet(q) \ {Head(q)})
         /\ Rises(q) => /\ Rises(Tail(q))
                        /\ \A g \in ToSet(Tail(q)) : Head(q) < g
<1>1. /\ Tail(q) \in Seq(Group) /\ Head(q) = q[1] /\ Len(q) \in Nat \ {0}
      /\ DOMAIN q = 1 .. Len(q)
      /\ DOMAIN Tail(q) = 1 .. Len(q) - 1
      /\ \A k \in 1 .. Len(q) - 1 : Tail(q)[k] = q[k + 1]
  BY HeadTailProperties
<1>2. IsInjective(Tail(q))
  BY <1>1 DEF IsInjective
<1>3. ToSet(Tail(q)) = ToSet(q) \ {Head(q)}
  <2>1. ASSUME NEW g \in ToSet(Tail(q))
        PROVE  g \in ToSet(q) \ {Head(q)}
    BY <1>1, <2>1 DEF ToSet, IsInjective
  <2>2. ASSUME NEW g \in ToSet(q), g # Head(q)
        PROVE  g \in ToSet(Tail(q))
    <3>1. PICK k \in 1 .. Len(q) : q[k] = g
      BY <1>1 DEF ToSet
    <3>2. k - 1 \in 1 .. Len(q) - 1 /\ Tail(q)[k - 1] = q[k]
      BY <1>1, <2>2, <3>1
    <3>3. QED
      BY <1>1, <3>1, <3>2 DEF ToSet
  <2>3. QED
    BY <2>1, <2>2
<1>4. ASSUME Rises(q)
      PROVE  Rises(Tail(q)) /\ \A g \in ToSet(Tail(q)) : Head(q) < g
  <2>1. \A j, k \in 1 .. Len(q) : j < k => q[j] < q[k]
    BY <1>1, <1>4 DEF Rises
  <2>2. Rises(Tail(q))
    BY <1>1, <2>1 DEF Rises
  <2>3. \A g \in ToSet(Tail(q)) : Head(q) < g
    BY <1>1, <2>1 DEF ToSet
  <2>4. QED
    BY <2>2, <2>3
<1>5. Head(q) \in ToSet(q)
  BY <1>1 DEF ToSet
<1>6. QED
  BY <1>1, <1>2, <1>3, <1>4, <1>5 DEF Names

LEMMA AppendNames ==
  ASSUME NEW q \in Seq(Group), IsInjective(q), NEW g \in Group, g \notin ToSet(q)
  PROVE  /\ Names(Append(q, g), ToSet(q) \union {g})
         /\ Rises(q) /\ (\A h \in ToSet(q) : h < g) => Rises(Append(q, g))
         /\ Falls(q) /\ (\A h \in ToSet(q) : g < h) => Falls(Append(q, g))
<1>1. /\ Append(q, g) \in Seq(Group) /\ Len(q) \in Nat
      /\ DOMAIN q = 1 .. Len(q) /\ DOMAIN Append(q, g) = 1 .. Len(q) + 1
      /\ Append(q, g)[Len(q) + 1] = g
      /\ \A k \in 1 .. Len(q) : Append(q, g)[k] = q[k] /\ q[k] \in ToSet(q)
  BY DEF ToSet
<1>2. IsInjective(Append(q, g))
  BY <1>1 DEF IsInjective
<1>3. ToSet(Append(q, g)) = ToSet(q) \union {g}
  <2>1. ToSet(Append(q, g)) \subseteq ToSet(q) \union {g}
    BY <1>1 DEF ToSet
  <2>2. ASSUME NEW h \in ToSet(q) PROVE h \in ToSet(Append(q, g))
    BY <1>1 DEF ToSet
  <2>3. g \in ToSet(Append(q, g))
    BY <1>1 DEF ToSet
  <2>4. QED
    BY <2>1, <2>2, <2>3
<1>4. Rises(q) /\ (\A h \in ToSet(q) : h < g) => Rises(Append(q, g))
  BY <1>1 DEF Rises
<1>5. Falls(q) /\ (\A h \in ToSet(q) : g < h) => Falls(Append(q, g))
  BY <1>1 DEF Falls
<1>6. QED
  BY <1>1, <1>2, <1>3, <1>4, <1>5 DEF Names

LEMMA ConcatNames ==
  ASSUME NEW p \in Seq(Group), NEW q \in Seq(Group)
  PROVE  /\ ToSet(p \o q) = ToSet(p) \union ToSet(q)
         /\ p \o q \in Seq(Group)
         /\ IsInjective(p) /\ IsInjective(q) /\ ToSet(p) \intersect ToSet(q) = {}
              => IsInjective(p \o q)
         /\ Rises(p) /\ Rises(q) /\ (\A g \in ToSet(p), h \in ToSet(q) : g < h)
              => Rises(p \o q)
<1>1. /\ p \o q \in Seq(Group) /\ Len(p) \in Nat /\ Len(q) \in Nat
      /\ DOMAIN p = 1 .. Len(p) /\ DOMAIN q = 1 .. Len(q)
      /\ DOMAIN (p \o q) = 1 .. Len(p) + Len(q)
      /\ \A k \in 1 .. Len(p) : (p \o q)[k] = p[k] /\ p[k] \in ToSet(p)
      /\ \A k \in 1 .. Len(q) : q[k] \in ToSet(q)
  BY DEF ToSet
<1>2. \A k \in 1 .. Len(p) + Len(q) : k > Len(p) =>
        k - Len(p) \in 1 .. Len(q) /\ (p \o q)[k] = q[k - Len(p)]
  BY <1>1
<1>3. ToSet(p \o q) = ToSet(p) \union ToSet(q)
  <2>1. ToSet(p \o q) \subseteq ToSet(p) \union ToSet(q)
    BY <1>1, <1>2 DEF ToSet
  <2>2. ASSUME NEW h \in ToSet(p) PROVE h \in ToSet(p \o q)
    BY <1>1 DEF ToSet
  <2>3. ASSUME NEW h \in ToSet(q) PROVE h \in ToSet(p \o q)
    <3>1. PICK k \in 1 .. Len(q) : q[k] = h
      BY <1>1 DEF ToSet
    <3>2. k + Len(p) \in 1 .. Len(p) + Len(q) /\ (p \o q)[k + Len(p)] = h
      BY <1>1, <1>2, <3>1
    <3>3. QED
      BY <1>1, <3>2 DEF ToSet
  <2>4. QED
    BY <2>1, <2>2, <2>3
<1>4. ASSUME IsInjective(p), IsInjective(q), ToSet(p) \intersect ToSet(q) = {}
      PROVE  IsInjective(p \o q)
  <2> SUFFICES ASSUME NEW j \in 1 .. Len(p) + Len(q), NEW k \in 1 .. Len(p) + Len(q),
                      (p \o q)[j] = (p \o q)[k]
               PROVE  j = k
    BY <1>1 DEF IsInjective
  <2>1. CASE j <= Len(p) /\ k <= Len(p)
    BY <1>1, <1>4, <2>1 DEF IsInjective
  <2>2. CASE j > Len(p) /\ k > Len(p)
    BY <1>1, <1>2, <1>4, <2>2 DEF IsInjective
  <2>3. CASE j <= Len(p) /\ k > Len(p)
    BY <1>1, <1>2, <1>4, <2>3
  <2>4. CASE j > Len(p) /\ k <= Len(p)
    BY <1>1, <1>2, <1>4, <2>4
  <2>5. QED
    BY <1>1, <2>1, <2>2, <2>3, <2>4
<1>5. ASSUME Rises(p), Rises(q), \A g \in ToSet(p), h \in ToSet(q) : g < h
      PROVE  Rises(p \o q)
  <2> SUFFICES ASSUME NEW j \in 1 .. Len(p) + Len(q), NEW k \in 1 .. Len(p) + Len(q),
                      j < k
               PROVE  (p \o q)[j] < (p \o q)[k]
    BY <1>1 DEF Rises
  <2>1. CASE k <= Len(p)
    BY <1>1, <1>5, <2>1 DEF Rises
  <2>2. CASE j > Len(p)
    BY <1>1, <1>2, <1>5, <2>2 DEF Rises
  <2>3. CASE j <= Len(p) /\ k > Len(p)
    BY <1>1, <1>2, <1>5, <2>3
  <2>4. QED
    BY <1>1, <2>1, <2>2, <2>3
<1>6. QED
  BY <1>1, <1>3, <1>4, <1>5

LEMMA ReverseNames ==
  ASSUME NEW q \in Seq(Group), IsInjective(q)
  PROVE  /\ Names(Reverse(q), ToSet(q))
         /\ Falls(q) => Rises(Reverse(q))
<1>1. /\ Len(q) \in Nat /\ DOMAIN q = 1 .. Len(q)
      /\ DOMAIN Reverse(q) = 1 .. Len(q)
      /\ \A k \in 1 .. Len(q) : /\ Len(q) - k + 1 \in 1 .. Len(q)
                                /\ Reverse(q)[k] = q[Len(q) - k + 1]
                                /\ q[k] \in Group
  BY DEF Reverse
<1>2. Reverse(q) \in Seq(Group)
  BY <1>1, IsASeq DEF Reverse
<1>3. IsInjective(Reverse(q))
  BY <1>1 DEF IsInjective
<1>4. ToSet(Reverse(q)) = ToSet(q)
  <2>1. ToSet(Reverse(q)) \subseteq ToSet(q)
    BY <1>1 DEF ToSet
  <2>2. ASSUME NEW g \in ToSet(q) PROVE g \in ToSet(Reverse(q))
    <3>1. PICK k \in 1 .. Len(q) : q[k] = g
      BY <1>1 DEF ToSet
    <3>2. Len(q) - k + 1 \in 1 .. Len(q) /\ Reverse(q)[Len(q) - k + 1] = q[k]
      BY <1>1
    <3>3. QED
      BY <1>1, <3>1, <3>2 DEF ToSet
  <2>3. QED
    BY <2>1, <2>2
<1>5. Falls(q) => Rises(Reverse(q))
  BY <1>1 DEF Falls, Rises
<1>6. QED
  BY <1>2, <1>3, <1>4, <1>5 DEF Names

(* abort and pop: one group leaves a queue, the others keep their order. *)
LEMMA RemoveNames ==
  ASSUME NEW q \in Seq(Group), IsInjective(q), NEW g
  PROVE  /\ Names(RemoveFirst(q, g), ToSet(q) \ {g})
         /\ Rises(q) => Rises(RemoveFirst(q, g))
<1>1. Len(q) \in Nat /\ DOMAIN q = 1 .. Len(q)
  OBVIOUS
<1>2. CASE g \notin ToSet(q)
  <2>1. ~\E i \in 1 .. Len(q) : q[i] = g
    BY <1>1, <1>2 DEF ToSet
  <2>2. RemoveFirst(q, g) = q
    BY <2>1, Zenon DEF RemoveFirst
  <2>3. QED
    BY <1>2, <2>2 DEF Names
<1>3. CASE g \in ToSet(q)
  <2>1. PICK i \in 1 .. Len(q) : q[i] = g
    BY <1>1, <1>3 DEF ToSet
  <2>2. {k \in 1 .. Len(q) : q[k] = g} = {i}
    BY <1>1, <2>1 DEF IsInjective
  <2>3. Min({i}) = i
    <3>1. i \in Int
      OBVIOUS
    <3>2. QED
      BY <3>1 DEF Min
  <2>4. SelectInSeq(q, LAMBDA v : v = g) = i
    BY <2>2, <2>3, Zenon DEF SelectInSeq
  <2>5. RemoveFirst(q, g) = RemoveAt(q, i)
    BY <2>1, <2>4, Zenon DEF RemoveFirst
  <2> DEFINE r == RemoveAt(q, i)
             a == SubSeq(q, 1, i - 1)
             b == SubSeq(q, i + 1, Len(q))
  <2>6. /\ a \in Seq(Group) /\ Len(a) = i - 1
        /\ \A k \in 1 .. i - 1 : a[k] = q[k]
    BY <1>1
  <2>7. /\ b \in Seq(Group) /\ Len(b) = Len(q) - i
        /\ \A k \in 1 .. Len(q) - i : b[k] = q[k + i]
    OBVIOUS
  <2>8. r = a \o b
    BY Zenon DEF RemoveAt
  <2>9. /\ r \in Seq(Group) /\ DOMAIN r = 1 .. Len(q) - 1
        /\ \A k \in 1 .. i - 1 : r[k] = q[k]
        /\ \A k \in i .. Len(q) - 1 : r[k] = q[k + 1]
    <3> HIDE DEF r, a, b
    <3>1. r \in Seq(Group) /\ Len(r) = Len(q) - 1
      BY <2>6, <2>7, <2>8, ConcatProperties
    <3>2. \A k \in 1 .. i - 1 : r[k] = q[k]
      BY <1>1, <2>6, <2>7, <2>8
    <3>3. \A k \in i .. Len(q) - 1 : r[k] = q[k + 1]
      <4> SUFFICES ASSUME NEW k \in i .. Len(q) - 1 PROVE r[k] = q[k + 1]
        OBVIOUS
      <4>1. k - (i - 1) \in 1 .. Len(q) - i /\ r[k] = b[k - (i - 1)]
        BY <1>1, <2>6, <2>7, <2>8
      <4>2. b[k - (i - 1)] = q[(k - (i - 1)) + i] /\ (k - (i - 1)) + i = k + 1
        BY <2>7, <4>1
      <4>3. QED
        BY <4>1, <4>2
    <3>4. QED
      BY <3>1, <3>2, <3>3
  <2> HIDE DEF r
  <2>10. \A k \in 1 .. Len(q) - 1 :
           \E n \in 1 .. Len(q) : /\ n # i /\ r[k] = q[n]
                                  /\ n = IF k < i THEN k ELSE k + 1
    <3> SUFFICES ASSUME NEW k \in 1 .. Len(q) - 1
                 PROVE  \E n \in 1 .. Len(q) : /\ n # i /\ r[k] = q[n]
                                               /\ n = IF k < i THEN k ELSE k + 1
      OBVIOUS
    <3>1. CASE k < i
      BY <1>1, <2>9, <3>1
    <3>2. CASE ~(k < i)
      BY <1>1, <2>9, <3>2
    <3>3. QED
      BY <3>1, <3>2
  <2>11. IsInjective(r)
    <3> SUFFICES ASSUME NEW j \in 1 .. Len(q) - 1, NEW k \in 1 .. Len(q) - 1, r[j] = r[k]
                 PROVE  j = k
      BY <2>9 DEF IsInjective
    <3>1. PICK m \in 1 .. Len(q) : r[j] = q[m] /\ m = IF j < i THEN j ELSE j + 1
      BY <2>10
    <3>2. PICK n \in 1 .. Len(q) : r[k] = q[n] /\ n = IF k < i THEN k ELSE k + 1
      BY <2>10
    <3>3. m = n
      BY <1>1, <3>1, <3>2 DEF IsInjective
    <3>4. QED
      BY <1>1, <3>1, <3>2, <3>3
  <2>12. ToSet(r) = ToSet(q) \ {g}
    <3>1. ASSUME NEW h \in ToSet(r) PROVE h \in ToSet(q) \ {g}
      <4>1. PICK k \in 1 .. Len(q) - 1 : r[k] = h
        BY <2>9 DEF ToSet
      <4>2. PICK n \in 1 .. Len(q) : n # i /\ q[n] = h
        BY <2>10, <4>1
      <4>3. QED
        BY <1>1, <2>1, <4>2 DEF ToSet, IsInjective
    <3>2. ASSUME NEW h \in ToSet(q), h # g PROVE h \in ToSet(r)
      <4>1. PICK n \in 1 .. Len(q) : q[n] = h
        BY <1>1 DEF ToSet
      <4>2. n # i
        BY <2>1, <3>2, <4>1
      <4>3. CASE n < i
        <5>1. n \in 1 .. Len(q) - 1 /\ r[n] = h
          BY <1>1, <2>9, <4>1, <4>3
        <5>2. QED
          BY <2>9, <5>1 DEF ToSet
      <4>4. CASE n > i
        <5>1. n - 1 \in 1 .. Len(q) - 1 /\ r[n - 1] = h
          BY <1>1, <2>9, <4>1, <4>4
        <5>2. QED
          BY <2>9, <5>1 DEF ToSet
      <4>5. QED
        BY <4>2, <4>3, <4>4
    <3>3. QED
      BY <3>1, <3>2
  <2>13. Rises(q) => Rises(r)
    <3> SUFFICES ASSUME Rises(q), NEW j \in 1 .. Len(q) - 1, NEW k \in 1 .. Len(q) - 1, j < k
                 PROVE  r[j] < r[k]
      BY <2>9 DEF Rises
    <3>1. PICK m \in 1 .. Len(q) : r[j] = q[m] /\ m = IF j < i THEN j ELSE j + 1
      BY <2>10
    <3>2. PICK n \in 1 .. Len(q) : r[k] = q[n] /\ n = IF k < i THEN k ELSE k + 1
      BY <2>10
    <3>3. m < n
      BY <1>1, <3>1, <3>2
    <3>4. QED
      BY <1>1, <3>1, <3>2, <3>3 DEF Rises
  <2>14. QED
    BY <2>5, <2>9, <2>11, <2>12, <2>13 DEF Names, r
<1>4. QED
  BY <1>2, <1>3

(* A finite set of numbers in ascending order: the rank of a number is how    *)
(* many are not above it, and there is a number of every rank.             *)
UpTo(S, x) == {y \in S : y <= x}

LEMMA RanksRise ==
  ASSUME NEW S \in SUBSET Nat, IsFiniteSet(S), NEW x \in S
  PROVE  /\ Cardinality(UpTo(S, x)) \in 1 .. Cardinality(S)
         /\ \A y \in S : y < x => Cardinality(UpTo(S, y)) < Cardinality(UpTo(S, x))
<1>1. ASSUME NEW z \in S
      PROVE  IsFiniteSet(UpTo(S, z)) /\ Cardinality(UpTo(S, z)) \in Nat
             /\ UpTo(S, z) \subseteq S /\ z \in UpTo(S, z)
  <2>1. UpTo(S, z) \subseteq S /\ z \in UpTo(S, z)
    BY DEF UpTo
  <2>2. IsFiniteSet(UpTo(S, z))
    BY <2>1, FS_Subset
  <2>3. QED
    BY <2>1, <2>2, FS_CardinalityType
<1>2. Cardinality(UpTo(S, x)) <= Cardinality(S) /\ Cardinality(S) \in Nat
  BY <1>1, FS_Subset, FS_CardinalityType
<1>3. Cardinality(UpTo(S, x)) # 0
  BY <1>1, FS_EmptySet
<1>4. ASSUME NEW y \in S, y < x
      PROVE  Cardinality(UpTo(S, y)) < Cardinality(UpTo(S, x))
  <2>1. x \in Nat /\ y \in Nat
    OBVIOUS
  <2>2. UpTo(S, y) \subseteq UpTo(S, x) /\ x \notin UpTo(S, y)
    <3>1. \A z \in S : z \in Nat
      OBVIOUS
    <3>2. \A z \in S : z <= y => z <= x
      BY <1>4, <2>1, <3>1
    <3>3. ~(x <= y)
      BY <1>4, <2>1
    <3>4. QED
      BY <3>2, <3>3 DEF UpTo
  <2>3. UpTo(S, y) # UpTo(S, x) /\ IsFiniteSet(UpTo(S, x))
    BY <1>1, <2>2
  <2>4. /\ Cardinality(UpTo(S, y)) <= Cardinality(UpTo(S, x))
        /\ Cardinality(UpTo(S, y)) # Cardinality(UpTo(S, x))
    BY <2>2, <2>3, FS_Subset
  <2>5. Cardinality(UpTo(S, y)) \in Nat /\ Cardinality(UpTo(S, x)) \in Nat
    BY <1>1
  <2>6. QED
    BY <2>4, <2>5
<1>5. QED
  BY <1>1, <1>2, <1>3, <1>4

LEMMA AscendingIs ==
  ASSUME NEW S \in SUBSET Nat, IsFiniteSet(S)
  PROVE  /\ Cardinality(S) \in Nat
         /\ Ascending(S) \in [1 .. Cardinality(S) -> S]
         /\ Rises(Ascending(S))
         /\ \A x \in S : \E k \in 1 .. Cardinality(S) : Ascending(S)[k] = x
<1>1. PICK n : n = Cardinality(S)
  OBVIOUS
<1>2. /\ n \in Nat /\ IsFiniteSet(1 .. n) /\ Cardinality(1 .. n) = n
      /\ \A x \in S : x \in Nat
  <2>1. n \in Nat
    BY <1>1, FS_CardinalityType
  <2>2. IsFiniteSet(1 .. n) /\ Cardinality(1 .. n) = IF 1 > n THEN 0 ELSE n - 1 + 1
    BY <2>1, FS_Interval
  <2>3. QED
    BY <2>1, <2>2
<1> DEFINE rank == [x \in S |-> Cardinality(UpTo(S, x))]
<1>3. rank \in [S -> 1 .. n]
  BY <1>1, RanksRise
<1>4. \A x, y \in S : y < x => rank[y] < rank[x]
  BY RanksRise
<1>5. \A x \in S : rank[x] \in Nat
  BY <1>2, <1>3
<1> HIDE DEF rank
<1>6. \A x, y \in S : rank[x] = rank[y] => x = y
  <2> SUFFICES ASSUME NEW x \in S, NEW y \in S, rank[x] = rank[y], x < y
               PROVE  FALSE
    BY <1>2
  <2>1. rank[x] < rank[y]
    BY <1>4
  <2>2. QED
    BY <1>5, <2>1
<1>7. rank \in Injection(S, 1 .. n)
  BY <1>3, <1>6, Fun_IsInj
<1>8. rank \in Surjection(S, 1 .. n)
  BY <1>1, <1>2, <1>7, FS_Injection
<1>9. \A k \in 1 .. n : \E x \in S : rank[x] = k
  BY <1>8, Fun_SurjectionProperties
<1> DEFINE s == [k \in 1 .. n |-> CHOOSE x \in S : rank[x] = k]
<1>10. \A k \in 1 .. n : s[k] \in S /\ rank[s[k]] = k
  BY <1>9
<1>11. s \in [1 .. n -> S]
  BY <1>10
<1> HIDE DEF s
<1>12. \A j, k \in DOMAIN s : j < k => s[j] < s[k]
  <2> SUFFICES ASSUME NEW j \in 1 .. n, NEW k \in 1 .. n, j < k
               PROVE  s[j] < s[k]
    BY <1>11
  <2>1. s[j] \in S /\ s[k] \in S /\ rank[s[j]] = j /\ rank[s[k]] = k
    BY <1>10
  <2>2. ~(rank[s[k]] < rank[s[j]]) /\ s[j] # s[k]
    BY <1>2, <2>1
  <2>3. ~(s[k] < s[j])
    BY <1>4, <2>1, <2>2
  <2>4. s[j] \in Nat /\ s[k] \in Nat
    BY <1>2, <2>1
  <2>5. QED
    BY <2>2, <2>3, <2>4
<1>13. \E list \in [1 .. Cardinality(S) -> S] :
         Rises(list)
  BY <1>1, <1>11, <1>12 DEF Rises
<1>14. /\ Ascending(S) \in [1 .. Cardinality(S) -> S]
       /\ Rises(Ascending(S))
  BY <1>13, Zenon DEF Ascending
<1>15. PICK a : a = Ascending(S)
  OBVIOUS
<1>16. a \in [1 .. n -> S] /\ \A j, k \in 1 .. n : j < k => a[j] < a[k]
  BY <1>1, <1>14, <1>15 DEF Rises
<1>17. \A j, k \in 1 .. n : a[j] = a[k] => j = k
  <2> SUFFICES ASSUME NEW j \in 1 .. n, NEW k \in 1 .. n, a[j] = a[k], j < k
               PROVE  FALSE
    BY <1>2
  <2>1. a[j] < a[k] /\ a[j] \in Nat
    BY <1>2, <1>16
  <2>2. QED
    BY <2>1
<1>18. a \in Injection(1 .. n, S)
  BY <1>16, <1>17, Fun_IsInj
<1>19. a \in Surjection(1 .. n, S)
  BY <1>1, <1>2, <1>18, FS_Injection
<1>20. \A x \in S : \E k \in 1 .. n : a[k] = x
  BY <1>19 DEF Surjection
<1>21. QED
  BY <1>1, <1>2, <1>14, <1>15, <1>20

LEMMA FiniteDomain ==
  ASSUME NEW q \in Seq(Group)
  PROVE  IsFiniteSet(ToSet(q)) /\ ToSet(q) \in SUBSET Nat
<1>1. IsFiniteSet(DOMAIN q)
  BY InQueue, FS_Interval
<1>2. PICK D : D = DOMAIN q
  OBVIOUS
<1>3. ToSet(q) = {q[k] : k \in D}
  BY <1>2 DEF ToSet
<1>4. IsFiniteSet(ToSet(q))
  <2>1. ToSet(q) \subseteq Group
    BY InQueue
  <2>2. IsFiniteSet(Group)
    BY SchedulerAssumption DEF SchedulerAssumption
  <2>3. QED
    BY <2>1, <2>2, FS_Subset
<1>5. QED
  BY <1>4, InQueue, GroupNumbers

LEMMA SortedNames ==
  ASSUME NEW q \in Seq(Group)
  PROVE  Names(Sorted(q), ToSet(q)) /\ Rises(Sorted(q))
<1>1. PICK S : S = ToSet(q)
  OBVIOUS
<1>2. S \in SUBSET Nat /\ IsFiniteSet(S) /\ S \subseteq Group
  BY <1>1, FiniteDomain, InQueue
<1>3. PICK a : a = Ascending(S)
  OBVIOUS
<1>4. PICK n : n = Cardinality(S)
  OBVIOUS
<1>5. n \in Nat /\ a \in [1 .. n -> S] /\ Rises(a) /\ \A x \in S : \E k \in 1 .. n : a[k] = x
  BY <1>2, <1>3, <1>4, AscendingIs
<1>6. a \in [1 .. n -> Group]
  BY <1>2, <1>5
<1>7. a \in Seq(Group)
  BY <1>5, <1>6, IsASeq
<1>8. IsInjective(a)
  BY <1>5, <1>7, RisingNames
<1>9. ToSet(a) = S
  BY <1>5 DEF ToSet
<1>10. QED
  BY <1>1, <1>3, <1>5, <1>7, <1>8, <1>9 DEF Sorted, Names

LEMMA UnfinishedNames ==
  ASSUME NEW q \in Seq(Group), IsInjective(q)
  PROVE  Names(StillUnfinished(q), {g \in ToSet(q) : ~IsFinished(g)})
<1>1. PICK S : S = {k \in DOMAIN q : ~IsFinished(q[k])}
  OBVIOUS
<1>2. /\ DOMAIN q = 1 .. Len(q) /\ Len(q) \in Nat /\ S \subseteq DOMAIN q
      /\ IsFiniteSet(1 .. Len(q))
  BY <1>1, InQueue, FS_Interval
<1>3. S \in SUBSET Nat /\ IsFiniteSet(S)
  BY <1>2, FS_Subset
<1>4. PICK a : a = Ascending(S)
  OBVIOUS
<1>5. PICK n : n = Cardinality(S)
  OBVIOUS
<1>6. n \in Nat /\ a \in [1 .. n -> S] /\ Rises(a) /\ \A x \in S : \E k \in 1 .. n : a[k] = x
  BY <1>3, <1>4, <1>5, AscendingIs
<1>7. \A j, k \in 1 .. n : a[j] = a[k] => j = k
  <2>1. \A k \in 1 .. n : a[k] \in Nat
    BY <1>3, <1>6
  <2>2. QED
    BY <1>6, <2>1 DEF Rises
<1>8. PICK r : r = [j \in 1 .. n |-> q[a[j]]]
  OBVIOUS
<1>9. StillUnfinished(q) = r
  BY <1>1, <1>4, <1>6, <1>8 DEF StillUnfinished
<1>10. r \in Seq(Group) /\ DOMAIN r = 1 .. n
  <2>1. r \in [1 .. n -> Group]
    BY <1>2, <1>6, <1>8
  <2>2. QED
    BY <1>6, <2>1, IsASeq
<1>11. IsInjective(r)
  BY <1>2, <1>6, <1>7, <1>8 DEF IsInjective
<1>12. ToSet(r) = {g \in ToSet(q) : ~IsFinished(g)}
  <2>1. ASSUME NEW g \in ToSet(r) PROVE g \in ToSet(q) /\ ~IsFinished(g)
    <3>1. PICK j \in 1 .. n : r[j] = g
      BY <1>10 DEF ToSet
    <3>2. a[j] \in S /\ q[a[j]] = g
      BY <1>6, <1>8, <3>1
    <3>3. QED
      BY <1>1, <3>2 DEF ToSet
  <2>2. ASSUME NEW g \in ToSet(q), ~IsFinished(g) PROVE g \in ToSet(r)
    <3>1. PICK k \in DOMAIN q : q[k] = g
      BY DEF ToSet
    <3>2. k \in S
      BY <1>1, <2>2, <3>1
    <3>3. PICK j \in 1 .. n : a[j] = k
      BY <1>6, <3>2
    <3>4. r[j] = g
      BY <1>8, <3>1, <3>3
    <3>5. QED
      BY <1>10, <3>4 DEF ToSet
  <2>3. QED
    BY <2>1, <2>2
<1>13. QED
  BY <1>9, <1>10, <1>11, <1>12 DEF Names
-----------------------------------------------------------------------------
(* Sequences of a group, and what leaves them alone.                       *)
LEMMA SetsOfGroup ==
  ASSUME NEW g
  PROVE  /\ Members(g) \subseteq Seqs /\ UnfinishedSeqs(g) \subseteq Members(g)
         /\ IsFiniteSet(Members(g)) /\ IsFiniteSet(UnfinishedSeqs(g))
         /\ Cardinality(Members(g)) \in Nat /\ Cardinality(UnfinishedSeqs(g)) \in Nat
         /\ \A st : /\ WithStatus(g, st) \subseteq Members(g)
                    /\ IsFiniteSet(WithStatus(g, st))
                    /\ Cardinality(WithStatus(g, st)) \in Nat
<1>1. Members(g) \subseteq Seqs /\ UnfinishedSeqs(g) \subseteq Members(g)
  BY DEF Members, UnfinishedSeqs
<1>2. \A st : WithStatus(g, st) \subseteq Members(g)
  BY DEF WithStatus
<1>3. IsFiniteSet(Members(g))
  BY <1>1, GroupNumbers, FS_Subset
<1>4. QED
  BY <1>1, <1>2, <1>3, FS_Subset, FS_CardinalityType

(* Nothing the queues depend on happens to the sequences of a group. *)
Untouched(g) ==
  /\ (Members(g) = {}) <=> (Members(g) = {})'
  /\ UnfinishedSeqs(g)' = UnfinishedSeqs(g)
  /\ IsFinished(g)' <=> IsFinished(g)
  /\ OneWaiting(g)' <=> OneWaiting(g)
  /\ AllRunning(g)' <=> AllRunning(g)
  /\ SeveralSwapped(g)' <=> SeveralSwapped(g)
  /\ Sampled(g)' <=> Sampled(g)

LEMMA UntouchedGroup ==
  ASSUME NEW g, \A s \in Seqs : s[1] = g => status'[s] = status[s], bestOf' = bestOf
  PROVE  Untouched(g)
<1>1. Members(g)' = Members(g)
  BY DEF Members
<1>2. UnfinishedSeqs(g)' = UnfinishedSeqs(g)
  BY <1>1 DEF UnfinishedSeqs, Members
<1>3. /\ WithStatus(g, "running")' = WithStatus(g, "running")
      /\ WithStatus(g, "swapped")' = WithStatus(g, "swapped")
  BY <1>1 DEF WithStatus, Members
<1>4. \A s \in UnfinishedSeqs(g) : s[1] = g /\ s \in Seqs
  BY DEF UnfinishedSeqs, Members
<1>5. OneWaiting(g)' <=> OneWaiting(g)
  BY <1>2, <1>4 DEF OneWaiting
<1>6. QED
  BY <1>1, <1>2, <1>3, <1>5 DEF Untouched, IsFinished, AllRunning, SeveralSwapped, Sampled

LEMMA SameStatus ==
  ASSUME UNCHANGED <<status, bestOf>>
  PROVE  \A g : Untouched(g)
BY UntouchedGroup

(* A group nobody has finished has sequences; one that runs and was sampled  *)
(* has as many to run as MaxRunning says.                                  *)
LEMMA RunningCount ==
  ASSUME SchedulerTypeOK, NEW g \in Group, AllRunning(g), ~IsFinished(g), Sampled(g)
  PROVE  MaxRunning(g) = Cardinality(UnfinishedSeqs(g)) /\ MaxRunning(g) \in Nat \ {0}
<1>1. bestOf[g] \in 1 .. 2
  BY DEF SchedulerTypeOK
<1>2. UnfinishedSeqs(g) # {} /\ Members(g) # {}
  BY SetsOfGroup DEF IsFinished
<1>3. Cardinality(UnfinishedSeqs(g)) \in Nat \ {0} /\ Cardinality(Members(g)) \in Nat \ {0}
  BY <1>2, SetsOfGroup, FS_EmptySet
<1>4. bestOf[g] # 1 => Cardinality(Members(g)) # 1
  BY SetsOfGroup, FS_Singleton DEF Sampled
<1>5. ~(bestOf[g] > Cardinality(Members(g)))
  BY <1>1, <1>3, <1>4
<1>6. QED
  BY <1>3, <1>5 DEF MaxRunning

LEMMA TheWaitingSeq ==
  ASSUME NEW g, OneWaiting(g)
  PROVE  /\ WaitingSeq(g) \in Seqs /\ WaitingSeq(g)[1] = g
         /\ UnfinishedSeqs(g) = {WaitingSeq(g)} /\ WithStatus(g, "waiting") = {WaitingSeq(g)}
         /\ status[WaitingSeq(g)] = "waiting"
<1>1. PICK s \in Seqs : UnfinishedSeqs(g) = {s} /\ status[s] = "waiting"
  BY DEF OneWaiting
<1>2. WithStatus(g, "waiting") = {s}
  BY <1>1 DEF WithStatus, UnfinishedSeqs, Unfinished
<1>3. WaitingSeq(g) = s
  BY <1>2 DEF WaitingSeq
<1>4. s[1] = g
  BY <1>1 DEF UnfinishedSeqs, Members
<1>5. QED
  BY <1>1, <1>2, <1>3, <1>4

(* All sequences a group has to finish get one status. *)
LEMMA StatusSet ==
  ASSUME SchedulerTypeOK, NEW g, NEW st \in Statuses \ {"none"},
         status' = SetStatus(UnfinishedSeqs(g), st), bestOf' = bestOf
  PROVE  /\ status' \in [Seqs -> Statuses]
         /\ UnfinishedSeqs(g)' = IF st \in Unfinished THEN UnfinishedSeqs(g) ELSE {}
         /\ st \in Unfinished => (IsFinished(g)' <=> IsFinished(g))
         /\ st \notin Unfinished => IsFinished(g)'
         /\ \A s \in UnfinishedSeqs(g)' : status'[s] = st
         /\ AllRunning(g)' <=> st = "running" \/ IsFinished(g)'
         /\ Sampled(g)' <=> Sampled(g)
         /\ \A h : Members(h)' = Members(h)
         /\ \A h : h # g => Untouched(h)
<1>1. \A s \in Seqs : /\ s \in UnfinishedSeqs(g) => status'[s] = st
                      /\ s \notin UnfinishedSeqs(g) => status'[s] = status[s]
  BY DEF SetStatus
<1>2. status' \in [Seqs -> Statuses]
  BY DEF SetStatus, SchedulerTypeOK
<1>3. \A s \in UnfinishedSeqs(g) : s \in Seqs /\ s[1] = g /\ status[s] # "none" /\ status[s] \in Unfinished
  BY DEF UnfinishedSeqs, Members
<1>4. \A h : Members(h)' = Members(h)
  BY <1>1, <1>3 DEF Members
<1>5. UnfinishedSeqs(g)' = IF st \in Unfinished THEN UnfinishedSeqs(g) ELSE {}
  <2>1. ASSUME NEW s \in UnfinishedSeqs(g)' PROVE s \in UnfinishedSeqs(g) /\ st \in Unfinished
    BY <1>1, <1>4, <2>1 DEF UnfinishedSeqs, Members
  <2>2. ASSUME NEW s \in UnfinishedSeqs(g), st \in Unfinished PROVE s \in UnfinishedSeqs(g)'
    BY <1>1, <1>4, <2>2 DEF UnfinishedSeqs, Members
  <2>3. QED
    BY <2>1, <2>2
<1>6. \A s \in UnfinishedSeqs(g)' : status'[s] = st
  BY <1>1, <1>3, <1>5
<1>7. AllRunning(g)' <=> st = "running" \/ IsFinished(g)'
  <2>1. WithStatus(g, "running")' = {s \in UnfinishedSeqs(g)' : status'[s] = "running"}
    BY DEF WithStatus, UnfinishedSeqs, Unfinished
  <2>2. QED
    BY <1>6, <2>1 DEF AllRunning, IsFinished
<1>8. \A h : h # g => Untouched(h)
  BY <1>1, <1>3, UntouchedGroup
<1>9. Sampled(g)' <=> Sampled(g)
  BY <1>4 DEF Sampled
<1>10. QED
  BY <1>2, <1>4, <1>5, <1>6, <1>7, <1>8, <1>9 DEF IsFinished

-----------------------------------------------------------------------------
(* The queues as sets of groups, from the strengthened invariant.           *)
LEMMA QueueTypes ==
  ASSUME SchedulerTypeOK, QueuesApart
  PROVE  /\ Names(waiting, ToSet(waiting)) /\ Names(running, ToSet(running))
         /\ Names(swapped, ToSet(swapped)) /\ Names(todo, ToSet(todo))
         /\ Names(preempted, ToSet(preempted)) /\ Names(swappedOut, ToSet(swappedOut))
         /\ Names(batch, ToSet(batch))
         /\ ToSet(waiting) \subseteq Group /\ ToSet(running) \subseteq Group
         /\ ToSet(swapped) \subseteq Group /\ ToSet(todo) \subseteq Group
         /\ ToSet(preempted) \subseteq Group /\ ToSet(swappedOut) \subseteq Group
         /\ ToSet(batch) \subseteq Group
<1>1. /\ ToSet(waiting) \subseteq Group /\ ToSet(running) \subseteq Group
      /\ ToSet(swapped) \subseteq Group /\ ToSet(todo) \subseteq Group
      /\ ToSet(preempted) \subseteq Group /\ ToSet(swappedOut) \subseteq Group
      /\ ToSet(batch) \subseteq Group
  BY InQueue DEF SchedulerTypeOK
<1>2. QED
  BY <1>1 DEF Names, SchedulerTypeOK, QueuesApart

LEMMA EmptyQueues ==
  ASSUME PhaseShape
  PROVE  /\ phase \in {"idle", "prefill", "close", "output"} => ToSet(todo) = {}
         /\ phase \in {"idle", "prefill", "swapped", "failing", "output"} =>
              ToSet(todo) = {} /\ ToSet(preempted) = {} /\ ToSet(swappedOut) = {}
         /\ phase \in {"running", "swapped", "failing"} => ToSet(running) = {}
         /\ phase = "idle" => ToSet(batch) = {}
         /\ ~emitted => Unprocessed = batch
         /\ emitted => Unprocessed = Tail(batch)
         /\ phase # "output" => ~emitted
<1>1. ToSet(<< >>) = {}
  BY EmptyNames DEF Names
<1>2. QED
  BY <1>1 DEF PhaseShape, Unprocessed

LEMMA AdmitKeeps ==
  ASSUME QueueInv, Admit
  PROVE  QueueInv'
<1>1. PICK g : g = Head(waiting)
  OBVIOUS
<1>2. PICK s : s = WaitingSeq(g)
  OBVIOUS
<1>3. /\ phase = "prefill" /\ waiting # << >>
      /\ status' = [status EXCEPT ![s] = "running"]
      /\ waiting' = Tail(waiting) /\ batch' = Append(batch, g) /\ prompt' = TRUE
      /\ UNCHANGED <<running, swapped, todo, preempted, swappedOut, bestOf, promptLen,
                     len, phase, appending, emitted>>
  BY <1>1, <1>2 DEF Admit
<1>4. /\ g \in ToSet(waiting) /\ Names(waiting', ToSet(waiting) \ {g}) /\ Rises(waiting')
      /\ \A h \in ToSet(waiting') : g < h
  BY <1>1, <1>3, QueueTypes, TailNames DEF QueueInv, Names, InOrder
<1>5. g \in Group /\ g \notin ToSet(batch) \union ToSet(running) \union ToSet(swapped)
  BY <1>4, QueueTypes DEF QueueInv, QueuesApart
<1>6. Names(batch', ToSet(batch) \union {g})
  BY <1>3, <1>5, QueueTypes, AppendNames DEF QueueInv, Names
<1>7. OneWaiting(g)
  BY <1>4 DEF QueueInv, StatusTold
<1>8. s \in Seqs /\ s[1] = g /\ UnfinishedSeqs(g) = {s}
  BY <1>2, <1>7, TheWaitingSeq
<1>9. status' = SetStatus(UnfinishedSeqs(g), "running")
  BY <1>3, <1>8 DEF SetStatus, QueueInv, SchedulerTypeOK
<1>10. /\ status' \in [Seqs -> Statuses] /\ AllRunning(g)' /\ ~IsFinished(g)'
       /\ \A h : Members(h)' = Members(h)
       /\ \A h : h # g => Untouched(h)
  <2>1. "running" \in Statuses \ {"none"} /\ "running" \in Unfinished
    BY DEF Statuses, Unfinished
  <2>2. ~IsFinished(g)
    BY <1>8 DEF IsFinished
  <2>3. QED
    BY <1>3, <1>9, <2>1, <2>2, StatusSet DEF QueueInv
<1>11. SchedulerTypeOK'
  BY <1>3, <1>4, <1>6, <1>10 DEF QueueInv, SchedulerTypeOK, Names
<1>12. PhaseShape'
  <2>1. batch' # << >>
    BY <1>6, InQueue DEF Names
  <2>2. QED
    BY <1>3, <2>1 DEF QueueInv, PhaseShape
<1>13. QueuesApart'
  BY <1>3, <1>4, <1>6 DEF QueueInv, QueuesApart, Names
<1>14. /\ ToSet(todo) = {} /\ ToSet(preempted) = {} /\ ToSet(swappedOut) = {}
       /\ Unprocessed = batch /\ Unprocessed' = batch'
  BY <1>3, EmptyQueues DEF QueueInv, Unprocessed
<1>15. StatusTold'
  BY <1>3, <1>4, <1>5, <1>6, <1>10, <1>14 DEF QueueInv, StatusTold, Names, Untouched
<1>16. SampledBefore'
  BY <1>3, <1>4, <1>6, <1>10, <1>14 DEF QueueInv, SampledBefore, Names, Untouched
<1>17. InOrder'
  BY <1>3, <1>4, <1>6, <1>10, <1>14 DEF QueueInv, InOrder, Names
<1>18. QED
  BY <1>11, <1>12, <1>13, <1>15, <1>16, <1>17 DEF QueueInv

LEMMA IgnoreKeeps ==
  ASSUME QueueInv, Ignore
  PROVE  QueueInv'
<1>1. PICK g : g = Head(waiting)
  OBVIOUS
<1>2. /\ phase = "prefill" /\ waiting # << >>
      /\ status' = SetStatus(WithStatus(g, "waiting"), "ignored")
      /\ waiting' = Tail(waiting)
      /\ UNCHANGED <<running, swapped, todo, preempted, swappedOut, bestOf, promptLen,
                     len, phase, appending, batch, prompt, emitted>>
  BY <1>1 DEF Ignore
<1>3. /\ g \in ToSet(waiting) /\ Names(waiting', ToSet(waiting) \ {g}) /\ Rises(waiting')
  BY <1>1, <1>2, QueueTypes, TailNames DEF QueueInv, Names, InOrder
<1>4. /\ g \in Group
      /\ g \notin ToSet(batch) \union ToSet(running) \union ToSet(swapped)
  BY <1>3, QueueTypes DEF QueueInv, QueuesApart
<1>5. WithStatus(g, "waiting") = UnfinishedSeqs(g)
  BY <1>3, TheWaitingSeq DEF QueueInv, StatusTold
<1>6. /\ status' \in [Seqs -> Statuses] /\ IsFinished(g)'
      /\ \A h : Members(h)' = Members(h)
      /\ \A h : h # g => Untouched(h)
  <2>1. "ignored" \in Statuses \ {"none"} /\ "ignored" \notin Unfinished
    BY DEF Statuses, Unfinished
  <2>2. QED
    BY <1>2, <1>5, <2>1, StatusSet DEF QueueInv
<1>7. /\ ToSet(todo) = {} /\ ToSet(preempted) = {} /\ ToSet(swappedOut) = {}
      /\ Unprocessed = batch /\ Unprocessed' = batch'
  BY <1>2, EmptyQueues DEF QueueInv, Unprocessed
<1>8. SchedulerTypeOK'
  BY <1>2, <1>3, <1>6 DEF QueueInv, SchedulerTypeOK, Names
<1>9. PhaseShape'
  BY <1>2 DEF QueueInv, PhaseShape
<1>10. QueuesApart'
  BY <1>2, <1>3 DEF QueueInv, QueuesApart, Names
<1>11. StatusTold'
  BY <1>2, <1>3, <1>4, <1>6, <1>7 DEF QueueInv, StatusTold, Names, Untouched
<1>12. SampledBefore'
  BY <1>2, <1>3, <1>4, <1>6, <1>7 DEF QueueInv, SampledBefore, Names, Untouched
<1>13. InOrder'
  BY <1>2, <1>3, <1>6, <1>7 DEF QueueInv, InOrder, Names
<1>14. QED
  BY <1>8, <1>9, <1>10, <1>11, <1>12, <1>13 DEF QueueInv

(* A group that never arrived is in no queue, and all in a queue between     *)
(* steps came before it.                                                   *)
LEMMA Newcomer ==
  ASSUME QueueInv, phase = "idle", NEW g \in Group, Members(g) = {}
  PROVE  \A h \in ToSet(waiting) \union ToSet(running) \union ToSet(swapped) : h < g
<1>1. \A h \in ToSet(waiting) \union ToSet(running) \union ToSet(swapped) : UnfinishedSeqs(h) # {}
  <2>1. \A h \in ToSet(waiting) : UnfinishedSeqs(h) # {}
    BY DEF QueueInv, StatusTold, OneWaiting
  <2>2. \A h \in ToSet(running) : UnfinishedSeqs(h) # {}
    BY DEF QueueInv, StatusTold, IsFinished
  <2>3. \A h \in ToSet(swapped) : UnfinishedSeqs(h) # {}
    BY DEF QueueInv, StatusTold, SeveralSwapped
  <2>4. QED
    BY <2>1, <2>2, <2>3
<1> SUFFICES ASSUME NEW h \in ToSet(waiting) \union ToSet(running) \union ToSet(swapped)
             PROVE  h < g
  OBVIOUS
<1>2. Members(h) # {}
  BY <1>1, SetsOfGroup
<1>3. h \in Group /\ h \in Nat /\ g \in Nat
  BY QueueTypes, GroupNumbers DEF QueueInv
<1>4. ~(g < h) /\ g # h
  BY <1>2, <1>3 DEF QueueInv, InOrder
<1>5. QED
  BY <1>3, <1>4

LEMMA AddRequestKeeps ==
  ASSUME QueueInv, NEW g \in Group, AddRequest(g)
  PROVE  QueueInv'
<1>1. PICK s : s = <<g, 1>>
  OBVIOUS
<1>2. /\ phase = "idle" /\ Members(g) = {}
      /\ \A h \in Group : h < g => Members(h) # {}
      /\ status' = [status EXCEPT ![s] = "waiting"]
      /\ len' = [len EXCEPT ![s] = promptLen[g]]
      /\ waiting' = Append(waiting, g)
      /\ UNCHANGED <<running, swapped, todo, preempted, swappedOut, bestOf,
                     promptLen, phase, appending, batch, prompt, emitted>>
  BY <1>1 DEF AddRequest
<1>3. /\ \A h \in ToSet(waiting) \union ToSet(running) \union ToSet(swapped) : h < g
      /\ g \notin ToSet(waiting) \union ToSet(running) \union ToSet(swapped)
  <2>1. \A h \in ToSet(waiting) \union ToSet(running) \union ToSet(swapped) : h < g
    BY <1>2, Newcomer
  <2>2. ~(g < g)
    BY GroupNumbers
  <2>3. QED
    BY <2>1, <2>2
<1>4. Names(waiting', ToSet(waiting) \union {g}) /\ Rises(waiting')
  BY <1>2, <1>3, QueueTypes, AppendNames DEF QueueInv, Names, InOrder
<1>5. s \in Seqs /\ s[1] = g
  BY <1>1, SchedulerAssumption DEF SchedulerAssumption
<1>6. /\ status' \in [Seqs -> Statuses]
      /\ Members(g)' = {s} /\ UnfinishedSeqs(g)' = {s} /\ status'[s] = "waiting"
      /\ \A h : h # g => Untouched(h)
  <2>1. status \in [Seqs -> Statuses] /\ "waiting" \in Statuses
    BY DEF QueueInv, SchedulerTypeOK, Statuses, Unfinished
  <2>2. /\ status' \in [Seqs -> Statuses] /\ status'[s] = "waiting"
        /\ \A t \in Seqs : t # s => status'[t] = status[t]
    BY <1>2, <1>5, <2>1
  <2>3. \A t \in Seqs : t[1] = g => status[t] = "none"
    BY <1>2 DEF Members
  <2>4. Members(g)' = {s}
    BY <1>5, <2>2, <2>3 DEF Members
  <2>5. UnfinishedSeqs(g)' = {s}
    BY <2>2, <2>4 DEF UnfinishedSeqs, Unfinished
  <2>6. \A h : h # g => Untouched(h)
    BY <1>2, <1>5, <2>2, UntouchedGroup
  <2>7. QED
    BY <2>2, <2>4, <2>5, <2>6
<1>7. OneWaiting(g)'
  BY <1>5, <1>6 DEF OneWaiting
<1>8. /\ ToSet(todo) = {} /\ ToSet(preempted) = {} /\ ToSet(swappedOut) = {} /\ ToSet(batch) = {}
      /\ Unprocessed = batch /\ Unprocessed' = batch'
  BY <1>2, EmptyQueues DEF QueueInv, Unprocessed
<1>9. SchedulerTypeOK'
  <2>1. len' \in [Seqs -> Nat]
    BY <1>2 DEF QueueInv, SchedulerTypeOK
  <2>2. QED
    BY <1>2, <1>4, <1>6, <2>1 DEF QueueInv, SchedulerTypeOK, Names
<1>10. PhaseShape'
  BY <1>2 DEF QueueInv, PhaseShape
<1>11. QueuesApart'
  BY <1>2, <1>3, <1>4, <1>8 DEF QueueInv, QueuesApart, Names
<1>12. StatusTold'
  BY <1>2, <1>3, <1>4, <1>6, <1>7, <1>8 DEF QueueInv, StatusTold, Names, Untouched
<1>13. SampledBefore'
  BY <1>2, <1>3, <1>6, <1>8 DEF QueueInv, SampledBefore, Untouched
<1>14. InOrder'
  <2>1. \A a, b \in Group : b < a /\ Members(a)' # {} => Members(b)' # {}
    BY <1>2, <1>6 DEF QueueInv, InOrder, Untouched
  <2>2. QED
    BY <1>2, <1>3, <1>4, <1>8, <2>1 DEF QueueInv, InOrder, Names
<1>15. QED
  BY <1>9, <1>10, <1>11, <1>12, <1>13, <1>14 DEF QueueInv

LEMMA AbortRequestKeeps ==
  ASSUME QueueInv, NEW g \in Group, AbortRequest(g)
  PROVE  QueueInv'
<1>1. /\ phase = "idle"
      /\ waiting' = RemoveFirst(waiting, g)
      /\ running' = RemoveFirst(running, g)
      /\ swapped' = RemoveFirst(swapped, g)
      /\ status' = SetStatus(UnfinishedSeqs(g), "aborted")
      /\ UNCHANGED <<todo, preempted, swappedOut, bestOf, promptLen, len, phase,
                     appending, batch, prompt, emitted>>
  BY DEF AbortRequest
<1>2. /\ Names(waiting', ToSet(waiting) \ {g}) /\ Rises(waiting')
      /\ Names(running', ToSet(running) \ {g})
      /\ Names(swapped', ToSet(swapped) \ {g})
  BY <1>1, QueueTypes, RemoveNames DEF QueueInv, Names, InOrder
<1>3. /\ status' \in [Seqs -> Statuses] /\ IsFinished(g)'
      /\ \A h : Members(h)' = Members(h)
      /\ \A h : h # g => Untouched(h)
  <2>1. "aborted" \in Statuses \ {"none"} /\ "aborted" \notin Unfinished
    BY DEF Statuses, Unfinished
  <2>2. QED
    BY <1>1, <2>1, StatusSet DEF QueueInv
<1>4. /\ ToSet(todo) = {} /\ ToSet(preempted) = {} /\ ToSet(swappedOut) = {} /\ ToSet(batch) = {}
      /\ Unprocessed = batch /\ Unprocessed' = batch'
  BY <1>1, EmptyQueues DEF QueueInv, Unprocessed
<1>5. SchedulerTypeOK'
  BY <1>1, <1>2, <1>3 DEF QueueInv, SchedulerTypeOK, Names
<1>6. PhaseShape'
  BY <1>1 DEF QueueInv, PhaseShape
<1>7. QueuesApart'
  BY <1>1, <1>2, <1>4 DEF QueueInv, QueuesApart, Names
<1>8. StatusTold'
  BY <1>1, <1>2, <1>3, <1>4 DEF QueueInv, StatusTold, Names, Untouched
<1>9. SampledBefore'
  BY <1>1, <1>2, <1>3, <1>4 DEF QueueInv, SampledBefore, Names, Untouched
<1>10. InOrder'
  BY <1>1, <1>2, <1>3, <1>4 DEF QueueInv, InOrder, Names
<1>11. QED
  BY <1>5, <1>6, <1>7, <1>8, <1>9, <1>10 DEF QueueInv

(* The lemmas on the steps that leave all sequences alone. *)
LEMMA ToRunningKeeps ==
  ASSUME QueueInv, phase \in {"idle", "prefill"}, batch = << >>, ToRunning, prompt' = FALSE,
         UNCHANGED <<waiting, swapped, preempted, swappedOut, seqVars, appending, batch,
                     emitted>>
  PROVE  QueueInv'
<1>1. /\ phase' = "running" /\ todo' = Sorted(running) /\ running' = << >>
      /\ UNCHANGED <<waiting, swapped, preempted, swappedOut, bestOf, promptLen, status, len,
                     appending, batch, emitted>>
  BY DEF ToRunning, seqVars
<1>2. /\ Names(todo', ToSet(running)) /\ Rises(todo')
      /\ Names(running', {})
  BY <1>1, QueueTypes, SortedNames, EmptyNames DEF QueueInv, Names
<1>3. /\ ToSet(todo) = {} /\ ToSet(preempted) = {} /\ ToSet(swappedOut) = {} /\ ToSet(batch) = {}
      /\ ~emitted /\ Unprocessed = batch /\ Unprocessed' = batch'
  BY <1>1, EmptyQueues, EmptyNames DEF QueueInv, Unprocessed, Names
<1>4. /\ \A h : Untouched(h)
      /\ \A h : Members(h)' = Members(h)
  BY <1>1, SameStatus DEF Members
<1>5. SchedulerTypeOK'
  BY <1>1, <1>2 DEF QueueInv, SchedulerTypeOK, Names, Phases
<1>6. PhaseShape'
  BY <1>1, <1>3 DEF QueueInv, PhaseShape
<1>7. QueuesApart'
  BY <1>1, <1>2, <1>3 DEF QueueInv, QueuesApart, Names
<1>8. StatusTold'
  BY <1>1, <1>2, <1>3, <1>4 DEF QueueInv, StatusTold, Names, Untouched
<1>9. SampledBefore'
  BY <1>1, <1>2, <1>3, <1>4 DEF QueueInv, SampledBefore, Names, Untouched
<1>10. InOrder'
  BY <1>1, <1>2, <1>3, <1>4 DEF QueueInv, InOrder, Names
<1>11. QED
  BY <1>5, <1>6, <1>7, <1>8, <1>9, <1>10 DEF QueueInv

(* Only the phase moves on. *)
LEMMA PhaseMovesOn ==
  ASSUME QueueInv, phase' \in Phases, prompt' \in BOOLEAN,
         UNCHANGED <<queueVars, seqVars, appending, batch, emitted>>,
         PhaseShape',
         phase' = "output" <=> phase = "output",
         phase' = "refused" <=> phase = "refused",
         phase \in {"failing", "dead"} => phase' \in {"failing", "dead"},
         prompt' = prompt \/ batch = << >>
  PROVE  QueueInv'
<1>1. UNCHANGED <<waiting, running, swapped, todo, preempted, swappedOut, bestOf, promptLen,
                  status, len, appending, batch, emitted>>
  BY DEF queueVars, seqVars
<1>2. /\ \A h : Untouched(h)
      /\ \A h : Members(h)' = Members(h)
      /\ Unprocessed' = Unprocessed
  BY <1>1, SameStatus DEF Members, Unprocessed
<1>3. SchedulerTypeOK'
  BY <1>1 DEF QueueInv, SchedulerTypeOK
<1>4. QueuesApart'
  BY <1>1 DEF QueueInv, QueuesApart
<1>5. StatusTold'
  BY <1>1, <1>2 DEF QueueInv, StatusTold, Untouched
<1>6. SampledBefore'
  <2>1. batch = << >> => ToSet(Unprocessed) = {}
    BY EmptyNames, EmptyQueues DEF QueueInv, PhaseShape, Names
  <2>2. QED
    BY <1>1, <1>2, <2>1 DEF QueueInv, SampledBefore, Untouched
<1>7. InOrder'
  BY <1>1, <1>2 DEF QueueInv, InOrder
<1>8. QED
  BY <1>3, <1>4, <1>5, <1>6, <1>7 DEF QueueInv

LEMMA BeginStepKeeps ==
  ASSUME QueueInv, BeginStep
  PROVE  QueueInv'
<1>1. /\ phase = "idle" /\ prompt' = FALSE
      /\ UNCHANGED <<waiting, swapped, preempted, swappedOut, seqVars, appending, batch,
                     emitted>>
      /\ batch = << >>
  BY DEF BeginStep, QueueInv, PhaseShape
<1>2. CASE swapped = << >>
  <2>1. phase' = "prefill" /\ UNCHANGED <<todo, running>>
    BY <1>2 DEF BeginStep
  <2>2. PhaseShape'
    BY <1>1, <2>1 DEF QueueInv, PhaseShape
  <2>3. "prefill" \in Phases
    BY DEF Phases
  <2>4. QED
    BY <1>1, <2>1, <2>2, <2>3, PhaseMovesOn DEF queueVars
<1>3. CASE swapped # << >>
  <2>1. ToRunning
    BY <1>3 DEF BeginStep
  <2>2. QED
    BY <1>1, <2>1, ToRunningKeeps
<1>4. QED
  BY <1>2, <1>3

LEMMA EndPrefillKeeps ==
  ASSUME QueueInv, EndPrefill
  PROVE  QueueInv'
<1>1. /\ phase = "prefill"
      /\ UNCHANGED <<waiting, swapped, preempted, swappedOut, seqVars, appending, batch,
                     prompt, emitted>>
  BY DEF EndPrefill
<1>2. CASE batch # << >>
  <2>1. phase' = "close" /\ UNCHANGED <<todo, running>>
    BY <1>2 DEF EndPrefill
  <2>2. PhaseShape'
    BY <1>1, <2>1 DEF QueueInv, PhaseShape
  <2>3. "close" \in Phases /\ prompt' \in BOOLEAN
    BY <1>1 DEF Phases, QueueInv, SchedulerTypeOK
  <2>4. QED
    BY <1>1, <2>1, <2>2, <2>3, PhaseMovesOn DEF queueVars
<1>3. CASE batch = << >>
  <2>1. ToRunning
    BY <1>3 DEF EndPrefill
  <2>2. prompt' = FALSE
    BY <1>1, <1>3 DEF QueueInv, PhaseShape, SchedulerTypeOK
  <2>3. QED
    BY <1>1, <1>3, <2>1, <2>2, ToRunningKeeps
<1>4. QED
  BY <1>2, <1>3

LEMMA StopKeeps ==
  ASSUME QueueInv, LackSwapSpace \/ FailSwapIn \/ EndSwapped
  PROVE  QueueInv'
<1>1. /\ UNCHANGED <<queueVars, seqVars, appending, batch, prompt, emitted>>
      /\ \/ phase \in {"running", "failing"} /\ phase' = "dead"
         \/ phase = "swapped" /\ appending = << >> /\ phase' = "close"
  <2>1. CASE LackSwapSpace
    BY <2>1 DEF LackSwapSpace, Preempting, Scheduling
  <2>2. CASE FailSwapIn
    BY <2>2 DEF FailSwapIn
  <2>3. CASE EndSwapped
    BY <2>3 DEF EndSwapped
  <2>4. QED
    BY <2>1, <2>2, <2>3
<1>2. phase' \in Phases /\ prompt' \in BOOLEAN
  BY <1>1 DEF Phases, QueueInv, SchedulerTypeOK
<1>3. PhaseShape'
  BY <1>1 DEF QueueInv, PhaseShape, queueVars
<1>4. QED
  BY <1>1, <1>2, <1>3, PhaseMovesOn

LEMMA ListedIs ==
  ASSUME NEW S \in SUBSET Seqs
  PROVE  /\ Listed(S) \in Seq(Seqs) /\ IsInjection(Listed(S))
         /\ ToSet(Listed(S)) = S
<1>1. PICK n : n = Cardinality(S)
  OBVIOUS
<1>2. IsFiniteSet(S)
  BY GroupNumbers, FS_Subset
<1>3. n \in Nat /\ ExistsBijection(1 .. n, S)
  BY <1>1, <1>2, FS_CardinalityType
<1>4. PICK f : f \in Bijection(1 .. n, S)
  BY <1>3 DEF ExistsBijection
<1>5. f \in [1 .. n -> S] /\ IsInjection(f)
  <2>1. f \in [1 .. n -> S] /\ \A j, k \in 1 .. n : f[j] = f[k] => j = k
    BY <1>4 DEF Bijection, Injection, IsInjective
  <2>2. QED
    BY <2>1 DEF IsInjection
<1>6. \E list \in [1 .. Cardinality(S) -> S] : IsInjection(list)
  BY <1>1, <1>5
<1>7. Listed(S) \in [1 .. Cardinality(S) -> S] /\ IsInjection(Listed(S))
  BY <1>6, Zenon DEF Listed
<1>8. PICK a : a = Listed(S)
  OBVIOUS
<1>9. a \in [1 .. n -> S] /\ IsInjection(a)
  BY <1>1, <1>7, <1>8
<1>10. a \in Seq(Seqs)
  <2>1. a \in [1 .. n -> Seqs]
    BY <1>9
  <2>2. QED
    BY <1>3, <2>1, IsASeq
<1>11. IsFiniteSet(1 .. n) /\ Cardinality(1 .. n) = n
  <2>1. IsFiniteSet(1 .. n) /\ Cardinality(1 .. n) = IF 1 > n THEN 0 ELSE n - 1 + 1
    BY <1>3, FS_Interval
  <2>2. QED
    BY <1>3, <2>1
<1>12. a \in Injection(1 .. n, S)
  <2>1. \A j, k \in 1 .. n : a[j] = a[k] => j = k
    BY <1>9 DEF IsInjection
  <2>2. QED
    BY <1>9, <2>1, Fun_IsInj
<1>13. a \in Surjection(1 .. n, S)
  BY <1>1, <1>2, <1>11, <1>12, FS_Injection
<1>14. \A x \in S : \E k \in 1 .. n : a[k] = x
  BY <1>13 DEF Surjection
<1>15. ToSet(a) = S
  BY <1>9, <1>14 DEF ToSet
<1>16. QED
  BY <1>8, <1>9, <1>10, <1>15

LEMMA ScheduleDecodeKeeps ==
  ASSUME QueueInv, ScheduleDecode
  PROVE  QueueInv'
<1>1. PICK g : g = Head(todo)
  OBVIOUS
<1>2. /\ phase = "running" /\ todo # << >> /\ todo' = Tail(todo)
      /\ batch' = Append(batch, g) /\ appending' = Listed(WithStatus(g, "running"))
      /\ UNCHANGED <<waiting, running, swapped, preempted, swappedOut, bestOf, promptLen,
                     status, len, phase, prompt, emitted>>
  BY <1>1 DEF ScheduleDecode, Scheduling, seqVars
<1>3. /\ g \in ToSet(todo) /\ Names(todo', ToSet(todo) \ {g}) /\ Rises(todo')
      /\ \A h \in ToSet(todo') : g < h
  BY <1>1, <1>2, QueueTypes, TailNames DEF QueueInv, Names, InOrder
<1>4. g \in Group /\ g \notin ToSet(batch)
  BY <1>3, QueueTypes DEF QueueInv, QueuesApart
<1>5. Names(batch', ToSet(batch) \union {g})
  BY <1>2, <1>4, QueueTypes, AppendNames DEF QueueInv, Names
<1>6. appending' \in Seq(Seqs)
  <2>1. WithStatus(g, "running") \in SUBSET Seqs
    BY SetsOfGroup
  <2>2. QED
    BY <1>2, <2>1, ListedIs
<1>7. /\ \A h : Untouched(h)
      /\ \A h : Members(h)' = Members(h)
  BY <1>2, SameStatus DEF Members
<1>8. /\ ~emitted /\ ~prompt /\ Unprocessed = batch /\ Unprocessed' = batch'
      /\ ToSet(running) = {}
  BY <1>2, EmptyQueues DEF QueueInv, Unprocessed, PhaseShape
<1>9. SchedulerTypeOK'
  BY <1>2, <1>3, <1>5, <1>6 DEF QueueInv, SchedulerTypeOK, Names
<1>10. PhaseShape'
  BY <1>2, <1>8 DEF QueueInv, PhaseShape
<1>11. QueuesApart'
  BY <1>2, <1>3, <1>5 DEF QueueInv, QueuesApart, Names
<1>12. StatusTold'
  BY <1>2, <1>3, <1>5, <1>7, <1>8 DEF QueueInv, StatusTold, Names, Untouched
<1>13. SampledBefore'
  BY <1>2, <1>3, <1>5, <1>7, <1>8 DEF QueueInv, SampledBefore, Names, Untouched
<1>14. InOrder'
  BY <1>2, <1>3, <1>5, <1>7 DEF QueueInv, InOrder, Names
<1>15. QED
  BY <1>9, <1>10, <1>11, <1>12, <1>13, <1>14 DEF QueueInv

LEMMA AppendSlotKeeps ==
  ASSUME QueueInv, AppendSlot
  PROVE  QueueInv'
<1>1. /\ appending # << >> /\ appending' = Tail(appending)
      /\ UNCHANGED <<waiting, running, swapped, todo, preempted, swappedOut, bestOf, promptLen,
                     status, len, phase, batch, prompt, emitted>>
  BY DEF AppendSlot, queueVars, seqVars
<1>2. /\ \A h : Untouched(h)
      /\ \A h : Members(h)' = Members(h)
      /\ Unprocessed' = Unprocessed
  BY <1>1, SameStatus DEF Members, Unprocessed
<1>3. appending' \in Seq(Seqs)
  BY <1>1, HeadTailProperties DEF QueueInv, SchedulerTypeOK
<1>4. SchedulerTypeOK'
  BY <1>1, <1>3 DEF QueueInv, SchedulerTypeOK
<1>5. PhaseShape'
  BY <1>1 DEF QueueInv, PhaseShape
<1>6. QueuesApart'
  BY <1>1 DEF QueueInv, QueuesApart
<1>7. StatusTold' /\ SampledBefore'
  BY <1>1, <1>2 DEF QueueInv, StatusTold, SampledBefore, Untouched
<1>8. InOrder'
  BY <1>1, <1>2 DEF QueueInv, InOrder
<1>9. QED
  BY <1>4, <1>5, <1>6, <1>7, <1>8 DEF QueueInv

(* The last of the groups still to schedule, which is the youngest of them.  *)
LEMMA VictimIs ==
  ASSUME QueueInv, Scheduling
  PROVE  /\ Victim \in ToSet(todo) /\ Victim \in Group
         /\ \A h \in ToSet(todo) : h # Victim => h < Victim
         /\ AllRunning(Victim) /\ ~IsFinished(Victim) /\ Sampled(Victim)
<1>1. /\ todo \in Seq(Group) /\ Len(todo) \in Nat \ {0} /\ DOMAIN todo = 1 .. Len(todo)
      /\ phase = "running"
  BY InQueue DEF QueueInv, SchedulerTypeOK, Scheduling
<1>2. Victim \in ToSet(todo)
  BY <1>1, InQueue DEF Victim
<1>3. \A h \in ToSet(todo) : h # Victim => h < Victim
  <2> SUFFICES ASSUME NEW h \in ToSet(todo), h # Victim PROVE h < Victim
    OBVIOUS
  <2>1. PICK k \in 1 .. Len(todo) : todo[k] = h
    BY <1>1, InQueue
  <2>2. k < Len(todo)
    BY <1>1, <2>1 DEF Victim
  <2>3. QED
    BY <1>1, <2>1, <2>2 DEF Victim, QueueInv, InOrder, Rises
<1>4. AllRunning(Victim) /\ ~IsFinished(Victim)
  BY <1>2 DEF QueueInv, StatusTold
<1>5. Sampled(Victim)
  BY <1>1, <1>2 DEF QueueInv, SampledBefore, PhaseShape
<1>6. QED
  BY <1>2, <1>3, <1>4, <1>5, QueueTypes DEF QueueInv

LEMMA PreemptByRecomputeKeeps ==
  ASSUME QueueInv, PreemptByRecompute
  PROVE  QueueInv'
<1>1. PICK g : g = Victim
  OBVIOUS
<1>2. /\ Scheduling /\ phase = "running" /\ MaxRunning(g) = 1
      /\ status' = SetStatus(WithStatus(g, "running"), "waiting")
      /\ preempted' = Append(preempted, g) /\ todo' = RemoveFirst(todo, g)
      /\ UNCHANGED <<waiting, running, swapped, swappedOut, bestOf, promptLen, len, phase,
                     appending, batch, prompt, emitted>>
  BY <1>1 DEF PreemptByRecompute, Preempting, Scheduling
<1>3. /\ g \in ToSet(todo) /\ g \in Group /\ \A h \in ToSet(todo) : h # g => h < g
      /\ AllRunning(g) /\ ~IsFinished(g) /\ Sampled(g)
  BY <1>1, <1>2, VictimIs
<1>4. Names(todo', ToSet(todo) \ {g}) /\ Rises(todo')
  BY <1>2, QueueTypes, RemoveNames DEF QueueInv, Names, InOrder
<1>5. g \notin ToSet(preempted) /\ g \notin ToSet(waiting)
  BY <1>3 DEF QueueInv, QueuesApart
<1>6. Names(preempted', ToSet(preempted) \union {g}) /\ Falls(preempted')
  BY <1>2, <1>3, <1>5, QueueTypes, AppendNames DEF QueueInv, Names, InOrder
<1>7. WithStatus(g, "running") = UnfinishedSeqs(g)
  BY <1>3 DEF AllRunning
<1>8. /\ status' \in [Seqs -> Statuses] /\ UnfinishedSeqs(g)' = UnfinishedSeqs(g)
      /\ \A s \in UnfinishedSeqs(g)' : status'[s] = "waiting"
      /\ \A h : Members(h)' = Members(h)
      /\ \A h : h # g => Untouched(h)
  <2>1. "waiting" \in Statuses \ {"none"} /\ "waiting" \in Unfinished
    BY DEF Statuses, Unfinished
  <2>2. QED
    BY <1>2, <1>7, <2>1, StatusSet DEF QueueInv
<1>9. OneWaiting(g)'
  <2>1. Cardinality(UnfinishedSeqs(g)) = 1
    BY <1>2, <1>3, RunningCount DEF QueueInv
  <2>2. PICK s : UnfinishedSeqs(g) = {s}
    BY <2>1, SetsOfGroup, FS_Singleton
  <2>3. s \in Seqs
    BY <2>2, SetsOfGroup
  <2>4. QED
    BY <1>8, <2>2, <2>3 DEF OneWaiting
<1>10. /\ ~emitted /\ Unprocessed = batch /\ Unprocessed' = batch' /\ ToSet(running) = {}
       /\ ~prompt
  BY <1>2, EmptyQueues DEF QueueInv, Unprocessed, PhaseShape
<1>11. g \notin ToSet(batch) \union ToSet(swapped) \union ToSet(swappedOut)
  BY <1>3 DEF QueueInv, QueuesApart
<1>12. SchedulerTypeOK'
  BY <1>2, <1>4, <1>6, <1>8 DEF QueueInv, SchedulerTypeOK, Names
<1>13. PhaseShape'
  BY <1>2, <1>10 DEF QueueInv, PhaseShape
<1>14. QueuesApart'
  BY <1>2, <1>3, <1>4, <1>6 DEF QueueInv, QueuesApart, Names
<1>15. StatusTold'
  BY <1>2, <1>4, <1>6, <1>8, <1>9, <1>10, <1>11 DEF QueueInv, StatusTold, Names, Untouched
<1>16. SampledBefore'
  BY <1>2, <1>4, <1>8, <1>10, <1>11 DEF QueueInv, SampledBefore, Names, Untouched
<1>17. InOrder'
  BY <1>2, <1>3, <1>4, <1>6, <1>8 DEF QueueInv, InOrder, Names
<1>18. QED
  BY <1>12, <1>13, <1>14, <1>15, <1>16, <1>17 DEF QueueInv

LEMMA PreemptBySwapKeeps ==
  ASSUME QueueInv, PreemptBySwap
  PROVE  QueueInv'
<1>1. PICK g : g = Victim
  OBVIOUS
<1>2. /\ Scheduling /\ phase = "running" /\ MaxRunning(g) # 1
      /\ status' = SetStatus(WithStatus(g, "running"), "swapped")
      /\ swappedOut' = Append(swappedOut, g) /\ todo' = RemoveFirst(todo, g)
      /\ UNCHANGED <<waiting, running, swapped, preempted, bestOf, promptLen, len, phase,
                     appending, batch, prompt, emitted>>
  BY <1>1 DEF PreemptBySwap, Preempting, Scheduling
<1>3. /\ g \in ToSet(todo) /\ g \in Group /\ \A h \in ToSet(todo) : h # g => h < g
      /\ AllRunning(g) /\ ~IsFinished(g) /\ Sampled(g)
  BY <1>1, <1>2, VictimIs
<1>4. Names(todo', ToSet(todo) \ {g}) /\ Rises(todo')
  BY <1>2, QueueTypes, RemoveNames DEF QueueInv, Names, InOrder
<1>5. g \notin ToSet(swappedOut)
  BY <1>3 DEF QueueInv, QueuesApart
<1>6. Names(swappedOut', ToSet(swappedOut) \union {g})
  BY <1>2, <1>3, <1>5, QueueTypes, AppendNames DEF QueueInv, Names
<1>7. WithStatus(g, "running") = UnfinishedSeqs(g)
  BY <1>3 DEF AllRunning
<1>8. /\ status' \in [Seqs -> Statuses] /\ UnfinishedSeqs(g)' = UnfinishedSeqs(g)
      /\ \A s \in UnfinishedSeqs(g)' : status'[s] = "swapped"
      /\ \A h : Members(h)' = Members(h)
      /\ \A h : h # g => Untouched(h)
  <2>1. "swapped" \in Statuses \ {"none"} /\ "swapped" \in Unfinished
    BY DEF Statuses, Unfinished
  <2>2. QED
    BY <1>2, <1>7, <2>1, StatusSet DEF QueueInv
<1>9. SeveralSwapped(g)'
  <2>1. Cardinality(UnfinishedSeqs(g)) # 1 /\ UnfinishedSeqs(g) # {}
    BY <1>2, <1>3, RunningCount DEF QueueInv, IsFinished
  <2>2. PICK s : s \in UnfinishedSeqs(g)
    BY <2>1
  <2>3. UnfinishedSeqs(g) # {s}
    BY <2>1, SetsOfGroup, FS_Singleton
  <2>4. PICK u \in UnfinishedSeqs(g) : u # s
    BY <2>2, <2>3
  <2>5. WithStatus(g, "swapped")' = {v \in UnfinishedSeqs(g)' : status'[v] = "swapped"}
    BY DEF WithStatus, UnfinishedSeqs, Unfinished
  <2>6. QED
    BY <1>8, <2>2, <2>4, <2>5 DEF SeveralSwapped
<1>10. /\ ~emitted /\ Unprocessed = batch /\ Unprocessed' = batch' /\ ToSet(running) = {}
       /\ ~prompt
  BY <1>2, EmptyQueues DEF QueueInv, Unprocessed, PhaseShape
<1>11. g \notin ToSet(batch) \union ToSet(swapped) \union ToSet(preempted) \union ToSet(waiting)
  BY <1>3 DEF QueueInv, QueuesApart
<1>12. SchedulerTypeOK'
  BY <1>2, <1>4, <1>6, <1>8 DEF QueueInv, SchedulerTypeOK, Names
<1>13. PhaseShape'
  BY <1>2, <1>10 DEF QueueInv, PhaseShape
<1>14. QueuesApart'
  BY <1>2, <1>3, <1>4, <1>6 DEF QueueInv, QueuesApart, Names
<1>15. StatusTold'
  BY <1>2, <1>4, <1>6, <1>8, <1>9, <1>10, <1>11 DEF QueueInv, StatusTold, Names, Untouched
<1>16. SampledBefore'
  BY <1>2, <1>4, <1>8, <1>10, <1>11 DEF QueueInv, SampledBefore, Names, Untouched
<1>17. InOrder'
  BY <1>2, <1>3, <1>4, <1>6, <1>8 DEF QueueInv, InOrder, Names
<1>18. QED
  BY <1>12, <1>13, <1>14, <1>15, <1>16, <1>17 DEF QueueInv

LEMMA EndRunningKeeps ==
  ASSUME QueueInv, EndRunning
  PROVE  QueueInv'
<1>1. /\ phase = "running" /\ appending = << >> /\ todo = << >>
      /\ UNCHANGED <<waiting, running, todo, preempted, swappedOut, bestOf, promptLen,
                     status, len, appending, batch, prompt, emitted>>
  BY DEF EndRunning, seqVars
<1>2. CASE preempted \o swappedOut = << >>
  <2>1. phase' = "swapped" /\ swapped' = Sorted(swapped)
    BY <1>2 DEF EndRunning
  <2>2. preempted = << >> /\ swappedOut = << >>
    BY <1>2, ConcatNames, InQueue DEF QueueInv, SchedulerTypeOK
  <2>3. Names(swapped', ToSet(swapped))
    BY <2>1, QueueTypes, SortedNames DEF QueueInv, Names
  <2>4. /\ \A h : Untouched(h)
        /\ \A h : Members(h)' = Members(h)
        /\ Unprocessed' = Unprocessed
    BY <1>1, SameStatus DEF Members, Unprocessed
  <2>5. SchedulerTypeOK'
    BY <1>1, <2>1, <2>3 DEF QueueInv, SchedulerTypeOK, Names, Phases
  <2>6. PhaseShape'
    BY <1>1, <2>1, <2>2 DEF QueueInv, PhaseShape
  <2>7. QueuesApart'
    BY <1>1, <2>1, <2>3 DEF QueueInv, QueuesApart, Names
  <2>8. StatusTold' /\ SampledBefore'
    BY <1>1, <2>1, <2>3, <2>4 DEF QueueInv, StatusTold, SampledBefore, Names, Untouched
  <2>9. InOrder'
    BY <1>1, <2>1, <2>3, <2>4 DEF QueueInv, InOrder, Names
  <2>10. QED
    BY <2>5, <2>6, <2>7, <2>8, <2>9 DEF QueueInv
<1>3. CASE preempted \o swappedOut # << >>
  <2>1. phase' = "close" /\ UNCHANGED swapped
    BY <1>3 DEF EndRunning
  <2>2. PhaseShape'
    BY <1>1, <2>1 DEF QueueInv, PhaseShape
  <2>3. "close" \in Phases /\ prompt' \in BOOLEAN
    BY <1>1 DEF Phases, QueueInv, SchedulerTypeOK
  <2>4. UNCHANGED <<queueVars, seqVars, appending, batch, emitted>>
    BY <1>1, <2>1 DEF queueVars, seqVars
  <2>5. QED
    BY <1>1, <2>1, <2>2, <2>3, <2>4, PhaseMovesOn
<1>4. QED
  BY <1>2, <1>3

LEMMA ScheduleSwappedKeeps ==
  ASSUME QueueInv, ScheduleSwapped
  PROVE  QueueInv'
<1>1. PICK g : g = Head(swapped)
  OBVIOUS
<1>2. /\ phase = "swapped" /\ swapped # << >>
      /\ status' = SetStatus(WithStatus(g, "swapped"), "running")
      /\ appending' = Listed(WithStatus(g, "swapped"))
      /\ swapped' = Tail(swapped) /\ batch' = Append(batch, g)
      /\ phase' = IF Cardinality(WithStatus(g, "swapped")) = 1 THEN phase ELSE "failing"
      /\ UNCHANGED <<waiting, running, todo, preempted, swappedOut, bestOf, promptLen,
                     len, prompt, emitted>>
  BY <1>1 DEF ScheduleSwapped, SwapInNext
<1>3. g \in ToSet(swapped) /\ Names(swapped', ToSet(swapped) \ {g})
  BY <1>1, <1>2, QueueTypes, TailNames DEF QueueInv, Names
<1>4. /\ g \in Group
      /\ g \notin ToSet(batch) \union ToSet(running) \union ToSet(waiting)
  BY <1>3, QueueTypes DEF QueueInv, QueuesApart
<1>5. Names(batch', ToSet(batch) \union {g})
  BY <1>2, <1>4, QueueTypes, AppendNames DEF QueueInv, Names
<1>6. PICK S : S = WithStatus(g, "swapped")
  OBVIOUS
<1>7. /\ S = UnfinishedSeqs(g) /\ S \in SUBSET Seqs /\ S # {}
      /\ Cardinality(S) # 1
  <2>1. S = UnfinishedSeqs(g) /\ \E s, t \in S : s # t
    BY <1>3, <1>6 DEF QueueInv, StatusTold, SeveralSwapped
  <2>2. QED
    BY <2>1, SetsOfGroup, FS_Singleton
<1>8. phase' = "failing"
  BY <1>2, <1>6, <1>7
<1>9. /\ status' \in [Seqs -> Statuses] /\ AllRunning(g)' /\ ~IsFinished(g)'
      /\ Sampled(g)' <=> Sampled(g)
      /\ \A h : Members(h)' = Members(h)
      /\ \A h : h # g => Untouched(h)
  <2>1. "running" \in Statuses \ {"none"} /\ "running" \in Unfinished
    BY DEF Statuses, Unfinished
  <2>2. ~IsFinished(g)
    BY <1>7 DEF IsFinished
  <2>3. QED
    BY <1>2, <1>6, <1>7, <2>1, <2>2, StatusSet DEF QueueInv
<1>10. Sampled(g)
  <2>1. \E s, t \in Members(g) : s # t
    BY <1>3, SetsOfGroup DEF QueueInv, StatusTold, SeveralSwapped
  <2>2. QED
    BY <2>1 DEF Sampled
<1>11. /\ ToSet(todo) = {} /\ ToSet(preempted) = {} /\ ToSet(swappedOut) = {}
       /\ ToSet(running) = {} /\ ~emitted /\ Unprocessed = batch /\ Unprocessed' = batch'
  BY <1>2, EmptyQueues DEF QueueInv, Unprocessed
<1>12. SchedulerTypeOK'
  <2>1. appending' \in Seq(Seqs)
    BY <1>2, <1>6, <1>7, ListedIs
  <2>2. QED
    BY <1>2, <1>3, <1>5, <1>8, <1>9, <2>1 DEF QueueInv, SchedulerTypeOK, Names, Phases
<1>13. PhaseShape'
  BY <1>2, <1>8, <1>11 DEF QueueInv, PhaseShape
<1>14. QueuesApart'
  BY <1>2, <1>3, <1>5, <1>8 DEF QueueInv, QueuesApart, Names
<1>15. StatusTold'
  BY <1>2, <1>3, <1>4, <1>5, <1>9, <1>11 DEF QueueInv, StatusTold, Names, Untouched
<1>16. SampledBefore'
  BY <1>2, <1>3, <1>5, <1>9, <1>10, <1>11 DEF QueueInv, SampledBefore, Names, Untouched
<1>17. InOrder'
  BY <1>2, <1>5, <1>8, <1>9, <1>11 DEF QueueInv, InOrder, Names
<1>18. QED
  BY <1>12, <1>13, <1>14, <1>15, <1>16, <1>17 DEF QueueInv

LEMMA LeastIs ==
  ASSUME NEW K \in SUBSET Nat, K # {}
  PROVE  Min(K) \in K
<1>1. PICK y : y \in K
  OBVIOUS
<1>2. IsWellFoundedOn(OpToRel(<, Nat), Nat)
  BY NatLessThanWellFounded, Zenon
<1>3. PICK n \in K : \A k \in K : ~(<<k, n>> \in OpToRel(<, Nat))
  BY <1>1, <1>2, WFMin, Zenon
<1>4. \A k \in K : ~(k < n)
  BY <1>3, Zenon DEF OpToRel
<1>5. \A k \in K : n <= k
  BY <1>4
<1>6. QED
  BY <1>5 DEF Min

(* What is handed from list to list at the end of scheduling. *)
LEMMA CloseKeeps ==
  ASSUME QueueInv, Close
  PROVE  QueueInv'
<1>1. /\ phase = "close" /\ phase' \in {"output", "refused"}
      /\ waiting' = Reverse(preempted) \o waiting
      /\ running' = running \o batch /\ swapped' = swapped \o swappedOut
      /\ preempted' = << >> /\ swappedOut' = << >>
      /\ UNCHANGED <<todo, bestOf, promptLen, status, len, appending, batch, prompt, emitted>>
  BY DEF Close, ExtendLeft, seqVars
<1>2. Names(Reverse(preempted), ToSet(preempted)) /\ Rises(Reverse(preempted))
  BY QueueTypes, ReverseNames DEF QueueInv, Names, InOrder
<1>3. Names(waiting', ToSet(waiting) \union ToSet(preempted)) /\ Rises(waiting')
  <2>1. PICK q : q = Reverse(preempted)
    OBVIOUS
  <2>2. /\ q \in Seq(Group) /\ waiting \in Seq(Group) /\ IsInjective(q) /\ IsInjective(waiting)
        /\ ToSet(q) \intersect ToSet(waiting) = {} /\ Rises(q) /\ Rises(waiting)
        /\ \A g \in ToSet(q), h \in ToSet(waiting) : g < h
        /\ ToSet(q) = ToSet(preempted)
    BY <1>2, <2>1 DEF QueueInv, SchedulerTypeOK, QueuesApart, InOrder, Names
  <2>3. Names(q \o waiting, ToSet(q) \union ToSet(waiting)) /\ Rises(q \o waiting)
    BY <2>2, ConcatNames DEF Names
  <2>4. QED
    BY <1>1, <2>1, <2>2, <2>3 DEF Names
<1>4. Names(running', ToSet(running) \union ToSet(batch))
  <2>1. /\ running \in Seq(Group) /\ batch \in Seq(Group) /\ IsInjective(running)
        /\ IsInjective(batch) /\ ToSet(running) \intersect ToSet(batch) = {}
    BY <1>1 DEF QueueInv, SchedulerTypeOK, QueuesApart
  <2>2. QED
    BY <1>1, <2>1, ConcatNames DEF Names
<1>5. Names(swapped', ToSet(swapped) \union ToSet(swappedOut))
  <2>1. /\ swapped \in Seq(Group) /\ swappedOut \in Seq(Group) /\ IsInjective(swapped)
        /\ IsInjective(swappedOut) /\ ToSet(swapped) \intersect ToSet(swappedOut) = {}
    BY DEF QueueInv, SchedulerTypeOK, QueuesApart
  <2>2. QED
    BY <1>1, <2>1, ConcatNames DEF Names
<1>6. Names(preempted', {}) /\ Names(swappedOut', {}) /\ Falls(preempted')
  BY <1>1, EmptyNames
<1>7. /\ \A h : Untouched(h)
      /\ \A h : Members(h)' = Members(h)
      /\ Unprocessed' = Unprocessed /\ Unprocessed = batch
  BY <1>1, SameStatus, EmptyQueues DEF Members, Unprocessed, QueueInv
<1>8. ToSet(todo) = {} /\ ~emitted
  BY <1>1, EmptyQueues DEF QueueInv
<1>9. SchedulerTypeOK'
  BY <1>1, <1>3, <1>4, <1>5, <1>6 DEF QueueInv, SchedulerTypeOK, Names, Phases
<1>10. PhaseShape'
  BY <1>1, <1>8 DEF QueueInv, PhaseShape
<1>11. QueuesApart'
  BY <1>1, <1>3, <1>4, <1>5, <1>6 DEF QueueInv, QueuesApart, Names
<1>12. StatusTold'
  BY <1>1, <1>3, <1>4, <1>5, <1>6, <1>7 DEF QueueInv, StatusTold, Names, Untouched
<1>13. SampledBefore'
  BY <1>1, <1>3, <1>4, <1>5, <1>6, <1>7 DEF QueueInv, SampledBefore, Names, Untouched
<1>14. InOrder'
  BY <1>1, <1>3, <1>4, <1>5, <1>6, <1>7, <1>8 DEF QueueInv, InOrder, Names
<1>15. QED
  BY <1>9, <1>10, <1>11, <1>12, <1>13, <1>14 DEF QueueInv

LEMMA FreeFinishedKeeps ==
  ASSUME QueueInv, FreeFinished
  PROVE  QueueInv'
<1>1. /\ emitted /\ phase = "output" /\ batch # << >>
      /\ batch' = Tail(batch) /\ emitted' = FALSE
      /\ UNCHANGED <<waiting, running, swapped, todo, preempted, swappedOut, bestOf,
                     promptLen, status, len, phase, appending, prompt>>
  BY DEF FreeFinished, queueVars, seqVars, QueueInv, PhaseShape
<1>2. Names(batch', ToSet(batch) \ {Head(batch)})
  BY <1>1, QueueTypes, TailNames DEF QueueInv, Names
<1>3. /\ \A h : Untouched(h)
      /\ \A h : Members(h)' = Members(h)
      /\ Unprocessed' = Unprocessed
  BY <1>1, SameStatus DEF Members, Unprocessed
<1>4. SchedulerTypeOK'
  BY <1>1, <1>2 DEF QueueInv, SchedulerTypeOK, Names
<1>5. PhaseShape'
  BY <1>1 DEF QueueInv, PhaseShape
<1>6. QueuesApart'
  BY <1>1, <1>2 DEF QueueInv, QueuesApart, Names
<1>7. StatusTold'
  <2>1. ToSet(batch) \subseteq ToSet(running)
    BY <1>1 DEF QueueInv, QueuesApart
  <2>2. QED
    BY <1>1, <1>2, <1>3, <2>1 DEF QueueInv, StatusTold, Names, Untouched
<1>8. SampledBefore'
  BY <1>1, <1>2, <1>3 DEF QueueInv, SampledBefore, Names, Untouched
<1>9. InOrder'
  BY <1>1, <1>2, <1>3 DEF QueueInv, InOrder, Names
<1>10. QED
  BY <1>4, <1>5, <1>6, <1>7, <1>8, <1>9 DEF QueueInv

LEMMA EndStepKeeps ==
  ASSUME QueueInv, EndStep
  PROVE  QueueInv'
<1>1. /\ phase = "output" /\ phase' = "idle" /\ batch = << >>
      /\ running' = StillUnfinished(running)
      /\ UNCHANGED <<waiting, swapped, todo, preempted, swappedOut, bestOf, promptLen, status,
                     len, appending, batch, prompt, emitted>>
  BY DEF EndStep, seqVars
<1>2. Names(running', {g \in ToSet(running) : ~IsFinished(g)})
  BY <1>1, QueueTypes, UnfinishedNames DEF QueueInv, Names
<1>3. /\ \A h : Untouched(h)
      /\ \A h : Members(h)' = Members(h)
      /\ Unprocessed' = Unprocessed
  BY <1>1, SameStatus DEF Members, Unprocessed
<1>4. ToSet(batch) = {} /\ ~emitted /\ Unprocessed = batch
  BY <1>1, EmptyNames DEF Names, QueueInv, PhaseShape, Unprocessed
<1>5. SchedulerTypeOK'
  BY <1>1, <1>2 DEF QueueInv, SchedulerTypeOK, Names, Phases
<1>6. PhaseShape'
  BY <1>1, <1>4 DEF QueueInv, PhaseShape
<1>7. QueuesApart'
  BY <1>1, <1>2, <1>4 DEF QueueInv, QueuesApart, Names
<1>8. StatusTold'
  BY <1>1, <1>2, <1>3, <1>4 DEF QueueInv, StatusTold, Names, Untouched
<1>9. SampledBefore'
  BY <1>1, <1>2, <1>3, <1>4 DEF QueueInv, SampledBefore, Names, Untouched
<1>10. InOrder'
  BY <1>1, <1>2, <1>3, <1>4 DEF QueueInv, InOrder, Names
<1>11. QED
  BY <1>5, <1>6, <1>7, <1>8, <1>9, <1>10 DEF QueueInv

(* The child that is forked for the second sample of a prompt, if any. *)
LEMMA NewChildIs ==
  ASSUME NEW g \in Group,
         prompt /\ bestOf[g] = 2 => \E k \in 1 .. Copies : status[<<g, k>>] = "none"
  PROVE  /\ \A s \in NewChild(g) : s \in Seqs /\ s[1] = g /\ status[s] = "none"
         /\ \A s, t \in NewChild(g) : s = t
         /\ prompt /\ bestOf[g] = 2 => NewChild(g) # {}
<1>1. CASE ~(prompt /\ bestOf[g] = 2)
  BY <1>1 DEF NewChild
<1>2. CASE prompt /\ bestOf[g] = 2
  <2>1. PICK K : K = {k \in 1 .. Copies : status[<<g, k>>] = "none"}
    OBVIOUS
  <2>2. K # {} /\ K \in SUBSET Nat
    <3>1. \E k \in 1 .. Copies : status[<<g, k>>] = "none"
      BY <1>2
    <3>2. \A k \in 1 .. Copies : k \in Nat
      BY SchedulerAssumption DEF SchedulerAssumption
    <3>3. QED
      BY <2>1, <3>1, <3>2
  <2>3. Min(K) \in K
    BY <2>2, LeastIs
  <2>4. NewChild(g) = {<<g, Min(K)>>}
    BY <1>2, <2>1 DEF NewChild
  <2>5. <<g, Min(K)>> \in Seqs
    BY <2>1, <2>3, SchedulerAssumption DEF SchedulerAssumption
  <2>6. QED
    BY <2>1, <2>3, <2>4, <2>5
<1>3. QED
  BY <1>1, <1>2

(* Sampling: the processed group runs on or has finished, and now has a       *)
(* sequence for every sample it asked for.                                 *)
LEMMA ProcessOutputKeeps ==
  ASSUME QueueInv, ProcessOutput
  PROVE  QueueInv'
<1>1. PICK g : g = Head(batch)
  OBVIOUS
<1>2. PICK parents : parents = WithStatus(g, "running")
  OBVIOUS
<1>3. PICK children : children = NewChild(g)
  OBVIOUS
<1>4. PICK longer : longer = [s \in Seqs |->
        1 + IF s \in parents THEN len[s] ELSE len[CHOOSE p \in parents : TRUE]]
  OBVIOUS
<1>5. /\ phase = "output" /\ batch # << >> /\ ~emitted /\ emitted' = TRUE
      /\ prompt /\ bestOf[g] = 2 => \E k \in 1 .. Copies : status[<<g, k>>] = "none"
      /\ UNCHANGED <<waiting, running, swapped, todo, preempted, swappedOut, bestOf, promptLen,
                     phase, appending, batch, prompt>>
  BY <1>1 DEF ProcessOutput, queueVars
<1>6. /\ g \in ToSet(batch) /\ g \in Group /\ g \in ToSet(running)
      /\ Names(Tail(batch), ToSet(batch) \ {g})
  BY <1>1, <1>5, QueueTypes, TailNames DEF QueueInv, QueuesApart, Names
<1>7. /\ parents = UnfinishedSeqs(g) /\ parents # {} /\ parents \subseteq Members(g)
      /\ \A s \in parents : s \in Seqs /\ s[1] = g /\ status[s] = "running"
  <2>1. AllRunning(g)
    BY <1>6 DEF QueueInv, StatusTold
  <2>2. ~IsFinished(g)
    BY <1>5, <1>6, EmptyQueues DEF QueueInv, StatusTold
  <2>3. parents = UnfinishedSeqs(g) /\ parents # {}
    BY <1>2, <2>1, <2>2 DEF AllRunning, IsFinished
  <2>4. QED
    BY <1>2, <2>3, SetsOfGroup DEF WithStatus, Members
<1>8. /\ \A s \in children : s \in Seqs /\ s[1] = g /\ status[s] = "none"
      /\ prompt /\ bestOf[g] = 2 => children # {}
  BY <1>3, <1>5, <1>6, NewChildIs
<1>9. PICK stopped \in SUBSET (parents \union children) :
        status' = [s \in Seqs |-> CASE s \in stopped -> "finished"
                                    [] s \in (parents \union children) \ stopped -> "running"
                                    [] OTHER -> status[s]]
  BY <1>1, <1>2, <1>3 DEF ProcessOutput
<1>10. len' \in [Seqs -> Nat]
  <2>1. PICK parent : parent = CHOOSE p \in parents : TRUE
    OBVIOUS
  <2>2. parent \in Seqs
    BY <1>7, <2>1
  <2>3. len' = [s \in Seqs |-> IF s \in parents \union children
                                 THEN 1 + (IF s \in parents THEN len[s] ELSE len[parent])
                                 ELSE len[s]]
    BY <1>1, <1>2, <1>3, <2>1 DEF ProcessOutput
  <2>4. QED
    BY <2>2, <2>3 DEF QueueInv, SchedulerTypeOK
<1>11. /\ \A s \in Seqs : s \in stopped => status'[s] = "finished"
       /\ \A s \in Seqs : s \in (parents \union children) \ stopped => status'[s] = "running"
       /\ \A s \in Seqs : s \notin parents \union children => status'[s] = status[s]
  BY <1>9
<1>12. status' \in [Seqs -> Statuses]
  <2>1. \A s \in Seqs : status'[s] \in Statuses
    BY <1>11 DEF QueueInv, SchedulerTypeOK, Statuses, Unfinished
  <2>2. QED
    BY <1>9, <2>1
<1>13. \A h : h # g => Untouched(h)
  <2>1. \A s \in parents \union children : s[1] = g
    BY <1>7, <1>8
  <2>2. QED
    BY <1>5, <1>11, <2>1, UntouchedGroup
<1>14. Members(g)' = Members(g) \union children
  <2>1. \A s \in parents \union children : status'[s] # "none"
    BY <1>7, <1>8, <1>11
  <2>2. QED
    BY <1>7, <1>8, <1>11, <2>1 DEF Members
<1>15. AllRunning(g)'
  <2>1. \A s \in Members(g)' : status'[s] \in Unfinished => status'[s] = "running"
    <3> SUFFICES ASSUME NEW s \in Members(g)', status'[s] \in Unfinished
                 PROVE  status'[s] = "running"
      OBVIOUS
    <3>1. s \in Seqs /\ s[1] = g
      BY DEF Members
    <3>2. CASE s \in parents \union children
      BY <1>11, <3>1, <3>2 DEF Unfinished
    <3>3. CASE s \notin parents \union children
      BY <1>7, <1>11, <1>14, <3>1, <3>3 DEF UnfinishedSeqs
    <3>4. QED
      BY <3>2, <3>3
  <2>2. QED
    BY <2>1 DEF AllRunning, UnfinishedSeqs, WithStatus, Unfinished
<1>16. Sampled(g)'
  <2>1. CASE prompt /\ bestOf[g] = 2
    <3>1. PICK p, c : p \in parents /\ c \in children
      BY <1>7, <1>8, <2>1
    <3>2. p # c /\ p \in Members(g)' /\ c \in Members(g)'
      BY <1>7, <1>8, <1>14, <3>1
    <3>3. QED
      BY <3>2 DEF Sampled
  <2>2. CASE bestOf[g] = 1
    BY <1>5, <2>2 DEF Sampled
  <2>3. CASE ~prompt /\ bestOf[g] # 1
    <3>1. Sampled(g)
      BY <1>6, <2>3 DEF QueueInv, SampledBefore
    <3>2. QED
      BY <1>5, <1>14, <3>1 DEF Sampled
  <2>4. bestOf[g] \in 1 .. 2
    BY <1>6 DEF QueueInv, SchedulerTypeOK
  <2>5. QED
    BY <2>1, <2>2, <2>3, <2>4
<1>17. Members(g) # {} /\ Members(g)' # {}
  BY <1>7, <1>14
<1>18. /\ Unprocessed = batch /\ Unprocessed' = Tail(batch)
       /\ ToSet(Tail(batch)) = ToSet(batch) \ {g}
       /\ g \notin ToSet(waiting) \union ToSet(swapped) \union ToSet(todo)
                      \union ToSet(preempted) \union ToSet(swappedOut)
  BY <1>5, <1>6 DEF Unprocessed, Names, QueueInv, QueuesApart
<1>19. SchedulerTypeOK'
  BY <1>5, <1>10, <1>12 DEF QueueInv, SchedulerTypeOK
<1>20. PhaseShape'
  BY <1>5 DEF QueueInv, PhaseShape
<1>21. QueuesApart'
  BY <1>5 DEF QueueInv, QueuesApart
<1>22. StatusTold'
  BY <1>5, <1>6, <1>13, <1>15, <1>18 DEF QueueInv, StatusTold, Untouched
<1>23. SampledBefore'
  BY <1>5, <1>6, <1>13, <1>16, <1>18 DEF QueueInv, SampledBefore, Untouched
<1>24. InOrder'
  <2>1. \A a, b \in Group : b < a /\ Members(a)' # {} => Members(b)' # {}
    BY <1>13, <1>17 DEF QueueInv, InOrder, Untouched
  <2>2. QED
    BY <1>5, <2>1 DEF QueueInv, InOrder
<1>25. QED
  BY <1>19, <1>20, <1>21, <1>22, <1>23, <1>24 DEF QueueInv

LEMMA InitQueues == Init => QueueInv
<1> SUFFICES ASSUME Init PROVE QueueInv
  OBVIOUS
<1>1. Names(<< >>, {}) /\ Rises(<< >>) /\ Falls(<< >>)
  BY EmptyNames
<1>2. /\ bestOf \in BestOfs /\ promptLen \in PromptLens
      /\ status = [s \in Seqs |-> "none"] /\ len = [s \in Seqs |-> 0]
      /\ waiting = << >> /\ running = << >> /\ swapped = << >>
      /\ phase = "idle" /\ todo = << >> /\ appending = << >> /\ batch = << >>
      /\ preempted = << >> /\ swappedOut = << >> /\ prompt = FALSE /\ emitted = FALSE
  BY DEF Init
<1>3. \A g : Members(g) = {} /\ UnfinishedSeqs(g) = {}
  BY <1>2 DEF Members, UnfinishedSeqs
<1>4. SchedulerTypeOK
  <2>1. bestOf \in [Group -> 1 .. 2] /\ promptLen \in [Group -> Nat \ {0}]
    BY <1>2, SchedulerAssumption DEF SchedulerAssumption
  <2>2. << >> \in Seq(Group) /\ << >> \in Seq(Seqs)
    OBVIOUS
  <2>3. status \in [Seqs -> Statuses] /\ len \in [Seqs -> Nat]
    BY <1>2 DEF Statuses
  <2>4. QED
    BY <1>2, <2>1, <2>2, <2>3 DEF SchedulerTypeOK, Phases
<1>5. PhaseShape
  BY <1>2 DEF PhaseShape
<1>6. QueuesApart
  BY <1>1, <1>2 DEF QueuesApart, Names
<1>7. Unprocessed = << >>
  BY <1>2 DEF Unprocessed
<1>8. StatusTold
  BY <1>1, <1>2, <1>3, <1>7 DEF StatusTold, Names, IsFinished
<1>9. SampledBefore
  BY <1>1, <1>2 DEF SampledBefore, Names
<1>10. InOrder
  BY <1>1, <1>2, <1>3 DEF InOrder, Names
<1>11. QED
  BY <1>4, <1>5, <1>6, <1>8, <1>9, <1>10 DEF QueueInv

LEMMA NextQueues == QueueInv /\ [Next]_vars => QueueInv'
<1> SUFFICES ASSUME QueueInv, [Next]_vars PROVE QueueInv'
  OBVIOUS
<1>1. CASE \E g \in Group : AddRequest(g) \/ AbortRequest(g)
  BY <1>1, AddRequestKeeps, AbortRequestKeeps
<1>2. CASE BeginStep \/ Ignore \/ Admit \/ EndPrefill
  BY <1>2, BeginStepKeeps, IgnoreKeeps, AdmitKeeps, EndPrefillKeeps
<1>3. CASE ScheduleDecode \/ AppendSlot \/ PreemptByRecompute \/ PreemptBySwap \/ EndRunning
  BY <1>3, ScheduleDecodeKeeps, AppendSlotKeeps, PreemptByRecomputeKeeps,
     PreemptBySwapKeeps, EndRunningKeeps
<1>4. CASE ScheduleSwapped \/ LackSwapSpace \/ FailSwapIn \/ EndSwapped
  BY <1>4, ScheduleSwappedKeeps, StopKeeps
<1>5. CASE Close \/ ProcessOutput \/ FreeFinished \/ EndStep
  BY <1>5, CloseKeeps, ProcessOutputKeeps, FreeFinishedKeeps, EndStepKeeps
<1>6. CASE UNCHANGED vars
  <2>1. UNCHANGED <<waiting, running, swapped, todo, preempted, swappedOut, bestOf, promptLen,
                    status, len, phase, appending, batch, prompt, emitted>>
    BY <1>6 DEF vars, queueVars, seqVars
  <2>2. UNCHANGED <<queueVars, seqVars, appending, batch, emitted>>
    BY <1>6 DEF vars
  <2>3. PhaseShape'
    BY <2>1 DEF QueueInv, PhaseShape
  <2>4. phase' \in Phases /\ prompt' \in BOOLEAN
    BY <2>1 DEF QueueInv, SchedulerTypeOK
  <2>5. QED
    BY <2>1, <2>2, <2>3, <2>4, PhaseMovesOn
<1>7. QED
  BY <1>1, <1>2, <1>3, <1>4, <1>5, <1>6 DEF Next, EngineStep

LEMMA QueuesSoundNow == QueueInv => QueuesSound
<1> SUFFICES ASSUME QueueInv PROVE QueuesSound
  OBVIOUS
<1> DEFINE unfinished == {g \in Group : UnfinishedSeqs(g) # {}}
<1>1. PICK last : last = Scheduled
  OBVIOUS
<1>2. /\ Names(last, ToSet(last))
      /\ last = IF phase \in {"output", "refused"} THEN << >> ELSE batch
  BY <1>1, QueueTypes, EmptyNames DEF Scheduled, QueueInv, Names
<1>3. /\ ToSet(last) \subseteq ToSet(batch)
      /\ ToSet(last) \intersect ToSet(running) = {}
      /\ ToSet(batch) \subseteq ToSet(last) \union ToSet(running)
  BY <1>2, EmptyNames DEF QueueInv, QueuesApart, Names
<1>4. Names(todo \o preempted, ToSet(todo) \union ToSet(preempted))
  BY QueueTypes, ConcatNames DEF QueueInv, QueuesApart, Names
<1>5. Names(todo \o preempted \o swappedOut,
            ToSet(todo) \union ToSet(preempted) \union ToSet(swappedOut))
  BY <1>4, QueueTypes, ConcatNames DEF QueueInv, QueuesApart, Names
<1>6. Names(InHand, ToSet(todo) \union ToSet(preempted) \union ToSet(swappedOut) \union ToSet(last))
  <2>1. PICK q : q = todo \o preempted \o swappedOut
    OBVIOUS
  <2>2. Names(q, ToSet(todo) \union ToSet(preempted) \union ToSet(swappedOut))
    BY <1>5, <2>1
  <2>3. ToSet(q) \intersect ToSet(last) = {}
    BY <1>3, <2>2 DEF QueueInv, QueuesApart, Names
  <2>4. Names(q \o last, ToSet(q) \union ToSet(last))
    BY <1>2, <2>2, <2>3, ConcatNames DEF Names
  <2>5. QED
    BY <1>1, <2>1, <2>2, <2>4 DEF InHand, Names
<1>7. Names(waiting \o running, ToSet(waiting) \union ToSet(running))
  BY QueueTypes, ConcatNames DEF QueueInv, QueuesApart, Names
<1>8. Names(waiting \o running \o swapped,
            ToSet(waiting) \union ToSet(running) \union ToSet(swapped))
  BY <1>7, QueueTypes, ConcatNames DEF QueueInv, QueuesApart, Names
<1>9. /\ Names(Queued, ToSet(Queued))
      /\ ToSet(Queued) = ToSet(waiting) \union ToSet(running) \union ToSet(swapped)
                           \union ToSet(InHand)
  <2>1. (ToSet(waiting) \union ToSet(running) \union ToSet(swapped)) \intersect ToSet(InHand) = {}
    BY <1>3, <1>6 DEF QueueInv, QueuesApart, Names
  <2>2. QED
    BY <1>6, <1>8, <2>1, ConcatNames DEF Names, Queued
<1>10. unfinished \subseteq ToSet(Queued)
  BY <1>3, <1>6, <1>9 DEF QueueInv, StatusTold, IsFinished, Names
<1>11. phase = "idle" => ToSet(Queued) \subseteq unfinished
  <2> SUFFICES ASSUME phase = "idle", NEW g \in ToSet(Queued)
               PROVE  g \in Group /\ UnfinishedSeqs(g) # {}
    OBVIOUS
  <2>1. g \in ToSet(waiting) \union ToSet(running) \union ToSet(swapped)
    BY <1>3, <1>6, <1>9, EmptyQueues DEF QueueInv, Names
  <2>2. g \in Group
    BY <2>1, QueueTypes DEF QueueInv
  <2>3. g \in ToSet(waiting) => UnfinishedSeqs(g) # {}
    BY DEF QueueInv, StatusTold, OneWaiting
  <2>4. g \in ToSet(running) => UnfinishedSeqs(g) # {}
    BY DEF QueueInv, StatusTold, IsFinished
  <2>5. g \in ToSet(swapped) => UnfinishedSeqs(g) # {}
    BY DEF QueueInv, StatusTold, SeveralSwapped
  <2>6. QED
    BY <2>1, <2>2, <2>3, <2>4, <2>5
<1>12. OneQueue
  BY <1>9, <1>10, <1>11 DEF OneQueue, Names
<1>13. \A g \in ToSet(waiting) :
         Cardinality(UnfinishedSeqs(g)) = 1 /\ UnfinishedSeqs(g) = WithStatus(g, "waiting")
  <2> SUFFICES ASSUME NEW g \in ToSet(waiting)
               PROVE  /\ Cardinality(UnfinishedSeqs(g)) = 1
                      /\ UnfinishedSeqs(g) = WithStatus(g, "waiting")
    OBVIOUS
  <2>1. UnfinishedSeqs(g) = {WaitingSeq(g)} /\ WithStatus(g, "waiting") = {WaitingSeq(g)}
    BY TheWaitingSeq DEF QueueInv, StatusTold
  <2>2. QED
    BY <2>1, FS_Singleton
<1>14. QueueTellsStatus
  BY <1>13 DEF QueueTellsStatus, QueueInv, StatusTold, AllRunning, SeveralSwapped
<1>15. QED
  BY <1>12, <1>14 DEF QueuesSound

LEMMA OrderNow == QueueInv => FirstComeFirstServed /\ YoungestPreempted
<1> SUFFICES ASSUME QueueInv PROVE FirstComeFirstServed /\ YoungestPreempted
  OBVIOUS
<1>1. /\ ToSet(running \o todo) = ToSet(running) \union ToSet(todo)
      /\ ToSet(batch \o todo) = ToSet(batch) \union ToSet(todo)
      /\ ToSet(preempted \o swappedOut) = ToSet(preempted) \union ToSet(swappedOut)
  BY ConcatNames DEF QueueInv, SchedulerTypeOK
<1>2. FirstComeFirstServed
  BY <1>1 DEF FirstComeFirstServed, QueueInv, InOrder
<1>3. YoungestPreempted
  BY <1>1 DEF YoungestPreempted, QueueInv, InOrder
<1>4. QED
  BY <1>2, <1>3

(* The strengthened invariant holds of the engine for any requests, samples,  *)
(* lengths, devices and limits.                                            *)
THEOREM QueuesInvariant == Spec => []QueueInv
<1>1. QED
  BY InitQueues, NextQueues, PTL DEF Spec

(* Preemption, swapping, admission and abortion lose no group and double     *)
(* none, and the queue of a group tells the status of its sequences.       *)
THEOREM GroupsAreInOneQueue == Spec => []QueuesSound
BY QueuesInvariant, QueuesSoundNow, PTL

(* "We assume it is sorted": the waiting queue is, and what runs came before  *)
(* what waits.                                                             *)
THEOREM WaitingStaysSorted == Spec => []FirstComeFirstServed
BY QueuesInvariant, OrderNow, PTL

(* Only groups younger than all that are still decoded give way. *)
THEOREM YoungestGiveWay == Spec => []YoungestPreempted
BY QueuesInvariant, OrderNow, PTL

-----------------------------------------------------------------------------
(* What the allocator hands out, and how many blocks a number of tokens      *)
(* takes.                                                                  *)
LEMMA FreeCount ==
  ASSUME NEW pool \in {GpuBlocks, CpuBlocks}
  PROVE  IsFiniteSet(free \intersect pool) /\ NumFree(pool) \in Nat
<1>1. IsFiniteSet(pool)
  BY SchedulerAssumption DEF SchedulerAssumption
<1>2. IsFiniteSet(free \intersect pool)
  BY <1>1, FS_Subset
<1>3. QED
  BY <1>2, FS_CardinalityType DEF NumFree

(* A set as large as another one holds a copy of it. *)
LEMMA CopyExists ==
  ASSUME NEW S, NEW T, IsFiniteSet(S), IsFiniteSet(T), Cardinality(S) <= Cardinality(T)
  PROVE  \E f \in [S -> T] : IsInjection(f)
<1>1. PICK m : m = Cardinality(S)
  OBVIOUS
<1>2. PICK n : n = Cardinality(T)
  OBVIOUS
<1>3. m \in Nat /\ n \in Nat /\ m <= n
  BY <1>1, <1>2, FS_CardinalityType
<1>4. PICK a : a \in Bijection(1 .. m, S)
  BY <1>1, FS_CardinalityType DEF ExistsBijection
<1>5. PICK b : b \in Bijection(1 .. n, T)
  BY <1>2, FS_CardinalityType DEF ExistsBijection
<1>6. a \in [1 .. m -> S] /\ \A x \in S : \E k \in 1 .. m : a[k] = x
  BY <1>4 DEF Bijection, Surjection
<1>7. b \in [1 .. n -> T] /\ \A j, k \in 1 .. n : b[j] = b[k] => j = k
  BY <1>5 DEF Bijection, Injection, IsInjective
<1> DEFINE at == [x \in S |-> CHOOSE k \in 1 .. m : a[k] = x]
<1>8. \A x \in S : at[x] \in 1 .. m /\ a[at[x]] = x
  BY <1>6
<1> HIDE DEF at
<1>9. \A x \in S : at[x] \in 1 .. n
  BY <1>3, <1>8
<1> DEFINE f == [x \in S |-> b[at[x]]]
<1>10. f \in [S -> T]
  BY <1>7, <1>9
<1>11. \A x, y \in S : f[x] = f[y] => x = y
  <2> SUFFICES ASSUME NEW x \in S, NEW y \in S, f[x] = f[y] PROVE x = y
    OBVIOUS
  <2>1. at[x] = at[y]
    BY <1>7, <1>9
  <2>2. QED
    BY <1>8, <2>1
<1>12. IsInjection(f)
  BY <1>10, <1>11 DEF IsInjection
<1>13. QED
  BY <1>10, <1>12

LEMMA PickIs ==
  ASSUME NEW pool \in {GpuBlocks, CpuBlocks}, NEW n \in Nat, n <= NumFree(pool)
  PROVE  Pick(n, pool) \in [1 .. n -> free \intersect pool] /\ IsInjection(Pick(n, pool))
<1>1. PICK T : T = free \intersect pool
  OBVIOUS
<1>2. IsFiniteSet(T) /\ n <= Cardinality(T)
  BY <1>1, FreeCount DEF NumFree
<1>3. IsFiniteSet(1 .. n) /\ Cardinality(1 .. n) = n
  <2>1. IsFiniteSet(1 .. n) /\ Cardinality(1 .. n) = IF 1 > n THEN 0 ELSE n - 1 + 1
    BY FS_Interval
  <2>2. QED
    BY <2>1
<1>4. PICK I : I = 1 .. n
  OBVIOUS
<1>5. \E f \in [I -> T] : IsInjection(f)
  BY <1>2, <1>3, <1>4, CopyExists
<1>6. \E f \in [1 .. n -> free \intersect pool] : IsInjection(f)
  BY <1>1, <1>4, <1>5
<1>7. QED
  BY <1>6, Zenon DEF Pick

LEMMA HeldFinite ==
  ASSUME BlockTypeOK, NEW S \in SUBSET Seqs
  PROVE  HeldBy(S) \subseteq Block /\ IsFiniteSet(HeldBy(S)) /\ Cardinality(HeldBy(S)) \in Nat
<1>1. HeldBy(S) \subseteq Block
  BY HeldInBlocks DEF HeldBy
<1>2. IsFiniteSet(Block)
  BY SchedulerAssumption, FS_Union DEF SchedulerAssumption, Block
<1>3. QED
  BY <1>1, <1>2, FS_Subset, FS_CardinalityType

LEMMA NewPlacesAre ==
  ASSUME BlockTypeOK, NEW S \in SUBSET Seqs, NEW pool \in {GpuBlocks, CpuBlocks},
         Cardinality(HeldBy(S)) <= NumFree(pool)
  PROVE  /\ NewPlaces(S, pool) \in [HeldBy(S) -> free \intersect pool]
         /\ IsInjection(NewPlaces(S, pool))
<1>1. PICK T : T = free \intersect pool
  OBVIOUS
<1>2. PICK H : H = HeldBy(S)
  OBVIOUS
<1>3. IsFiniteSet(T) /\ IsFiniteSet(H) /\ Cardinality(H) <= Cardinality(T)
  BY <1>1, <1>2, FreeCount, HeldFinite DEF NumFree
<1>4. \E f \in [H -> T] : IsInjection(f)
  BY <1>3, CopyExists
<1>5. \E f \in [HeldBy(S) -> free \intersect pool] : IsInjection(f)
  BY <1>1, <1>2, <1>4
<1>6. QED
  BY <1>5, Zenon DEF NewPlaces

LEMMA BlocksOfTokens ==
  ASSUME NEW n \in Nat
  PROVE  /\ Blocks(n) \in Nat
         /\ n # 0 => Blocks(n) >= 1
         /\ n # 0 => Blocks(n) = Blocks(n - 1) \/ Blocks(n) = Blocks(n - 1) + 1
<1>1. BlockSize \in Nat /\ BlockSize >= 1
  BY SchedulerAssumption DEF SchedulerAssumption
<1>2. \A m \in Nat : m \div BlockSize \in Nat
  BY <1>1
<1>3. QED
  BY <1>1, <1>2 DEF Blocks

-----------------------------------------------------------------------------
(* The blocks: what each step does to the tables of the one group it is       *)
(* about, and that other groups are left alone.                            *)
BlocksStep == BlocksHeldInv' /\ (UNCHANGED blockVars \/ BlockNext)

(* A sequence of the invariant: its table is a sequence of blocks, none of    *)
(* them free; what is computed or swapped has one.                         *)
LEMMA TableOf ==
  ASSUME BlockInv, NEW s \in Seqs
  PROVE  /\ table[s] \in Seq(Block) /\ Len(table[s]) \in Nat
         /\ DOMAIN table[s] = 1 .. Len(table[s])
         /\ table[s] = << >> <=> Len(table[s]) = 0
         /\ table[s] = << >> => Held(s) = {}
         /\ table[s] # << >> => LastBlock(s) \in Held(s)
         /\ Held(s) \subseteq Block /\ Held(s) \intersect free = {}
<1>1. table[s] \in Seq(Block)
  BY DEF BlockInv, BlockTypeOK
<1>2. /\ Len(table[s]) \in Nat /\ DOMAIN table[s] = 1 .. Len(table[s])
      /\ table[s] = << >> <=> Len(table[s]) = 0
  BY <1>1
<1>3. table[s] # << >> => LastBlock(s) \in Held(s)
  BY <1>2 DEF LastBlock, Held, Entries
<1>4. table[s] = << >> => Held(s) = {}
  BY <1>2 DEF Held, Entries
<1>5. Held(s) \subseteq Block
  BY HeldInBlocks DEF BlockInv
<1>6. Held(s) \intersect free = {}
  BY BlockAssumption, InvImpliesInUseNotFree DEF InUseNotFree
<1>7. QED
  BY <1>1, <1>2, <1>3, <1>4, <1>5, <1>6

(* The blocks of a group. *)
BlocksOf(g) == UNION {Held(s) : s \in {q \in Seqs : q[1] = g}}

LEMMA GroupStep ==
  ASSUME BlocksHeldInv, BlockInv', NEW g,
         \A q \in Seqs : q[1] # g => /\ table'[q] = table[q]
                                     /\ status'[q] = status[q] /\ len'[q] = len[q],
         \A q \in Seqs : q[1] = g => /\ Held(q)' \subseteq BlocksOf(g) \union free
                                     /\ TableTold(q)' /\ SlotsTold(q)',
         \A h : h # g => (h \in ToSet(Unprocessed)' <=> h \in ToSet(Unprocessed)),
         appending = << >>, \A s \in ToSet(appending') : s[1] = g,
         emitted => Head(batch) = g,
         AppendingTold', NeverOutOfBlocks'
  PROVE  BlocksHeldInv'
<1>1. BlockInv /\ GroupsShareNothing /\ \A s \in Seqs : TableTold(s) /\ SlotsTold(s)
  BY DEF BlocksHeldInv
<1>2. ASSUME NEW q \in Seqs, q[1] # g
      PROVE  /\ Held(q)' = Held(q)
             /\ Held(q) \intersect BlocksOf(g) = {} /\ Held(q) \intersect free = {}
  <2>1. Held(q)' = Held(q)
    BY <1>2 DEF Held
  <2>2. Held(q) \intersect BlocksOf(g) = {}
    BY <1>1, <1>2 DEF GroupsShareNothing, BlocksOf
  <2>3. Held(q) \intersect free = {}
    BY <1>1, TableOf
  <2>4. QED
    BY <2>1, <2>2, <2>3
<1>3. ASSUME NEW q \in Seqs, q[1] # g
      PROVE  TableTold(q)'
  <2>1. TableTold(q)
    BY <1>1
  <2>2. Held(q)' = Held(q) /\ table'[q] = table[q] /\ status'[q] = status[q] /\ len'[q] = len[q]
    BY <1>2, <1>3
  <2>3. status[q] = "finished" => table[q] = << >>
    BY <1>3, <2>1 DEF TableTold
  <2>4. QED
    BY <2>1, <2>2, <2>3 DEF TableTold, OnDevice
<1>4. ASSUME NEW q \in Seqs, q[1] # g, NEW c \in Held(q)
      PROVE  Holders(c)' = Holders(c)
  <2>1. ASSUME NEW t \in Seqs PROVE c \in Held(t)' <=> c \in Held(t)
    <3>1. CASE t[1] # g
      BY <1>2, <3>1
    <3>2. CASE t[1] = g
      <4>1. c \notin Held(t)
        BY <1>1, <1>4, <3>2 DEF GroupsShareNothing
      <4>2. c \notin BlocksOf(g) \union free
        BY <1>2, <1>4
      <4>3. QED
        BY <3>2, <4>1, <4>2
    <3>3. QED
      BY <3>1, <3>2
  <2>2. QED
    BY <2>1 DEF Holders
<1>5. ASSUME NEW q \in Seqs, q[1] # g
      PROVE  SlotsTold(q)'
  <2>1. SlotsTold(q) /\ TableTold(q)
    BY <1>1
  <2>2. table'[q] = table[q] /\ status'[q] = status[q] /\ len'[q] = len[q]
    BY <1>5
  <2>3. HasSlots(q)' <=> HasSlots(q)
    <3>1. q \notin ToSet(appending) /\ q \notin ToSet(appending')
      BY <1>5, EmptyNames DEF Names
    <3>2. QED
      BY <1>5, <3>1 DEF HasSlots
  <2>4. LastBlock(q)' = LastBlock(q)
    BY <2>2 DEF LastBlock
  <2>5. status[q] \in {"running", "swapped"} => Holders(LastBlock(q))' = Holders(LastBlock(q))
    <3> SUFFICES ASSUME status[q] \in {"running", "swapped"}
                 PROVE  Holders(LastBlock(q))' = Holders(LastBlock(q))
      OBVIOUS
    <3>1. table[q] # << >>
      BY <2>1 DEF TableTold, OnDevice
    <3>2. LastBlock(q) \in Held(q)
      BY <1>1, <3>1, TableOf
    <3>3. PICK c : c = LastBlock(q)
      OBVIOUS
    <3>4. Holders(c)' = Holders(c)
      BY <1>4, <1>5, <3>2, <3>3
    <3>5. QED
      BY <2>4, <3>3, <3>4 DEF Holders
  <2>6. QED
    BY <2>1, <2>2, <2>3, <2>4, <2>5 DEF SlotsTold, Blocks
<1>6. GroupsShareNothing'
  <2> SUFFICES ASSUME NEW s \in Seqs, NEW t \in Seqs, s[1] # t[1]
               PROVE  Held(s)' \intersect Held(t)' = {}
    BY DEF GroupsShareNothing
  <2>1. CASE s[1] # g /\ t[1] # g
    BY <1>1, <1>2, <2>1 DEF GroupsShareNothing
  <2>2. CASE s[1] = g
    BY <1>2, <2>2
  <2>3. CASE t[1] = g
    BY <1>2, <2>3
  <2>4. QED
    BY <2>1, <2>2, <2>3
<1>7. QED
  BY <1>3, <1>5, <1>6 DEF BlocksHeldInv

(* No group that appends, nothing to run out of. *)
LEMMA NothingToAppend ==
  ASSUME appending = << >>
  PROVE  /\ AppendingTold
         /\ NumFree(GpuBlocks) \in Nat => NeverOutOfBlocks
<1>1. ToSet(appending) = {}
  BY EmptyNames DEF Names
<1>2. AppendingTold
  BY <1>1 DEF AppendingTold, IsInjection
<1>3. {s \in ToSet(appending) : NeedsBlock(s)} = {}
  BY <1>1
<1>4. Cardinality({s \in ToSet(appending) : NeedsBlock(s)}) = 0
  BY <1>3, FS_EmptySet
<1>5. QED
  BY <1>2, <1>4 DEF NeverOutOfBlocks

LEMMA FreeCountNext ==
  NumFree(GpuBlocks)' \in Nat
<1>1. IsFiniteSet(GpuBlocks)
  BY SchedulerAssumption DEF SchedulerAssumption
<1>2. IsFiniteSet(free' \intersect GpuBlocks)
  BY <1>1, FS_Subset
<1>3. QED
  BY <1>2, FS_CardinalityType DEF NumFree

LEMMA NothingToAppendNext ==
  ASSUME appending' = << >>
  PROVE  AppendingTold' /\ NeverOutOfBlocks' /\ \A g : \A s \in ToSet(appending') : s[1] = g
<1>1. ToSet(appending') = {}
  BY EmptyNames DEF Names
<1>2. AppendingTold'
  BY <1>1 DEF AppendingTold, IsInjection
<1>3. {s \in ToSet(appending') : NeedsBlock(s)'} = {}
  BY <1>1
<1>4. Cardinality({s \in ToSet(appending') : NeedsBlock(s)'}) = 0
  BY <1>3, FS_EmptySet
<1>5. QED
  BY <1>1, <1>2, <1>4, FreeCountNext DEF NeverOutOfBlocks

(* Steps that move groups from list to list. *)
LEMMA BlocksStay ==
  ASSUME BlocksHeldInv,
         UNCHANGED <<blockVars, status, len, appending, batch, emitted>>
  PROVE  BlocksStep
<1>1. /\ BlockInv /\ GroupsShareNothing /\ AppendingTold /\ NeverOutOfBlocks
      /\ \A s \in Seqs : TableTold(s) /\ SlotsTold(s)
  BY DEF BlocksHeldInv
<1>2. BlockInv'
  BY <1>1, StutterKeeps
<1>3. UNCHANGED <<free, ref, table>>
  BY DEF blockVars
<1>4. \A s \in Seqs : TableTold(s)'
  BY <1>1, <1>3 DEF TableTold, OnDevice, Held
<1>5. \A s \in Seqs : SlotsTold(s)'
  BY <1>1, <1>3 DEF SlotsTold, HasSlots, Unprocessed, LastBlock, Holders, Held
<1>6. GroupsShareNothing' /\ AppendingTold'
  BY <1>1, <1>3 DEF GroupsShareNothing, AppendingTold, Held
<1>7. NeverOutOfBlocks'
  BY <1>1, <1>3 DEF NeverOutOfBlocks, NeedsBlock, LogicalBlocks, NumFree, LastBlock
<1>8. QED
  BY <1>2, <1>4, <1>5, <1>6, <1>7 DEF BlocksHeldInv, BlocksStep

(* What free_seq does to the tables of a set of sequences. *)
LEMMA ReleaseIs ==
  ASSUME BlockInv, NEW S \in SUBSET Seqs, Release(S)
  PROVE  /\ BlockInv' /\ BlockNext
         /\ \A q \in Seqs : table'[q] = IF q \in S THEN << >> ELSE table[q]
         /\ \A q \in Seqs : Held(q)' \subseteq Held(q)
<1>1. BlockInv'
  BY BlockAssumption, ReleaseKeeps
<1>2. \A q \in Seqs : table'[q] = IF q \in S THEN << >> ELSE table[q]
  BY DEF Release
<1>3. \A q \in Seqs : Held(q)' \subseteq Held(q)
  BY <1>2 DEF Held, Entries
<1>4. PICK T : T = {s \in S : table[s] # << >>}
  OBVIOUS
<1>5. \A s \in S : s \notin T => Held(s) = {}
  BY <1>4, TableOf
<1>6. \A b : Holders(b) \intersect T = Holders(b) \intersect S
  BY <1>4, <1>5 DEF Holders
<1>7. \A b : Without(T, b) = Without(S, b)
  BY <1>6 DEF Without
<1>8. HeldBy(T) = HeldBy(S)
  BY <1>4, <1>5 DEF HeldBy
<1>9. Release(T)
  <2>1. table' = [s \in Seqs |-> IF s \in T THEN << >> ELSE table[s]]
    BY <1>4 DEF Release
  <2>2. ref' = [b \in Block |-> Without(T, b)]
    BY <1>7 DEF Release
  <2>3. free' = free \union {b \in HeldBy(T) : Without(T, b) = 0}
    BY <1>7, <1>8 DEF Release
  <2>4. QED
    BY <2>1, <2>2, <2>3 DEF Release
<1>10. T \in SUBSET {s \in Seqs : table[s] # << >>}
  BY <1>4
<1>11. BlockNext
  BY <1>9, <1>10 DEF BlockNext, CallRelease
<1>12. QED
  BY <1>1, <1>2, <1>3, <1>11

(* And what swapping does: as many blocks, all new, on the other device. *)
LEMMA MoveIs ==
  ASSUME BlockInv, NEW S \in SUBSET Seqs, NEW pool \in {GpuBlocks, CpuBlocks},
         NEW mapping \in [HeldBy(S) -> free \intersect pool],
         Move(S, mapping, pool)
  PROVE  /\ BlockInv'
         /\ \A q \in Seqs \ S : table'[q] = table[q] /\ Held(q)' = Held(q)
         /\ \A q \in S : /\ Len(table'[q]) = Len(table[q])
                         /\ table[q] # << >> => table'[q] # << >>
                         /\ Held(q)' \subseteq free \intersect pool
<1>1. BlockInv'
  BY BlockAssumption, MoveKeeps
<1>2. \A q \in Seqs \ S : table'[q] = table[q] /\ Held(q)' = Held(q)
  BY DEF Move, Held
<1>3. ASSUME NEW q \in S
      PROVE  /\ Len(table'[q]) = Len(table[q])
             /\ table[q] # << >> => table'[q] # << >>
             /\ Held(q)' \subseteq free \intersect pool
  <2>1. table'[q] = [k \in DOMAIN table[q] |-> mapping[table[q][k]]]
    BY DEF Move
  <2>2. /\ table[q] \in Seq(Block) /\ DOMAIN table[q] = 1 .. Len(table[q])
        /\ Len(table[q]) \in Nat /\ table[q] = << >> <=> Len(table[q]) = 0
    BY TableOf
  <2>3. table'[q] \in Seq(Block) /\ Len(table'[q]) \in Nat /\ DOMAIN table'[q] = 1 .. Len(table'[q])
    BY <1>1 DEF BlockInv, BlockTypeOK
  <2>4. DOMAIN table'[q] = 1 .. Len(table[q])
    BY <2>1, <2>2
  <2>5. Len(table'[q]) = Len(table[q])
    BY <2>2, <2>3, <2>4
  <2>6. table[q] # << >> => table'[q] # << >>
    BY <2>2, <2>3, <2>5
  <2>7. ASSUME NEW k \in DOMAIN table[q] PROVE mapping[table[q][k]] \in free \intersect pool
    <3>1. table[q][k] \in HeldBy(S)
      BY DEF HeldBy, Held, Entries
    <3>2. QED
      BY <3>1
  <2>8. Held(q)' \subseteq free \intersect pool
    BY <2>1, <2>7 DEF Held, Entries
  <2>9. QED
    BY <2>5, <2>6, <2>8
<1>4. QED
  BY <1>1, <1>2, <1>3

(* Where blocks are neither appended to nor freed after an output. *)
LEMMA QuietPhase ==
  ASSUME QueueInv, phase \in {"idle", "prefill", "close"}
  PROVE  appending = << >> /\ ~emitted /\ Unprocessed = batch
BY DEF QueueInv, PhaseShape, Unprocessed

LEMMA ListsMoveBlocks ==
  ASSUME BlocksHeldInv,
         BeginStep \/ EndPrefill \/ EndRunning \/ EndSwapped \/ Close
           \/ LackSwapSpace \/ FailSwapIn \/ EndStep \/ UNCHANGED vars
  PROVE  BlocksStep
<1>1. UNCHANGED <<blockVars, status, len, appending, batch, emitted>>
  BY DEF BeginStep, EndPrefill, EndRunning, EndSwapped, Close, LackSwapSpace, FailSwapIn,
         EndStep, seqVars, vars
<1>2. QED
  BY <1>1, BlocksStay

LEMMA AddRequestBlocks ==
  ASSUME QueueInv, BlocksHeldInv, NEW g \in Group, AddRequest(g)
  PROVE  BlocksStep
<1>1. PICK n : n = <<g, 1>>
  OBVIOUS
<1>2. /\ phase = "idle" /\ Members(g) = {}
      /\ status' = [status EXCEPT ![n] = "waiting"]
      /\ len' = [len EXCEPT ![n] = promptLen[g]]
      /\ UNCHANGED <<blockVars, appending, batch, emitted>>
      /\ UNCHANGED <<free, ref, table>>
  BY <1>1 DEF AddRequest, blockVars
<1>3. /\ appending = << >> /\ ~emitted
      /\ status \in [Seqs -> Statuses] /\ len \in [Seqs -> Nat] /\ promptLen[g] \in Nat \ {0}
  BY <1>2, QuietPhase DEF QueueInv, SchedulerTypeOK
<1>4. /\ BlockInv /\ BlockInv'
      /\ \A s \in Seqs : TableTold(s)
  BY <1>2, StutterKeeps DEF BlocksHeldInv
<1>5. \A q \in Seqs : q[1] = g => status[q] = "none"
  BY <1>2 DEF Members
<1>6. \A q \in Seqs : q # n => status'[q] = status[q] /\ len'[q] = len[q]
  BY <1>2, <1>3
<1>7. n \in Seqs => status'[n] = "waiting" /\ len'[n] = promptLen[g] /\ n[1] = g
  BY <1>1, <1>2, <1>3
<1>8. ASSUME NEW q \in Seqs, q[1] = g
      PROVE  /\ Held(q)' \subseteq BlocksOf(g) \union free
             /\ TableTold(q)' /\ SlotsTold(q)'
  <2>1. table[q] = << >> /\ table'[q] = << >>
    BY <1>2, <1>4, <1>5, <1>8 DEF TableTold
  <2>2. Held(q)' \subseteq BlocksOf(g)
    BY <1>2, <1>8 DEF Held, BlocksOf
  <2>3. status'[q] = "none" \/ (status'[q] = "waiting" /\ len'[q] >= 1)
    BY <1>3, <1>5, <1>6, <1>7, <1>8
  <2>4. QED
    BY <2>1, <2>2, <2>3 DEF TableTold, SlotsTold
<1>9. \A q \in Seqs : q[1] # g =>
        table'[q] = table[q] /\ status'[q] = status[q] /\ len'[q] = len[q]
  BY <1>1, <1>2, <1>6
<1>10. Unprocessed' = Unprocessed /\ appending' = << >>
  BY <1>2, <1>3 DEF Unprocessed
<1>11. AppendingTold' /\ NeverOutOfBlocks' /\ \A s \in ToSet(appending') : s[1] = g
  BY <1>10, NothingToAppendNext
<1>12. BlocksHeldInv'
  BY <1>3, <1>4, <1>8, <1>9, <1>10, <1>11, GroupStep
<1>13. QED
  BY <1>2, <1>12 DEF BlocksStep

LEMMA IgnoreBlocks ==
  ASSUME QueueInv, BlocksHeldInv, Ignore
  PROVE  BlocksStep
<1>1. PICK g : g = Head(waiting)
  OBVIOUS
<1>2. /\ phase = "prefill" /\ waiting # << >>
      /\ status' = SetStatus(WithStatus(g, "waiting"), "ignored")
      /\ UNCHANGED <<blockVars, len, appending, batch, emitted>>
      /\ UNCHANGED <<free, ref, table>>
  BY <1>1 DEF Ignore, blockVars
<1>3. /\ appending = << >> /\ ~emitted /\ BlockInv /\ BlockInv'
      /\ \A s \in Seqs : TableTold(s)
  BY <1>2, QuietPhase, StutterKeeps DEF BlocksHeldInv
<1>4. g \in ToSet(waiting)
  BY <1>1, <1>2, QueueTypes, TailNames DEF QueueInv, Names
<1>5. PICK S : S = WithStatus(g, "waiting")
  OBVIOUS
<1>6. OneWaiting(g) /\ S = UnfinishedSeqs(g)
  BY <1>4, <1>5, TheWaitingSeq DEF QueueInv, StatusTold
<1>7. \A q \in Seqs : status'[q] = IF q \in S THEN "ignored" ELSE status[q]
  BY <1>2, <1>5 DEF SetStatus
<1>8. \A q \in S : q \in Seqs /\ q[1] = g /\ status[q] = "waiting"
  BY <1>5 DEF WithStatus, Members
<1>9. ASSUME NEW q \in Seqs, q[1] = g
      PROVE  /\ Held(q)' \subseteq BlocksOf(g) \union free
             /\ TableTold(q)' /\ SlotsTold(q)'
  <2>1. status[q] \notin {"running", "swapped"}
    BY <1>6, <1>8, <1>9 DEF UnfinishedSeqs, Members, Unfinished
  <2>2. Held(q)' \subseteq BlocksOf(g)
    BY <1>2, <1>9 DEF Held, BlocksOf
  <2>3. TableTold(q)
    BY <1>3
  <2>4. CASE q \in S
    BY <1>2, <1>7, <1>8, <2>2, <2>3, <2>4 DEF TableTold, SlotsTold
  <2>5. CASE q \notin S
    BY <1>2, <1>3, <1>7, <2>1, <2>2, <2>3, <2>5 DEF TableTold, SlotsTold
  <2>6. QED
    BY <2>4, <2>5
<1>10. \A q \in Seqs : q[1] # g =>
         table'[q] = table[q] /\ status'[q] = status[q] /\ len'[q] = len[q]
  BY <1>2, <1>7, <1>8
<1>11. Unprocessed' = Unprocessed /\ appending' = << >>
  BY <1>2, <1>3 DEF Unprocessed
<1>12. AppendingTold' /\ NeverOutOfBlocks' /\ \A s \in ToSet(appending') : s[1] = g
  BY <1>11, NothingToAppendNext
<1>13. BlocksHeldInv'
  BY <1>3, <1>9, <1>10, <1>11, <1>12, GroupStep
<1>14. QED
  BY <1>2, <1>13 DEF BlocksStep

LEMMA AbortRequestBlocks ==
  ASSUME QueueInv, BlocksHeldInv, NEW g \in Group, AbortRequest(g)
  PROVE  BlocksStep
<1>1. PICK S : S = UnfinishedSeqs(g)
  OBVIOUS
<1>2. /\ phase = "idle" /\ Release(S) /\ status' = SetStatus(S, "aborted")
      /\ UNCHANGED <<len, appending, batch, emitted>>
  BY <1>1 DEF AbortRequest, FreeSeqs
<1>3. /\ appending = << >> /\ ~emitted /\ BlockInv
      /\ \A s \in Seqs : TableTold(s)
  BY <1>2, QuietPhase DEF BlocksHeldInv
<1>4. S \in SUBSET Seqs
  BY <1>1, SetsOfGroup
<1>5. /\ BlockInv' /\ BlockNext
      /\ \A q \in Seqs : table'[q] = IF q \in S THEN << >> ELSE table[q]
      /\ \A q \in Seqs : Held(q)' \subseteq Held(q)
  BY <1>2, <1>3, <1>4, ReleaseIs
<1>6. \A q \in Seqs : status'[q] = IF q \in S THEN "aborted" ELSE status[q]
  BY <1>2 DEF SetStatus
<1>7. \A q \in S : q \in Seqs /\ q[1] = g /\ status[q] # "none"
  BY <1>1 DEF UnfinishedSeqs, Members
<1>8. ASSUME NEW q \in Seqs, q[1] = g
      PROVE  /\ Held(q)' \subseteq BlocksOf(g) \union free
             /\ TableTold(q)' /\ SlotsTold(q)'
  <2>1. q \notin S => status[q] \notin {"running", "swapped"}
    BY <1>1, <1>8 DEF UnfinishedSeqs, Members, Unfinished
  <2>2. Held(q)' \subseteq BlocksOf(g)
    BY <1>5, <1>8 DEF BlocksOf
  <2>3. TableTold(q)
    BY <1>3
  <2>4. CASE q \in S
    BY <1>2, <1>5, <1>6, <1>7, <2>2, <2>3, <2>4 DEF TableTold, SlotsTold
  <2>5. CASE q \notin S
    BY <1>2, <1>3, <1>5, <1>6, <2>1, <2>2, <2>3, <2>5 DEF TableTold, SlotsTold
  <2>6. QED
    BY <2>4, <2>5
<1>9. \A q \in Seqs : q[1] # g =>
        table'[q] = table[q] /\ status'[q] = status[q] /\ len'[q] = len[q]
  BY <1>2, <1>5, <1>6, <1>7
<1>10. Unprocessed' = Unprocessed /\ appending' = << >>
  BY <1>2, <1>3 DEF Unprocessed
<1>11. AppendingTold' /\ NeverOutOfBlocks' /\ \A s \in ToSet(appending') : s[1] = g
  BY <1>10, NothingToAppendNext
<1>12. BlocksHeldInv'
  BY <1>3, <1>5, <1>8, <1>9, <1>10, <1>11, GroupStep
<1>13. QED
  BY <1>5, <1>12 DEF BlocksStep

(* A group has as many sequences as there are copies, at most, so the block   *)
(* manager can count them.                                                 *)
LEMMA MembersFit ==
  ASSUME NEW g \in Group
  PROVE  Cardinality(Members(g)) <= Copies /\ IsFiniteSet(Members(g))
<1>1. PICK K : K = 1 .. Copies
  OBVIOUS
<1>2. Copies \in Nat /\ Seqs = Group \X K
  BY <1>1, SchedulerAssumption DEF SchedulerAssumption
<1>3. IsFiniteSet(K) /\ Cardinality(K) = Copies
  <2>1. IsFiniteSet(1 .. Copies)
        /\ Cardinality(1 .. Copies) = IF 1 > Copies THEN 0 ELSE Copies - 1 + 1
    BY <1>2, FS_Interval
  <2>2. QED
    BY <1>1, <1>2, <2>1
<1> DEFINE number == [s \in Members(g) |-> s[2]]
<1>4. number \in Injection(Members(g), K)
  <2>1. \A s \in Members(g) : s \in Group \X K /\ s[1] = g
    BY <1>2 DEF Members
  <2>2. \A s, t \in Members(g) : s[2] = t[2] => s = t
    BY <2>1
  <2>3. number \in [Members(g) -> K]
    BY <2>1
  <2>4. QED
    BY <2>2, <2>3, Fun_IsInj
<1> HIDE DEF number
<1>5. QED
  BY <1>3, <1>4, FS_Injection

LEMMA MembersCounted ==
  ASSUME NEW g \in Group, Members(g) # {}
  PROVE  Cardinality(Members(g)) \in Counts
<1>1. Copies \in Nat /\ 1 .. Copies \subseteq Counts
  BY SchedulerAssumption DEF SchedulerAssumption
<1>2. Cardinality(Members(g)) <= Copies
  BY MembersFit
<1>3. Cardinality(Members(g)) \in Nat \ {0}
  BY SetsOfGroup, FS_EmptySet
<1>4. QED
  BY <1>1, <1>2, <1>3

(* The call of allocate for an admitted group: its one unfinished sequence    *)
(* has no table yet, and there are free blocks for all its tokens.         *)
LEMMA AdmitCall ==
  ASSUME QueueInv, BlocksHeldInv, Admit,
         NEW g, g = Head(waiting), NEW s, s = WaitingSeq(g),
         NEW n, n = LogicalBlocks(s), NEW t, t = Pick(n, GpuBlocks)
  PROVE  /\ g \in ToSet(waiting) /\ g \in Group
         /\ s \in Seqs /\ s[1] = g /\ UnfinishedSeqs(g) = {s} /\ status[s] = "waiting"
         /\ len[s] \in Nat /\ len[s] >= 1 /\ table[s] = << >>
         /\ n \in Nat /\ n >= 1 /\ NumFree(GpuBlocks) \in Nat /\ n <= NumFree(GpuBlocks)
         /\ t \in [1 .. n -> free \intersect GpuBlocks]
         /\ Cardinality(Members(g)) \in Counts
         /\ Allocate(s, t, Cardinality(Members(g)))
<1>1. waiting # << >> /\ CanAllocate(s) /\ Allocate(s, t, Cardinality(Members(g)))
  BY DEF Admit, Admissible
<1>2. \A q \in Seqs : TableTold(q) /\ len[q] \in Nat
  BY DEF BlocksHeldInv, QueueInv, SchedulerTypeOK
<1>3. g \in ToSet(waiting) /\ g \in Group
  BY <1>1, QueueTypes, TailNames DEF QueueInv, Names
<1>4. /\ s \in Seqs /\ s[1] = g /\ UnfinishedSeqs(g) = {s} /\ status[s] = "waiting"
  BY <1>3, TheWaitingSeq DEF QueueInv, StatusTold
<1>5. len[s] \in Nat /\ len[s] >= 1 /\ table[s] = << >>
  BY <1>2, <1>4 DEF TableTold
<1>6. n \in Nat /\ n >= 1
  BY <1>5, BlocksOfTokens DEF LogicalBlocks
<1>7. NumFree(GpuBlocks) \in Nat /\ n <= NumFree(GpuBlocks)
  <2>1. NumFree(GpuBlocks) \in Nat
    BY FreeCount
  <2>2. NumFree(GpuBlocks) - n >= Watermark /\ Watermark \in Nat
    BY <1>1, SchedulerAssumption DEF CanAllocate, SchedulerAssumption
  <2>3. QED
    BY <1>6, <2>1, <2>2
<1>8. t \in [1 .. n -> free \intersect GpuBlocks]
  BY <1>6, <1>7, PickIs
<1>9. Cardinality(Members(g)) \in Counts
  <2>1. Members(g) # {}
    BY <1>4, SetsOfGroup
  <2>2. QED
    BY <1>3, <2>1, MembersCounted
<1>10. QED
  BY <1>1, <1>3, <1>4, <1>5, <1>6, <1>7, <1>8, <1>9

LEMMA AdmitBlocks ==
  ASSUME QueueInv, BlocksHeldInv, Admit
  PROVE  BlocksStep
<1>1. PICK g : g = Head(waiting)
  OBVIOUS
<1>2. PICK s : s = WaitingSeq(g)
  OBVIOUS
<1>3. PICK n : n = LogicalBlocks(s)
  OBVIOUS
<1>4. PICK t : t = Pick(n, GpuBlocks)
  OBVIOUS
<1>5. PICK count : count = Cardinality(Members(g))
  OBVIOUS
<1>6. /\ phase = "prefill" /\ waiting # << >> /\ Allocate(s, t, count)
      /\ status' = [status EXCEPT ![s] = "running"] /\ batch' = Append(batch, g)
      /\ UNCHANGED <<len, appending, emitted>>
  BY <1>1, <1>2, <1>3, <1>4, <1>5 DEF Admit
<1>7. /\ appending = << >> /\ ~emitted /\ Unprocessed = batch /\ BlockInv
      /\ \A q \in Seqs : TableTold(q)
      /\ status \in [Seqs -> Statuses] /\ len \in [Seqs -> Nat]
  BY <1>6, QuietPhase DEF BlocksHeldInv, QueueInv, SchedulerTypeOK
<1>8. g \in ToSet(waiting) /\ g \in Group
  BY <1>1, <1>2, <1>3, <1>4, AdmitCall
<1>9. /\ s \in Seqs /\ s[1] = g /\ UnfinishedSeqs(g) = {s} /\ status[s] = "waiting"
  BY <1>1, <1>2, <1>3, <1>4, AdmitCall
<1>10. len[s] \in Nat /\ len[s] >= 1 /\ table[s] = << >>
  BY <1>1, <1>2, <1>3, <1>4, AdmitCall
<1>11. n \in Nat /\ n >= 1
  BY <1>1, <1>2, <1>3, <1>4, AdmitCall
<1>12. NumFree(GpuBlocks) \in Nat /\ n <= NumFree(GpuBlocks)
  BY <1>1, <1>2, <1>3, <1>4, AdmitCall
<1>13. t \in [1 .. n -> free \intersect GpuBlocks]
  BY <1>1, <1>2, <1>3, <1>4, AdmitCall
<1>14. count \in Counts
  BY <1>1, <1>2, <1>3, <1>4, <1>5, AdmitCall
<1>15. BlockInv'
  BY <1>6, <1>7, <1>9, <1>11, <1>13, <1>14, BlockAssumption, AllocateKeeps
<1>16. BlockNext
  <2>1. n \in 1 .. NumFree(GpuBlocks)
    BY <1>11, <1>12
  <2>2. CallAllocate
    BY <1>6, <1>9, <1>13, <1>14, <2>1 DEF CallAllocate
  <2>3. QED
    BY <2>2 DEF BlockNext
<1>17. \A q \in Seqs : /\ table'[q] = IF q = s THEN t ELSE table[q]
                       /\ status'[q] = IF q = s THEN "running" ELSE status[q]
  BY <1>6, <1>7 DEF Allocate, BlockInv, BlockTypeOK
<1>18. /\ Held(s)' \subseteq free \intersect GpuBlocks
       /\ \A q \in Seqs : q # s => Held(q)' = Held(q)
       /\ Len(table'[s]) = n /\ table'[s] # << >>
  <2>1. table'[s] \in Seq(Block) /\ DOMAIN table'[s] = 1 .. n
    BY <1>9, <1>13, <1>15, <1>17 DEF BlockInv, BlockTypeOK
  <2>2. Len(table'[s]) = n /\ table'[s] # << >>
    BY <1>11, <2>1
  <2>3. Held(s)' \subseteq free \intersect GpuBlocks
    BY <1>9, <1>13, <1>17 DEF Held, Entries
  <2>4. \A q \in Seqs : q # s => Held(q)' = Held(q)
    BY <1>17 DEF Held
  <2>5. QED
    BY <2>2, <2>3, <2>4
<1>19. Holders(LastBlock(s))' = {s}
  <2>1. LastBlock(s)' \in Held(s)'
    BY <1>9, <1>15, <1>18 DEF LastBlock, Held, Entries, BlockInv, BlockTypeOK
  <2>2. \A q \in Seqs : q # s => LastBlock(s)' \notin Held(q)'
    BY <1>7, <1>18, <2>1, TableOf
  <2>3. QED
    BY <1>9, <2>1, <2>2 DEF Holders
<1>20. /\ Unprocessed' = batch' /\ appending' = << >>
       /\ ToSet(batch') = ToSet(batch) \union {g}
  <2>1. g \notin ToSet(batch)
    BY <1>8 DEF QueueInv, QueuesApart
  <2>2. Names(batch', ToSet(batch) \union {g})
    BY <1>6, <1>8, <2>1, QueueTypes, AppendNames DEF QueueInv, Names
  <2>3. QED
    BY <1>6, <1>7, <2>2 DEF Unprocessed, Names
<1>21. AppendingTold' /\ NeverOutOfBlocks' /\ \A q \in ToSet(appending') : q[1] = g
  BY <1>20, NothingToAppendNext
<1>22. TableTold(s)' /\ SlotsTold(s)'
  <2>1. status'[s] = "running" /\ len'[s] = len[s]
    BY <1>6, <1>9, <1>17
  <2>2. TableTold(s)'
    BY <1>10, <1>18, <2>1 DEF TableTold, OnDevice
  <2>3. HasSlots(s)'
    <3>1. ToSet(appending') = {}
      BY <1>20, EmptyNames DEF Names
    <3>2. QED
      BY <1>9, <1>20, <3>1 DEF HasSlots
  <2>4. SlotsTold(s)'
    BY <1>3, <1>18, <1>19, <2>1, <2>3 DEF SlotsTold, LogicalBlocks, Blocks
  <2>5. QED
    BY <2>2, <2>4
<1>23. ASSUME NEW q \in Seqs, q[1] = g
       PROVE  /\ Held(q)' \subseteq BlocksOf(g) \union free
              /\ TableTold(q)' /\ SlotsTold(q)'
  <2>1. CASE q = s
    BY <1>18, <1>22, <2>1
  <2>2. CASE q # s
    <3>1. status[q] \notin {"running", "swapped"}
      BY <1>9, <1>23, <2>2 DEF UnfinishedSeqs, Members, Unfinished
    <3>2. TableTold(q) /\ table'[q] = table[q] /\ status'[q] = status[q] /\ len'[q] = len[q]
      BY <1>6, <1>7, <1>17, <2>2
    <3>3. Held(q)' \subseteq BlocksOf(g)
      BY <1>18, <1>23, <2>2 DEF BlocksOf
    <3>4. QED
      BY <1>7, <3>1, <3>2, <3>3 DEF TableTold, SlotsTold
  <2>3. QED
    BY <2>1, <2>2
<1>24. \A q \in Seqs : q[1] # g =>
         table'[q] = table[q] /\ status'[q] = status[q] /\ len'[q] = len[q]
  BY <1>6, <1>9, <1>17
<1>25. \A h : h # g => (h \in ToSet(Unprocessed)' <=> h \in ToSet(Unprocessed))
  BY <1>7, <1>20
<1>26. BlocksHeldInv'
  BY <1>7, <1>15, <1>21, <1>23, <1>24, <1>25, GroupStep
<1>27. QED
  BY <1>16, <1>26 DEF BlocksStep

LEMMA PreemptByRecomputeBlocks ==
  ASSUME QueueInv, BlocksHeldInv, PreemptByRecompute
  PROVE  BlocksStep
<1>1. PICK g : g = Victim
  OBVIOUS
<1>2. PICK S : S = WithStatus(g, "running")
  OBVIOUS
<1>3. /\ Scheduling /\ Release(S) /\ status' = SetStatus(S, "waiting")
      /\ UNCHANGED <<len, appending, batch, emitted>>
  BY <1>1, <1>2 DEF PreemptByRecompute, Preempting, FreeSeqs
<1>4. /\ appending = << >> /\ phase = "running" /\ ~emitted /\ BlockInv
      /\ \A s \in Seqs : TableTold(s)
  BY <1>3 DEF Scheduling, QueueInv, PhaseShape, BlocksHeldInv
<1>5. S = UnfinishedSeqs(g) /\ S \in SUBSET Seqs
  BY <1>1, <1>2, <1>3, VictimIs, SetsOfGroup DEF AllRunning
<1>6. /\ BlockInv' /\ BlockNext
      /\ \A q \in Seqs : table'[q] = IF q \in S THEN << >> ELSE table[q]
      /\ \A q \in Seqs : Held(q)' \subseteq Held(q)
  BY <1>3, <1>4, <1>5, ReleaseIs
<1>7. \A q \in Seqs : status'[q] = IF q \in S THEN "waiting" ELSE status[q]
  BY <1>3 DEF SetStatus
<1>8. \A q \in S : q \in Seqs /\ q[1] = g /\ status[q] # "none"
  BY <1>5 DEF UnfinishedSeqs, Members
<1>9. ASSUME NEW q \in Seqs, q[1] = g
      PROVE  /\ Held(q)' \subseteq BlocksOf(g) \union free
             /\ TableTold(q)' /\ SlotsTold(q)'
  <2>1. q \notin S => status[q] \notin {"running", "swapped"}
    BY <1>5, <1>9 DEF UnfinishedSeqs, Members, Unfinished
  <2>2. Held(q)' \subseteq BlocksOf(g)
    BY <1>6, <1>9 DEF BlocksOf
  <2>3. TableTold(q)
    BY <1>4
  <2>4. CASE q \in S
    BY <1>3, <1>6, <1>7, <1>8, <2>2, <2>3, <2>4 DEF TableTold, SlotsTold
  <2>5. CASE q \notin S
    BY <1>3, <1>4, <1>6, <1>7, <2>1, <2>2, <2>3, <2>5 DEF TableTold, SlotsTold
  <2>6. QED
    BY <2>4, <2>5
<1>10. \A q \in Seqs : q[1] # g =>
         table'[q] = table[q] /\ status'[q] = status[q] /\ len'[q] = len[q]
  BY <1>3, <1>6, <1>7, <1>8
<1>11. Unprocessed' = Unprocessed /\ appending' = << >>
  BY <1>3, <1>4 DEF Unprocessed
<1>12. AppendingTold' /\ NeverOutOfBlocks' /\ \A s \in ToSet(appending') : s[1] = g
  BY <1>11, NothingToAppendNext
<1>13. BlocksHeldInv'
  BY <1>4, <1>6, <1>9, <1>10, <1>11, <1>12, GroupStep
<1>14. QED
  BY <1>6, <1>13 DEF BlocksStep

(* Moving all unfinished sequences of a group is legal: they share no block   *)
(* with sequences that stay.                                               *)
LEMMA GroupIsClosed ==
  ASSUME SchedulerTypeOK, BlocksHeldInv, ~emitted, NEW g, NEW st \in Unfinished,
         UnfinishedSeqs(g) = WithStatus(g, st)
  PROVE  Closed(WithStatus(g, st))
<1> SUFFICES ASSUME NEW s \in WithStatus(g, st), NEW q \in Seqs \ WithStatus(g, st)
             PROVE  Held(s) \intersect Held(q) = {}
  BY DEF Closed
<1>1. s \in Seqs /\ s[1] = g
  BY DEF WithStatus, Members
<1>2. CASE q[1] # g
  BY <1>1, <1>2 DEF BlocksHeldInv, GroupsShareNothing
<1>3. CASE q[1] = g
  <2>1. q \notin UnfinishedSeqs(g)
    OBVIOUS
  <2>2. status[q] \notin {"running", "swapped", "waiting"}
    BY <1>3, <2>1 DEF UnfinishedSeqs, Members, Unfinished
  <2>3. table[q] = << >>
    <3>1. TableTold(q)
      BY DEF BlocksHeldInv
    <3>2. status[q] \in {"none", "finished", "aborted", "ignored"}
      BY <2>2 DEF SchedulerTypeOK, Statuses, Unfinished
    <3>3. QED
      BY <3>1, <3>2 DEF TableTold
  <2>4. QED
    BY <2>3, TableOf DEF BlocksHeldInv
<1>4. QED
  BY <1>2, <1>3

LEMMA PreemptBySwapBlocks ==
  ASSUME QueueInv, BlocksHeldInv, PreemptBySwap
  PROVE  BlocksStep
<1>1. PICK g : g = Victim
  OBVIOUS
<1>2. PICK S : S = WithStatus(g, "running")
  OBVIOUS
<1>3. PICK mapping : mapping = NewPlaces(S, CpuBlocks)
  OBVIOUS
<1>4. /\ Scheduling /\ Move(S, mapping, CpuBlocks) /\ status' = SetStatus(S, "swapped")
      /\ CanSwapOut(g)
      /\ UNCHANGED <<len, appending, batch, emitted>>
  BY <1>1, <1>2, <1>3 DEF PreemptBySwap, Preempting
<1>5. /\ appending = << >> /\ phase = "running" /\ ~emitted /\ BlockInv /\ BlockTypeOK
      /\ \A s \in Seqs : TableTold(s) /\ SlotsTold(s)
      /\ Unprocessed = batch
  BY <1>4 DEF Scheduling, QueueInv, PhaseShape, BlocksHeldInv, BlockInv, Unprocessed
<1>6. S = UnfinishedSeqs(g) /\ S \in SUBSET Seqs /\ g \in ToSet(todo)
  BY <1>1, <1>2, <1>4, VictimIs, SetsOfGroup DEF AllRunning
<1>7. mapping \in [HeldBy(S) -> free \intersect CpuBlocks]
  <2>1. Cardinality(HeldBy(S)) <= NumFree(CpuBlocks)
    BY <1>4, <1>6 DEF CanSwapOut
  <2>2. QED
    BY <1>3, <1>5, <1>6, <2>1, NewPlacesAre
<1>8. /\ BlockInv'
      /\ \A q \in Seqs \ S : table'[q] = table[q] /\ Held(q)' = Held(q)
      /\ \A q \in S : /\ Len(table'[q]) = Len(table[q])
                      /\ table[q] # << >> => table'[q] # << >>
                      /\ Held(q)' \subseteq free \intersect CpuBlocks
  BY <1>4, <1>5, <1>6, <1>7, MoveIs
<1>9. \A q \in S : q \in Seqs /\ q[1] = g /\ status[q] = "running"
  BY <1>2 DEF WithStatus, Members
<1>10. BlockNext
  <2>1. Closed(S)
    BY <1>2, <1>5, <1>6, GroupIsClosed DEF Unfinished, QueueInv
  <2>2. S \in SUBSET {s \in Seqs : OnDevice(s, GpuBlocks)}
    BY <1>5, <1>9 DEF TableTold
  <2>3. CallSwap(GpuBlocks, CpuBlocks)
    BY <1>4, <1>7, <2>1, <2>2 DEF CallSwap
  <2>4. QED
    BY <2>3 DEF BlockNext
<1>11. \A q \in Seqs : status'[q] = IF q \in S THEN "swapped" ELSE status[q]
  BY <1>4 DEF SetStatus
<1>12. g \notin ToSet(Unprocessed) /\ Unprocessed' = Unprocessed /\ appending' = << >>
  BY <1>4, <1>5, <1>6 DEF Unprocessed, QueueInv, QueuesApart
<1>13. ASSUME NEW q \in Seqs, q[1] = g
       PROVE  /\ Held(q)' \subseteq BlocksOf(g) \union free
              /\ TableTold(q)' /\ SlotsTold(q)'
  <2>1. TableTold(q) /\ SlotsTold(q) /\ ~HasSlots(q) /\ ~HasSlots(q)'
    BY <1>5, <1>12, <1>13 DEF HasSlots
  <2>2. CASE q \in S
    <3>1. /\ status[q] = "running" /\ status'[q] = "swapped" /\ len'[q] = len[q]
          /\ Len(table'[q]) = Len(table[q])
          /\ table[q] # << >> => table'[q] # << >>
          /\ Held(q)' \subseteq free \intersect CpuBlocks
      BY <1>4, <1>8, <1>9, <1>11, <2>2
    <3>2. TableTold(q)'
      BY <2>1, <3>1 DEF TableTold, OnDevice
    <3>3. SlotsTold(q)'
      BY <2>1, <3>1 DEF SlotsTold, Blocks
    <3>4. QED
      BY <3>1, <3>2, <3>3
  <2>3. CASE q \notin S
    <3>1. status[q] \notin {"running", "swapped"}
      BY <1>6, <1>13, <2>3 DEF UnfinishedSeqs, Members, Unfinished
    <3>2. table'[q] = table[q] /\ status'[q] = status[q] /\ len'[q] = len[q] /\ Held(q)' = Held(q)
      BY <1>4, <1>8, <1>11, <2>3
    <3>3. Held(q)' \subseteq BlocksOf(g)
      BY <1>13, <3>2 DEF BlocksOf
    <3>4. QED
      BY <1>5, <2>1, <3>1, <3>2, <3>3 DEF TableTold, SlotsTold
  <2>4. QED
    BY <2>2, <2>3
<1>14. \A q \in Seqs : q[1] # g =>
         table'[q] = table[q] /\ status'[q] = status[q] /\ len'[q] = len[q]
  BY <1>4, <1>8, <1>9, <1>11
<1>15. AppendingTold' /\ NeverOutOfBlocks' /\ \A s \in ToSet(appending') : s[1] = g
  BY <1>12, NothingToAppendNext
<1>16. BlocksHeldInv'
  BY <1>5, <1>8, <1>12, <1>13, <1>14, <1>15, GroupStep
<1>17. QED
  BY <1>10, <1>16 DEF BlocksStep

LEMMA ScheduleDecodeBlocks ==
  ASSUME QueueInv, BlocksHeldInv, ScheduleDecode
  PROVE  BlocksStep
<1>1. PICK g : g = Head(todo)
  OBVIOUS
<1>2. PICK S : S = WithStatus(g, "running")
  OBVIOUS
<1>3. /\ Scheduling /\ todo # << >> /\ batch' = Append(batch, g) /\ appending' = Listed(S)
      /\ Cardinality(S) <= NumFree(GpuBlocks)
      /\ UNCHANGED <<blockVars, status, len, emitted>>
      /\ UNCHANGED <<free, ref, table>>
  BY <1>1, <1>2 DEF ScheduleDecode, Scheduling, CanAppend, seqVars, blockVars
<1>4. /\ appending = << >> /\ phase = "running" /\ ~emitted /\ BlockInv /\ BlockInv'
      /\ \A s \in Seqs : TableTold(s) /\ SlotsTold(s)
      /\ Unprocessed = batch /\ Unprocessed' = batch'
  BY <1>3, StutterKeeps DEF Scheduling, QueueInv, PhaseShape, BlocksHeldInv, Unprocessed
<1>5. g \in ToSet(todo) /\ g \in Group
  BY <1>1, <1>3, QueueTypes, TailNames DEF QueueInv, Names
<1>6. g \notin ToSet(batch)
  BY <1>5 DEF QueueInv, QueuesApart
<1>7. ToSet(batch') = ToSet(batch) \union {g}
  BY <1>3, <1>5, <1>6, QueueTypes, AppendNames DEF QueueInv, Names
<1>8. S \in SUBSET Seqs /\ IsFiniteSet(S) /\ \A s \in S : s[1] = g /\ status[s] = "running"
  <2>1. S \in SUBSET Seqs /\ IsFiniteSet(S)
    BY <1>2, SetsOfGroup
  <2>2. \A s \in S : s[1] = g /\ status[s] = "running"
    BY <1>2 DEF WithStatus, Members
  <2>3. QED
    BY <2>1, <2>2
<1>9. appending' \in Seq(Seqs) /\ IsInjection(appending') /\ ToSet(appending') = S
  BY <1>3, <1>8, ListedIs
<1>10. AppendingTold'
  <2>1. \A s \in ToSet(appending') : s[1] \in ToSet(batch') /\ status'[s] = "running"
    BY <1>3, <1>7, <1>8, <1>9
  <2>2. QED
    BY <1>9, <2>1 DEF AppendingTold
<1>11. NeverOutOfBlocks'
  <2>1. PICK N : N = {s \in S : NeedsBlock(s)'}
    OBVIOUS
  <2>2. Cardinality(N) <= Cardinality(S) /\ Cardinality(N) \in Nat /\ Cardinality(S) \in Nat
    BY <1>8, <2>1, FS_Subset, FS_CardinalityType
  <2>3. NumFree(GpuBlocks)' = NumFree(GpuBlocks) /\ NumFree(GpuBlocks) \in Nat
    BY <1>3, FreeCount DEF NumFree
  <2>4. Cardinality(N) <= NumFree(GpuBlocks)'
    BY <1>3, <2>2, <2>3
  <2>5. QED
    BY <1>9, <2>1, <2>4 DEF NeverOutOfBlocks
<1>12. ASSUME NEW q \in Seqs, q[1] = g
       PROVE  /\ Held(q)' \subseteq BlocksOf(g) \union free
              /\ TableTold(q)' /\ SlotsTold(q)'
  <2>1. TableTold(q) /\ SlotsTold(q) /\ ~HasSlots(q)
    BY <1>4, <1>6, <1>12 DEF HasSlots
  <2>2. table'[q] = table[q] /\ status'[q] = status[q] /\ len'[q] = len[q] /\ Held(q)' = Held(q)
    BY <1>3 DEF Held
  <2>3. Held(q)' \subseteq BlocksOf(g)
    BY <1>12, <2>2 DEF BlocksOf
  <2>4. TableTold(q)'
    BY <1>3, <1>4, <2>1, <2>2 DEF TableTold, OnDevice
  <2>5. CASE q \in S
    <3>1. ~HasSlots(q)'
      BY <1>9, <2>5 DEF HasSlots
    <3>2. QED
      BY <2>1, <2>2, <2>3, <2>4, <3>1 DEF SlotsTold, Blocks
  <2>6. CASE q \notin S
    <3>1. AllRunning(g)
      BY <1>5 DEF QueueInv, StatusTold
    <3>2. status[q] \notin {"running", "swapped"}
      BY <1>2, <1>12, <2>6, <3>1 DEF AllRunning, UnfinishedSeqs, WithStatus, Members, Unfinished
    <3>3. QED
      BY <2>2, <2>3, <2>4, <3>2 DEF SlotsTold
  <2>7. QED
    BY <2>5, <2>6
<1>13. \A q \in Seqs : q[1] # g =>
         table'[q] = table[q] /\ status'[q] = status[q] /\ len'[q] = len[q]
  BY <1>3
<1>14. \A h : h # g => (h \in ToSet(Unprocessed)' <=> h \in ToSet(Unprocessed))
  BY <1>4, <1>7
<1>15. \A s \in ToSet(appending') : s[1] = g
  BY <1>8, <1>9
<1>16. BlocksHeldInv'
  BY <1>4, <1>10, <1>11, <1>12, <1>13, <1>14, <1>15, GroupStep
<1>17. QED
  BY <1>3, <1>16 DEF BlocksStep

(* How many blocks a move leaves free on the device it moves to. *)
LEMMA MoveLeaves ==
  ASSUME BlockTypeOK, NEW S \in SUBSET Seqs,
         NEW mapping \in [HeldBy(S) -> free \intersect GpuBlocks],
         Move(S, mapping, GpuBlocks)
  PROVE  NumFree(GpuBlocks)' >= NumFree(GpuBlocks) - Cardinality(HeldBy(S))
<1>1. PICK H : H = HeldBy(S)
  OBVIOUS
<1>2. PICK F : F = free \intersect GpuBlocks
  OBVIOUS
<1>3. PICK E : E = Entries(mapping)
  OBVIOUS
<1>4. IsFiniteSet(H) /\ Cardinality(H) \in Nat
  BY <1>1, HeldFinite
<1>5. IsFiniteSet(F) /\ Cardinality(F) \in Nat
  BY <1>2, FreeCount DEF NumFree
<1>6. mapping \in Surjection(H, E)
  <2>1. mapping \in [H -> E] /\ \A e \in E : \E b \in H : mapping[b] = e
    BY <1>1, <1>3 DEF Entries
  <2>2. QED
    BY <2>1 DEF Surjection
<1>7. IsFiniteSet(E) /\ Cardinality(E) <= Cardinality(H)
  BY <1>4, <1>6, FS_Surjection
<1>8. E \subseteq F
  BY <1>2, <1>3 DEF Entries
<1>9. Cardinality(F \ E) = Cardinality(F) - Cardinality(F \intersect E)
  BY <1>5, FS_Difference
<1>10. F \intersect E = E /\ Cardinality(E) \in Nat
  BY <1>7, <1>8, FS_CardinalityType
<1>11. PICK F2 : F2 = free' \intersect GpuBlocks
  OBVIOUS
<1>12. F \ E \subseteq F2
  BY <1>2, <1>3, <1>11 DEF Move
<1>13. IsFiniteSet(F2) /\ Cardinality(F2) \in Nat
  <2>1. IsFiniteSet(GpuBlocks)
    BY SchedulerAssumption DEF SchedulerAssumption
  <2>2. IsFiniteSet(F2)
    BY <1>11, <2>1, FS_Subset
  <2>3. QED
    BY <2>2, FS_CardinalityType
<1>14. Cardinality(F \ E) <= Cardinality(F2)
  BY <1>12, <1>13, FS_Subset
<1>15. Cardinality(F2) >= Cardinality(F) - Cardinality(H)
  <2>1. PICK h \in Nat, f \in Nat, e \in Nat, f2 \in Nat :
          h = Cardinality(H) /\ f = Cardinality(F) /\ e = Cardinality(E) /\ f2 = Cardinality(F2)
    BY <1>4, <1>5, <1>10, <1>13
  <2>2. Cardinality(F \ E) = f - e
    BY <1>9, <1>10, <2>1
  <2>3. f - e <= f2 /\ e <= h
    BY <1>7, <1>14, <2>1, <2>2
  <2>4. f2 >= f - h
    BY <2>3
  <2>5. QED
    BY <2>1, <2>4
<1>16. QED
  BY <1>1, <1>2, <1>11, <1>15 DEF NumFree

LEMMA ScheduleSwappedBlocks ==
  ASSUME QueueInv, BlocksHeldInv, ScheduleSwapped
  PROVE  BlocksStep
<1>1. PICK g : g = Head(swapped)
  OBVIOUS
<1>2. PICK S : S = WithStatus(g, "swapped")
  OBVIOUS
<1>3. PICK mapping : mapping = NewPlaces(S, GpuBlocks)
  OBVIOUS
<1>4. /\ phase = "swapped" /\ appending = << >> /\ swapped # << >> /\ CanSwapIn(g)
      /\ Move(S, mapping, GpuBlocks) /\ status' = SetStatus(S, "running")
      /\ appending' = Listed(S) /\ batch' = Append(batch, g)
      /\ UNCHANGED <<len, emitted>>
  BY <1>1, <1>2, <1>3 DEF ScheduleSwapped, SwapInNext
<1>5. /\ ~emitted /\ BlockInv /\ BlockTypeOK /\ SchedulerTypeOK
      /\ \A s \in Seqs : TableTold(s) /\ SlotsTold(s)
      /\ Unprocessed = batch /\ Unprocessed' = batch'
  BY <1>4 DEF QueueInv, PhaseShape, BlocksHeldInv, BlockInv, Unprocessed
<1>6. g \in ToSet(swapped) /\ g \in Group
  BY <1>1, <1>4, QueueTypes, TailNames DEF QueueInv, Names
<1>7. g \notin ToSet(batch)
  BY <1>6 DEF QueueInv, QueuesApart
<1>8. ToSet(batch') = ToSet(batch) \union {g}
  BY <1>4, <1>6, <1>7, QueueTypes, AppendNames DEF QueueInv, Names
<1>9. S = UnfinishedSeqs(g) /\ S \in SUBSET Seqs /\ IsFiniteSet(S) /\ Cardinality(S) \in Nat
  BY <1>2, <1>6, SetsOfGroup DEF QueueInv, StatusTold, SeveralSwapped
<1>10. \A q \in S : q \in Seqs /\ q[1] = g /\ status[q] = "swapped"
  BY <1>2 DEF WithStatus, Members
<1>11. /\ Cardinality(HeldBy(S)) \in Nat /\ NumFree(GpuBlocks) \in Nat
       /\ NumFree(GpuBlocks) - Cardinality(HeldBy(S)) >= Cardinality(S)
  <2>1. Cardinality(HeldBy(S)) \in Nat /\ NumFree(GpuBlocks) \in Nat
    BY <1>5, <1>9, HeldFinite, FreeCount
  <2>2. NumFree(GpuBlocks) - Cardinality(HeldBy(S)) - Cardinality(S) >= Watermark
    BY <1>2, <1>4, <1>9 DEF CanSwapIn
  <2>3. Watermark \in Nat
    BY SchedulerAssumption DEF SchedulerAssumption
  <2>4. QED
    BY <1>9, <2>1, <2>2, <2>3
<1>12. mapping \in [HeldBy(S) -> free \intersect GpuBlocks]
  <2>1. Cardinality(HeldBy(S)) <= NumFree(GpuBlocks)
    BY <1>9, <1>11
  <2>2. QED
    BY <1>3, <1>5, <1>9, <2>1, NewPlacesAre
<1>13. /\ BlockInv'
       /\ \A q \in Seqs \ S : table'[q] = table[q] /\ Held(q)' = Held(q)
       /\ \A q \in S : /\ Len(table'[q]) = Len(table[q])
                       /\ table[q] # << >> => table'[q] # << >>
                       /\ Held(q)' \subseteq free \intersect GpuBlocks
  BY <1>4, <1>5, <1>9, <1>12, MoveIs
<1>14. BlockNext
  <2>1. Closed(S)
    BY <1>2, <1>5, <1>9, GroupIsClosed DEF Unfinished
  <2>2. S \in SUBSET {s \in Seqs : OnDevice(s, CpuBlocks)}
    BY <1>5, <1>10 DEF TableTold
  <2>3. CallSwap(CpuBlocks, GpuBlocks)
    BY <1>4, <1>12, <2>1, <2>2 DEF CallSwap
  <2>4. QED
    BY <2>3 DEF BlockNext
<1>15. \A q \in Seqs : status'[q] = IF q \in S THEN "running" ELSE status[q]
  BY <1>4 DEF SetStatus
<1>16. appending' \in Seq(Seqs) /\ IsInjection(appending') /\ ToSet(appending') = S
  BY <1>4, <1>9, ListedIs
<1>17. AppendingTold'
  <2>1. \A s \in ToSet(appending') : s[1] \in ToSet(batch') /\ status'[s] = "running"
    BY <1>8, <1>10, <1>15, <1>16
  <2>2. QED
    BY <1>16, <2>1 DEF AppendingTold
<1>18. NeverOutOfBlocks'
  <2>1. PICK N : N = {s \in S : NeedsBlock(s)'}
    OBVIOUS
  <2>2. Cardinality(N) <= Cardinality(S) /\ Cardinality(N) \in Nat
    BY <1>9, <2>1, FS_Subset, FS_CardinalityType
  <2>3. NumFree(GpuBlocks)' >= NumFree(GpuBlocks) - Cardinality(HeldBy(S))
    BY <1>4, <1>5, <1>9, <1>12, MoveLeaves
  <2>4. NumFree(GpuBlocks)' \in Nat
    BY FreeCountNext
  <2>5. Cardinality(N) <= NumFree(GpuBlocks)'
    BY <1>9, <1>11, <2>2, <2>3, <2>4
  <2>6. QED
    BY <1>16, <2>1, <2>5 DEF NeverOutOfBlocks
<1>19. ASSUME NEW q \in Seqs, q[1] = g
       PROVE  /\ Held(q)' \subseteq BlocksOf(g) \union free
              /\ TableTold(q)' /\ SlotsTold(q)'
  <2>1. TableTold(q) /\ SlotsTold(q) /\ ~HasSlots(q)
    BY <1>5, <1>7, <1>19 DEF HasSlots
  <2>2. CASE q \in S
    <3>1. /\ status[q] = "swapped" /\ status'[q] = "running" /\ len'[q] = len[q]
          /\ Len(table'[q]) = Len(table[q])
          /\ table[q] # << >> => table'[q] # << >>
          /\ Held(q)' \subseteq free \intersect GpuBlocks
      BY <1>4, <1>10, <1>13, <1>15, <2>2
    <3>2. TableTold(q)'
      BY <2>1, <3>1 DEF TableTold, OnDevice
    <3>3. ~HasSlots(q)'
      BY <1>16, <2>2 DEF HasSlots
    <3>4. SlotsTold(q)'
      BY <2>1, <3>1, <3>3 DEF SlotsTold, Blocks
    <3>5. QED
      BY <3>1, <3>2, <3>4
  <2>3. CASE q \notin S
    <3>1. status[q] \notin {"running", "swapped"}
      BY <1>9, <1>19, <2>3 DEF UnfinishedSeqs, Members, Unfinished
    <3>2. table'[q] = table[q] /\ status'[q] = status[q] /\ len'[q] = len[q] /\ Held(q)' = Held(q)
      BY <1>4, <1>13, <1>15, <2>3
    <3>3. Held(q)' \subseteq BlocksOf(g)
      BY <1>19, <3>2 DEF BlocksOf
    <3>4. QED
      BY <1>5, <2>1, <3>1, <3>2, <3>3 DEF TableTold, SlotsTold
  <2>4. QED
    BY <2>2, <2>3
<1>20. \A q \in Seqs : q[1] # g =>
         table'[q] = table[q] /\ status'[q] = status[q] /\ len'[q] = len[q]
  BY <1>4, <1>10, <1>13, <1>15
<1>21. \A h : h # g => (h \in ToSet(Unprocessed)' <=> h \in ToSet(Unprocessed))
  BY <1>5, <1>8
<1>22. \A s \in ToSet(appending') : s[1] = g
  BY <1>10, <1>16
<1>23. BlocksHeldInv'
  BY <1>4, <1>5, <1>13, <1>17, <1>18, <1>19, <1>20, <1>21, <1>22, GroupStep
<1>24. QED
  BY <1>14, <1>23 DEF BlocksStep

LEMMA FreeFinishedBlocks ==
  ASSUME QueueInv, BlocksHeldInv, FreeFinished
  PROVE  BlocksStep
<1>1. PICK g : g = Head(batch)
  OBVIOUS
<1>2. PICK S : S = {s \in Members(g) : status[s] = "finished"}
  OBVIOUS
<1>3. /\ emitted /\ emitted' = FALSE /\ Release(S) /\ batch' = Tail(batch)
      /\ UNCHANGED <<status, len, appending>>
  BY <1>1, <1>2 DEF FreeFinished, FreeSeqs, seqVars
<1>4. /\ appending = << >> /\ appending' = << >> /\ BlockInv
      /\ \A s \in Seqs : TableTold(s) /\ SlotsTold(s)
      /\ Unprocessed = Tail(batch) /\ Unprocessed' = Tail(batch) /\ batch # << >>
  BY <1>3 DEF QueueInv, PhaseShape, BlocksHeldInv, Unprocessed
<1>5. S \in SUBSET Seqs
  BY <1>2, SetsOfGroup
<1>6. /\ BlockInv' /\ BlockNext
      /\ \A q \in Seqs : table'[q] = IF q \in S THEN << >> ELSE table[q]
      /\ \A q \in Seqs : Held(q)' \subseteq Held(q)
  BY <1>3, <1>4, <1>5, ReleaseIs
<1>7. g \notin ToSet(Unprocessed) /\ g \notin ToSet(Unprocessed)'
  <2>1. Names(Tail(batch), ToSet(batch) \ {g})
    BY <1>1, <1>4, QueueTypes, TailNames DEF QueueInv, Names
  <2>2. QED
    BY <1>4, <2>1 DEF Names
<1>8. \A q \in S : q[1] = g /\ status[q] = "finished"
  BY <1>2 DEF Members
<1>9. ASSUME NEW q \in Seqs, q[1] = g
      PROVE  /\ Held(q)' \subseteq BlocksOf(g) \union free
             /\ TableTold(q)' /\ SlotsTold(q)'
  <2>1. Held(q)' \subseteq BlocksOf(g)
    BY <1>6, <1>9 DEF BlocksOf
  <2>2. TableTold(q) /\ SlotsTold(q) /\ ~HasSlots(q) /\ ~HasSlots(q)'
    BY <1>4, <1>7, <1>9 DEF HasSlots
  <2>3. CASE q \in S
    <3>1. status'[q] = "finished" /\ table'[q] = << >> /\ len'[q] = len[q] /\ status[q] = "finished"
      BY <1>3, <1>6, <1>8, <2>3
    <3>2. QED
      BY <2>1, <2>2, <3>1 DEF TableTold, SlotsTold
  <2>4. CASE q \notin S
    <3>1. status'[q] = status[q] /\ table'[q] = table[q] /\ len'[q] = len[q] /\ Held(q)' = Held(q)
      BY <1>3, <1>6, <2>4 DEF Held
    <3>2. status[q] # "finished"
      BY <1>2, <1>9, <2>4 DEF Members
    <3>3. TableTold(q)'
      BY <2>2, <3>1, <3>2 DEF TableTold, OnDevice
    <3>4. SlotsTold(q)'
      BY <2>2, <3>1 DEF SlotsTold, Blocks
    <3>5. QED
      BY <2>1, <3>3, <3>4
  <2>5. QED
    BY <2>3, <2>4
<1>10. \A q \in Seqs : q[1] # g =>
         table'[q] = table[q] /\ status'[q] = status[q] /\ len'[q] = len[q]
  BY <1>3, <1>6, <1>8
<1>11. AppendingTold' /\ NeverOutOfBlocks' /\ \A s \in ToSet(appending') : s[1] = g
  BY <1>4, NothingToAppendNext
<1>12. \A h : h # g => (h \in ToSet(Unprocessed)' <=> h \in ToSet(Unprocessed))
  BY <1>4
<1>13. BlocksHeldInv'
  BY <1>1, <1>4, <1>6, <1>9, <1>10, <1>11, <1>12, GroupStep
<1>14. QED
  BY <1>6, <1>13 DEF BlocksStep

LEMMA ProcessOutputBlocks ==
  ASSUME QueueInv, BlocksHeldInv, ProcessOutput
  PROVE  BlocksStep
<1>1. PICK g : g = Head(batch)
  OBVIOUS
<1>2. PICK parents : parents = WithStatus(g, "running")
  OBVIOUS
<1>3. PICK parent : parent = CHOOSE p \in parents : TRUE
  OBVIOUS
<1>4. PICK children : children = NewChild(g)
  OBVIOUS
<1>5. /\ phase = "output" /\ batch # << >> /\ ~emitted /\ emitted' = TRUE
      /\ prompt /\ bestOf[g] = 2 => \E k \in 1 .. Copies : status[<<g, k>>] = "none"
      /\ UNCHANGED <<appending, batch>>
      /\ len' = [s \in Seqs |-> IF s \in parents \union children
                                  THEN 1 + IF s \in parents THEN len[s] ELSE len[parent]
                                  ELSE len[s]]
  BY <1>1, <1>2, <1>3, <1>4 DEF ProcessOutput
<1>6. PICK stopped \in SUBSET (parents \union children) :
        /\ status' = [s \in Seqs |-> CASE s \in stopped -> "finished"
                                       [] s \in (parents \union children) \ stopped -> "running"
                                       [] OTHER -> status[s]]
        /\ IF children \ stopped = {}
             THEN UNCHANGED blockVars
             ELSE \E child \in children : Fork(parent, child)
  BY <1>1, <1>2, <1>3, <1>4 DEF ProcessOutput
<1>7. /\ g \in ToSet(batch) /\ g \in Group
      /\ Names(Tail(batch), ToSet(batch) \ {g})
  BY <1>1, <1>5, QueueTypes, TailNames DEF QueueInv, Names
<1>8. /\ appending = << >> /\ appending' = << >> /\ BlockInv
      /\ \A s \in Seqs : TableTold(s) /\ SlotsTold(s)
      /\ Unprocessed = batch /\ Unprocessed' = Tail(batch)
      /\ len \in [Seqs -> Nat]
  BY <1>5 DEF QueueInv, PhaseShape, SchedulerTypeOK, BlocksHeldInv, Unprocessed
<1>9. /\ parents = UnfinishedSeqs(g) /\ parents # {}
      /\ \A s \in parents : s \in Seqs /\ s[1] = g /\ status[s] = "running"
  <2>1. AllRunning(g) /\ ~IsFinished(g)
    BY <1>7, <1>8 DEF QueueInv, StatusTold
  <2>2. parents = UnfinishedSeqs(g) /\ parents # {}
    BY <1>2, <2>1 DEF AllRunning, IsFinished
  <2>3. \A s \in parents : s \in Seqs /\ s[1] = g /\ status[s] = "running"
    BY <1>2 DEF WithStatus, Members
  <2>4. QED
    BY <2>2, <2>3
<1>10. parent \in parents
  BY <1>3, <1>9
<1>11. /\ \A s \in children : s \in Seqs /\ s[1] = g /\ status[s] = "none"
       /\ \A s, t \in children : s = t
  BY <1>4, <1>5, <1>7, NewChildIs
<1>12. /\ \A s \in Seqs : s \in stopped => status'[s] = "finished"
       /\ \A s \in Seqs : s \in (parents \union children) \ stopped => status'[s] = "running"
       /\ \A s \in Seqs : s \notin parents \union children =>
            status'[s] = status[s] /\ len'[s] = len[s]
       /\ \A s \in parents : len'[s] = 1 + len[s]
       /\ \A s \in children : len'[s] = 1 + len[parent]
  <2>1. \A s \in Seqs : s \in stopped => status'[s] = "finished"
    BY <1>6
  <2>2. \A s \in Seqs : s \in (parents \union children) \ stopped => status'[s] = "running"
    BY <1>6
  <2>3. \A s \in Seqs : s \notin parents \union children => status'[s] = status[s]
    BY <1>6
  <2>4. \A s \in Seqs : s \notin parents \union children => len'[s] = len[s]
    BY <1>5
  <2>5. \A s \in parents : len'[s] = 1 + len[s]
    BY <1>5, <1>9
  <2>6. \A s \in children : s \notin parents
    BY <1>9, <1>11
  <2>7. \A s \in children : len'[s] = 1 + len[parent]
    BY <1>5, <1>11, <2>6
  <2>8. QED
    BY <2>1, <2>2, <2>3, <2>4, <2>5, <2>7
(* A sampled sequence has the blocks of the tokens it had before. *)
<1>13. ASSUME NEW p \in parents
       PROVE  /\ OnDevice(p, GpuBlocks) /\ Len(table[p]) = Blocks(len[p])
              /\ len[p] \in Nat /\ len[p] >= 1
  <2>1. TableTold(p) /\ SlotsTold(p) /\ status[p] = "running" /\ len[p] \in Nat
    BY <1>8, <1>9
  <2>2. HasSlots(p)
    <3>1. ToSet(appending) = {}
      BY <1>8, EmptyNames DEF Names
    <3>2. QED
      BY <1>7, <1>8, <1>9, <3>1 DEF HasSlots
  <2>3. QED
    BY <2>1, <2>2 DEF TableTold, SlotsTold
<1>14. ASSUME NEW c \in children
       PROVE  table[c] = << >> /\ c \notin parents
  BY <1>8, <1>9, <1>11 DEF TableTold
<1>15. /\ BlockInv' /\ (UNCHANGED blockVars \/ BlockNext)
       /\ \A q \in Seqs : q \notin children \ stopped => table'[q] = table[q]
       /\ \A q \in children \ stopped : table'[q] = table[parent]
  <2>1. CASE children \ stopped = {}
    <3>1. UNCHANGED blockVars /\ table' = table
      BY <1>6, <2>1 DEF blockVars
    <3>2. BlockInv'
      BY <1>8, <3>1, StutterKeeps
    <3>3. QED
      BY <2>1, <3>1, <3>2
  <2>2. CASE children \ stopped # {}
    <3>1. PICK c \in children : Fork(parent, c)
      BY <1>6, <2>2
    <3>2. children \ stopped = {c} /\ c \in Seqs /\ parent \in Seqs
      BY <1>9, <1>10, <1>11, <2>2
    <3>3. OnDevice(parent, GpuBlocks) /\ table[c] = << >>
      BY <1>10, <1>13, <1>14
    <3>4. BlockInv'
      BY <1>8, <3>1, <3>2, <3>3, BlockAssumption, ForkKeeps
    <3>5. BlockNext
      BY <3>1, <3>2, <3>3 DEF BlockNext, CallFork
    <3>6. \A q \in Seqs : table'[q] = IF q = c THEN table[parent] ELSE table[q]
      BY <1>8, <3>1 DEF Fork, BlockInv, BlockTypeOK
    <3>7. QED
      BY <3>2, <3>4, <3>5, <3>6
  <2>3. QED
    BY <2>1, <2>2
<1>16. g \notin ToSet(Unprocessed)'
  BY <1>7, <1>8 DEF Names
<1>17. ASSUME NEW q \in Seqs, q[1] = g
       PROVE  /\ Held(q)' \subseteq BlocksOf(g) \union free
              /\ TableTold(q)' /\ SlotsTold(q)'
  <2>1. ~HasSlots(q)'
    BY <1>16, <1>17 DEF HasSlots
  <2>2. TableTold(q)
    BY <1>8
  <2>3. emitted' /\ q[1] = Head(batch')
    BY <1>1, <1>5, <1>17
  <2>4. Held(parent) \subseteq BlocksOf(g) /\ Held(q) \subseteq BlocksOf(g)
    BY <1>9, <1>10, <1>17 DEF BlocksOf
  <2>5. CASE q \in parents
    <3>1. OnDevice(q, GpuBlocks) /\ Len(table[q]) = Blocks(len[q]) /\ len[q] \in Nat /\ len[q] >= 1
      BY <1>13, <2>5
    <3>2. table'[q] = table[q] /\ Held(q)' = Held(q)
      BY <1>14, <1>15, <2>5 DEF Held
    <3>3. len'[q] = 1 + len[q] /\ len'[q] >= 2 /\ len'[q] >= 1 /\ len'[q] - 1 = len[q]
      BY <1>12, <2>5, <3>1
    <3>4. status'[q] = "running" \/ status'[q] = "finished"
      BY <1>12, <2>5
    <3>5. TableTold(q)'
      BY <2>3, <3>1, <3>2, <3>3, <3>4 DEF TableTold, OnDevice
    <3>6. SlotsTold(q)'
      BY <2>1, <3>1, <3>2, <3>3 DEF SlotsTold, Blocks
    <3>7. QED
      BY <2>4, <3>2, <3>5, <3>6
  <2>6. CASE q \in children \ stopped
    <3>1. /\ OnDevice(parent, GpuBlocks) /\ Len(table[parent]) = Blocks(len[parent])
          /\ len[parent] \in Nat /\ len[parent] >= 1
      BY <1>10, <1>13
    <3>2. table'[q] = table[parent] /\ Held(q)' = Held(parent)
      BY <1>15, <2>6 DEF Held
    <3>3. /\ len'[q] = 1 + len[parent] /\ len'[q] >= 2 /\ len'[q] >= 1
          /\ len'[q] - 1 = len[parent]
      BY <1>12, <2>6, <3>1
    <3>4. status'[q] = "running"
      BY <1>12, <2>6
    <3>5. TableTold(q)'
      BY <3>1, <3>2, <3>3, <3>4 DEF TableTold, OnDevice
    <3>6. SlotsTold(q)'
      BY <2>1, <3>1, <3>2, <3>3 DEF SlotsTold, Blocks
    <3>7. QED
      BY <2>4, <3>2, <3>5, <3>6
  <2>7. CASE q \in children /\ q \in stopped
    <3>1. table'[q] = << >> /\ Held(q)' = Held(q)
      BY <1>14, <1>15, <2>7 DEF Held
    <3>2. status'[q] = "finished"
      BY <1>12, <2>7
    <3>3. len'[q] >= 1
      <4>1. len'[q] = 1 + len[parent] /\ len[parent] \in Nat
        BY <1>10, <1>12, <1>13, <2>7
      <4>2. QED
        BY <4>1
    <3>4. QED
      BY <2>4, <3>1, <3>2, <3>3 DEF TableTold, SlotsTold
  <2>8. CASE q \notin parents \union children
    <3>1. status[q] \notin {"running", "swapped"}
      BY <1>9, <1>17, <2>8 DEF UnfinishedSeqs, Members, Unfinished
    <3>2. table'[q] = table[q] /\ status'[q] = status[q] /\ len'[q] = len[q] /\ Held(q)' = Held(q)
      BY <1>12, <1>15, <2>8 DEF Held
    <3>3. TableTold(q)'
      BY <1>5, <2>2, <3>1, <3>2 DEF TableTold
    <3>4. QED
      BY <2>4, <3>1, <3>2, <3>3 DEF SlotsTold
  <2>9. QED
    BY <2>5, <2>6, <2>7, <2>8
<1>18. \A q \in Seqs : q[1] # g =>
         table'[q] = table[q] /\ status'[q] = status[q] /\ len'[q] = len[q]
  BY <1>9, <1>11, <1>12, <1>15
<1>19. AppendingTold' /\ NeverOutOfBlocks' /\ \A s \in ToSet(appending') : s[1] = g
  BY <1>8, NothingToAppendNext
<1>20. \A h : h # g => (h \in ToSet(Unprocessed)' <=> h \in ToSet(Unprocessed))
  BY <1>7, <1>8 DEF Names
<1>21. BlocksHeldInv'
  BY <1>5, <1>8, <1>15, <1>17, <1>18, <1>19, <1>20, GroupStep
<1>22. QED
  BY <1>15, <1>21 DEF BlocksStep

(* append_slots of the next sequence: either a new block, or a copy of a      *)
(* shared one, or nothing to do, the last block being its own.             *)
LEMMA AppendingIs ==
  ASSUME QueueInv, BlocksHeldInv, appending # << >>
  PROVE  /\ ~emitted /\ Unprocessed = batch
         /\ Head(appending) \in Seqs /\ Head(appending) \in ToSet(appending)
         /\ Tail(appending) \in Seq(Seqs) /\ IsInjection(Tail(appending))
         /\ ToSet(Tail(appending)) = ToSet(appending) \ {Head(appending)}
<1>1. ~emitted /\ appending \in Seq(Seqs) /\ IsInjection(appending)
  BY DEF QueueInv, PhaseShape, SchedulerTypeOK, BlocksHeldInv, AppendingTold
<1>2. /\ Tail(appending) \in Seq(Seqs) /\ Head(appending) = appending[1]
      /\ Len(appending) \in Nat \ {0}
      /\ DOMAIN appending = 1 .. Len(appending)
      /\ DOMAIN Tail(appending) = 1 .. Len(appending) - 1
      /\ \A k \in 1 .. Len(appending) - 1 : Tail(appending)[k] = appending[k + 1]
  BY <1>1, HeadTailProperties
<1>3. Head(appending) \in Seqs /\ Head(appending) \in ToSet(appending)
  BY <1>1, <1>2 DEF ToSet
<1>4. IsInjection(Tail(appending))
  BY <1>1, <1>2 DEF IsInjection
<1>5. ASSUME NEW s \in ToSet(Tail(appending))
      PROVE  s \in ToSet(appending) \ {Head(appending)}
  BY <1>1, <1>2, <1>5 DEF ToSet, IsInjection
<1>6. ASSUME NEW s \in ToSet(appending), s # Head(appending)
      PROVE  s \in ToSet(Tail(appending))
  <2>1. PICK k \in 1 .. Len(appending) : appending[k] = s
    BY <1>2 DEF ToSet
  <2>2. k - 1 \in 1 .. Len(appending) - 1 /\ Tail(appending)[k - 1] = appending[k]
    BY <1>2, <1>6, <2>1
  <2>3. QED
    BY <1>2, <2>1, <2>2 DEF ToSet
<1>7. QED
  BY <1>1, <1>2, <1>3, <1>4, <1>5, <1>6 DEF Unprocessed

(* The sequence then has a slot of its own for its last token.  What a block  *)
(* is taken for is what NeedsBlock told.                                   *)
LEMMA SlotAppended ==
  ASSUME BlockInv, NEW s \in Seqs, NEW b,
         OnDevice(s, GpuBlocks), len[s] \in Nat, len[s] >= 2,
         Len(table[s]) = Blocks(len[s] - 1),
         NeedsBlock(s) => b \in free \intersect GpuBlocks,
         AppendSlots(s, LogicalBlocks(s), b)
  PROVE  /\ BlockInv' /\ (UNCHANGED blockVars \/ BlockNext)
         /\ Len(table'[s]) = Blocks(len[s]) /\ table'[s] # << >>
         /\ Held(s)' \subseteq Held(s) \union (free \intersect GpuBlocks)
         /\ Holders(LastBlock(s))' = {s}
         /\ \A q \in Seqs : q # s => table'[q] = table[q]
         /\ IF NeedsBlock(s)
              THEN /\ free \ {b} \subseteq free'
                   /\ \A c \in Block : c # b /\ ref[c] = 1 => ref'[c] = 1
              ELSE UNCHANGED blockVars
<1>1. /\ table[s] \in Seq(Block) /\ Len(table[s]) \in Nat /\ table[s] # << >>
      /\ DOMAIN table[s] = 1 .. Len(table[s]) /\ Len(table[s]) >= 1
      /\ LastBlock(s) \in Held(s) /\ LastBlock(s) \in Block /\ LastBlock(s) \notin free
  BY TableOf DEF OnDevice
<1>2. \/ LogicalBlocks(s) = Len(table[s])
      \/ LogicalBlocks(s) = Len(table[s]) + 1
  <2>1. PICK n \in Nat : n = len[s] /\ n # 0
    OBVIOUS
  <2>2. Blocks(n) = Blocks(n - 1) \/ Blocks(n) = Blocks(n - 1) + 1
    BY <2>1, BlocksOfTokens
  <2>3. QED
    BY <2>1, <2>2 DEF LogicalBlocks
<1>3. \A q \in Seqs : Held(q) \intersect free = {}
  BY TableOf
<1>4. CASE ~NeedsBlock(s)
  <2>1. ~(Len(table[s]) < LogicalBlocks(s)) /\ ref[LastBlock(s)] = 1
    BY <1>4 DEF NeedsBlock
  <2>2. UNCHANGED blockVars /\ UNCHANGED <<free, ref, table>>
    BY <2>1 DEF AppendSlots, blockVars
  <2>3. BlockInv'
    BY <2>2, StutterKeeps
  <2>4. LogicalBlocks(s) = Len(table[s])
    BY <1>1, <1>2, <2>1
  <2>5. Holders(LastBlock(s)) = {s}
    <3>1. PICK H : H = Holders(LastBlock(s))
      OBVIOUS
    <3>2. s \in H /\ H \in SUBSET Seqs
      BY <1>1, <3>1 DEF Holders
    <3>3. Cardinality(H) <= 1
      BY <1>1, <2>1, <3>1 DEF BlockInv, CountCoversHolders
    <3>4. Cardinality(H \ {s}) = Cardinality(H) - 1
      BY <3>2, BlockAssumption, CountRemove
    <3>5. Cardinality(H) \in Nat /\ Cardinality(H \ {s}) \in Nat
      BY <3>2, BlockAssumption, CountType
    <3>6. Cardinality(H \ {s}) = 0
      BY <3>3, <3>4, <3>5
    <3>7. H \ {s} = {}
      BY <3>2, <3>6, BlockAssumption, CountType
    <3>8. QED
      BY <3>1, <3>2, <3>7
  <2>6. Holders(LastBlock(s))' = {s} /\ Held(s)' = Held(s)
    BY <2>2, <2>5 DEF Holders, Held, LastBlock
  <2>7. QED
    BY <1>1, <1>4, <2>2, <2>3, <2>4, <2>6 DEF LogicalBlocks
<1>5. CASE NeedsBlock(s)
  <2>1. b \in free \intersect GpuBlocks /\ b \in Block
    BY <1>5 DEF Block
  <2>2. BlockInv'
    BY <2>1, BlockAssumption, AppendSlotsKeeps
  <2>3. BlockNext
    <3>1. LogicalBlocks(s) \in {Len(table[s]), Len(table[s]) + 1}
      BY <1>2
    <3>2. CallAppend
      BY <2>1, <3>1 DEF CallAppend
    <3>3. QED
      BY <3>2 DEF BlockNext
  <2>4. /\ \A q \in Seqs : q # s => table'[q] = table[q]
        /\ table'[s] \in Seq(Block) /\ Len(table'[s]) = LogicalBlocks(s)
        /\ table'[s][Len(table'[s])] = b
        /\ Held(s)' \subseteq Held(s) \union {b}
        /\ free \ {b} \subseteq free'
        /\ \A c \in Block : c # b /\ ref[c] = 1 => ref'[c] = 1
    <3>1. CASE Len(table[s]) < LogicalBlocks(s)
      <4>1. /\ table' = [table EXCEPT ![s] = Append(@, b)]
            /\ ref' = [ref EXCEPT ![b] = 1] /\ free' = free \ {b}
        BY <3>1 DEF AppendSlots, AppendBlock
      <4>2. table'[s] = Append(table[s], b) /\ \A q \in Seqs : q # s => table'[q] = table[q]
        BY <4>1 DEF BlockInv, BlockTypeOK
      <4>3. LogicalBlocks(s) = Len(table[s]) + 1
        BY <1>1, <1>2, <3>1
      <4>4. /\ Append(table[s], b) \in Seq(Block)
            /\ Entries(Append(table[s], b)) = Entries(table[s]) \union {b}
            /\ Append(table[s], b)[Len(table[s]) + 1] = b
        BY <1>1, <2>1, AppendFacts
      <4>5. Len(Append(table[s], b)) = Len(table[s]) + 1
        BY <1>1, <2>1
      <4>6. \A c \in Block : c # b /\ ref[c] = 1 => ref'[c] = 1
        BY <4>1 DEF BlockInv, BlockTypeOK
      <4>7. QED
        BY <4>1, <4>2, <4>3, <4>4, <4>5, <4>6 DEF Held
    <3>2. CASE ~(Len(table[s]) < LogicalBlocks(s))
      <4>1. ref[LastBlock(s)] # 1
        BY <1>5, <3>2 DEF NeedsBlock
      <4>2. /\ table' = [table EXCEPT ![s][Len(table[s])] = b]
            /\ ref' = [ref EXCEPT ![b] = 1, ![LastBlock(s)] = @ - 1]
            /\ free \ {b} \subseteq free'
        BY <3>2, <4>1 DEF AppendSlots, CopyOnWrite
      <4>3. /\ table'[s] = [table[s] EXCEPT ![Len(table[s])] = b]
            /\ \A q \in Seqs : q # s => table'[q] = table[q]
        BY <4>2 DEF BlockInv, BlockTypeOK
      <4>4. table'[s] \in Seq(Block) /\ DOMAIN table'[s] = 1 .. Len(table'[s])
            /\ Len(table'[s]) \in Nat
        BY <2>2 DEF BlockInv, BlockTypeOK
      <4>5. /\ DOMAIN table'[s] = 1 .. Len(table[s])
            /\ \A k \in 1 .. Len(table[s]) :
                 table'[s][k] = IF k = Len(table[s]) THEN b ELSE table[s][k]
        BY <1>1, <4>3
      <4>6. Len(table'[s]) = Len(table[s])
        BY <1>1, <4>4, <4>5
      <4>7. table'[s][Len(table'[s])] = b
        BY <1>1, <4>5, <4>6
      <4>8. Held(s)' \subseteq Held(s) \union {b}
        BY <1>1, <4>5 DEF Held, Entries
      <4>9. \A c \in Block : c # b /\ ref[c] = 1 => ref'[c] = 1
        BY <4>1, <4>2 DEF BlockInv, BlockTypeOK
      <4>10. LogicalBlocks(s) = Len(table[s])
        BY <1>1, <1>2, <3>2
      <4>11. QED
        BY <4>2, <4>3, <4>4, <4>6, <4>7, <4>8, <4>9, <4>10
    <3>3. QED
      BY <3>1, <3>2
  <2>5. Len(table'[s]) = Blocks(len[s]) /\ table'[s] # << >>
    <3>1. LogicalBlocks(s) >= 1
      BY <1>1, <1>2
    <3>2. QED
      BY <2>4, <3>1 DEF LogicalBlocks
  <2>6. Holders(LastBlock(s))' = {s}
    <3>1. LastBlock(s)' = b
      BY <2>4 DEF LastBlock
    <3>2. b \in Held(s)'
      <4>1. Len(table'[s]) \in DOMAIN table'[s]
        BY <2>4, <2>5
      <4>2. QED
        BY <2>4, <4>1 DEF Held, Entries
    <3>3. \A q \in Seqs : q # s => b \notin Held(q)'
      BY <1>3, <2>1, <2>4 DEF Held
    <3>4. QED
      BY <3>1, <3>2, <3>3 DEF Holders
  <2>7. QED
    BY <1>5, <2>1, <2>2, <2>3, <2>4, <2>5, <2>6
<1>6. QED
  BY <1>4, <1>5

(* The call of append_slots: the sequence is on the GPU, and if it needs a     *)
(* block, there is one.                                                    *)
LEMMA AppendCall ==
  ASSUME QueueInv, BlocksHeldInv, AppendSlot,
         NEW s, s = Head(appending), NEW b, b = Pick(1, GpuBlocks)[1]
  PROVE  /\ s \in Seqs /\ OnDevice(s, GpuBlocks)
         /\ AppendSlots(s, LogicalBlocks(s), b)
         /\ NeedsBlock(s) => b \in free \intersect GpuBlocks
<1>1. appending # << >> /\ AppendSlots(s, LogicalBlocks(s), b)
  BY DEF AppendSlot
<1>2. s \in Seqs /\ s \in ToSet(appending)
  BY <1>1, AppendingIs
<1>3. OnDevice(s, GpuBlocks)
  BY <1>2 DEF BlocksHeldInv, AppendingTold, TableTold
<1>4. ASSUME NeedsBlock(s)
      PROVE  b \in free \intersect GpuBlocks
  <2>1. PICK N : N = {q \in ToSet(appending) : NeedsBlock(q)}
    OBVIOUS
  <2>2. N \in SUBSET Seqs /\ Cardinality(N) <= NumFree(GpuBlocks)
    BY <2>1 DEF QueueInv, SchedulerTypeOK, ToSet, BlocksHeldInv, NeverOutOfBlocks
  <2>3. N # {}
    BY <1>2, <1>4, <2>1
  <2>4. Cardinality(N) \in Nat /\ Cardinality(N) # 0
    BY <2>2, <2>3, BlockAssumption, CountType
  <2>5. 1 <= NumFree(GpuBlocks)
    BY <2>2, <2>4, FreeCount
  <2>6. Pick(1, GpuBlocks) \in [1 .. 1 -> free \intersect GpuBlocks]
    BY <2>5, PickIs
  <2>7. QED
    BY <2>6
<1>5. QED
  BY <1>1, <1>2, <1>3, <1>4

LEMMA AppendSlotBlocks ==
  ASSUME QueueInv, BlocksHeldInv, AppendSlot
  PROVE  BlocksStep
<1>1. PICK s : s = Head(appending)
  OBVIOUS
<1>2. PICK b : b = Pick(1, GpuBlocks)[1]
  OBVIOUS
<1>3. PICK A : A = ToSet(appending)
  OBVIOUS
<1>4. /\ appending # << >> /\ appending' = Tail(appending)
      /\ AppendSlots(s, LogicalBlocks(s), b)
      /\ UNCHANGED <<status, len, batch, emitted>>
  BY <1>1, <1>2 DEF AppendSlot, seqVars
<1>5. /\ ~emitted /\ Unprocessed = batch /\ Unprocessed' = batch
      /\ s \in Seqs /\ s \in A
      /\ appending' \in Seq(Seqs) /\ IsInjection(appending') /\ ToSet(appending') = A \ {s}
  BY <1>1, <1>3, <1>4, AppendingIs DEF Unprocessed
<1>6. /\ BlockInv /\ GroupsShareNothing /\ AppendingTold /\ NeverOutOfBlocks
      /\ \A q \in Seqs : TableTold(q) /\ SlotsTold(q)
      /\ len \in [Seqs -> Nat] /\ appending \in Seq(Seqs)
  BY DEF BlocksHeldInv, QueueInv, SchedulerTypeOK
<1>7. status[s] = "running" /\ s[1] \in ToSet(batch) /\ ~HasSlots(s)
  BY <1>3, <1>5, <1>6 DEF AppendingTold, HasSlots
<1>8. /\ OnDevice(s, GpuBlocks) /\ len[s] \in Nat /\ len[s] >= 2
      /\ Len(table[s]) = Blocks(len[s] - 1)
  BY <1>5, <1>6, <1>7 DEF TableTold, SlotsTold
<1>9. PICK N : N = {q \in A : NeedsBlock(q)}
  OBVIOUS
<1>10. /\ A \in SUBSET Seqs /\ N \in SUBSET Seqs /\ IsFiniteSet(N) /\ Cardinality(N) \in Nat
       /\ NumFree(GpuBlocks) \in Nat /\ Cardinality(N) <= NumFree(GpuBlocks)
  <2>1. A \in SUBSET Seqs
    BY <1>3, <1>6 DEF ToSet
  <2>2. N \in SUBSET Seqs
    BY <1>9, <2>1
  <2>3. Cardinality(N) <= NumFree(GpuBlocks)
    BY <1>3, <1>6, <1>9 DEF NeverOutOfBlocks
  <2>4. QED
    BY <2>1, <2>2, <2>3, FreeCount, BlockAssumption, CountType
<1>11. ASSUME NeedsBlock(s)
       PROVE  b \in free \intersect GpuBlocks
  BY <1>1, <1>2, <1>11, AppendCall
<1>12. /\ BlockInv' /\ (UNCHANGED blockVars \/ BlockNext)
       /\ Len(table'[s]) = Blocks(len[s]) /\ table'[s] # << >>
       /\ Held(s)' \subseteq Held(s) \union (free \intersect GpuBlocks)
       /\ Holders(LastBlock(s))' = {s}
       /\ \A q \in Seqs : q # s => table'[q] = table[q]
       /\ IF NeedsBlock(s)
            THEN /\ free \ {b} \subseteq free'
                 /\ \A c \in Block : c # b /\ ref[c] = 1 => ref'[c] = 1
            ELSE UNCHANGED blockVars
  <2>1. NeedsBlock(s) => b \in free \intersect GpuBlocks
    BY <1>11
  <2>2. QED
    BY <1>4, <1>5, <1>6, <1>8, <2>1, SlotAppended
<1>13. \A q \in Seqs : q # s => Held(q)' = Held(q)
  BY <1>12 DEF Held
<1>14. \A q \in Seqs : Held(q) \intersect free = {}
  BY <1>6, TableOf
<1>15. ASSUME NEW q \in Seqs
       PROVE  TableTold(q)'
  <2>1. TableTold(q)
    BY <1>6
  <2>2. CASE q = s
    <3>1. OnDevice(s, GpuBlocks)'
      BY <1>8, <1>12 DEF OnDevice
    <3>2. QED
      BY <1>4, <1>7, <2>1, <2>2, <3>1 DEF TableTold
  <2>3. CASE q # s
    <3>1. table'[q] = table[q] /\ Held(q)' = Held(q)
      BY <1>12, <1>13, <2>3
    <3>2. QED
      BY <1>4, <2>1, <3>1 DEF TableTold, OnDevice
  <2>4. QED
    BY <2>2, <2>3
<1>16. ASSUME NEW q \in Seqs
       PROVE  SlotsTold(q)'
  <2>1. CASE q = s
    <3>1. HasSlots(q)'
      BY <1>5, <1>7, <2>1 DEF HasSlots
    <3>2. len'[q] = len[q]
      BY <1>4
    <3>3. QED
      BY <1>12, <2>1, <3>1, <3>2 DEF SlotsTold, Blocks
  <2>2. CASE q # s
    <3>1. SlotsTold(q) /\ TableTold(q)
      BY <1>6
    <3>2. table'[q] = table[q] /\ status'[q] = status[q] /\ len'[q] = len[q]
          /\ LastBlock(q)' = LastBlock(q)
      BY <1>4, <1>12, <2>2 DEF LastBlock
    <3>3. HasSlots(q)' <=> HasSlots(q)
      BY <1>3, <1>5, <2>2 DEF HasSlots
    <3>4. Holders(LastBlock(q)) = {q} /\ table[q] # << >> => Holders(LastBlock(q))' = {q}
      <4> SUFFICES ASSUME Holders(LastBlock(q)) = {q}, table[q] # << >>
                   PROVE  Holders(LastBlock(q))' = {q}
        OBVIOUS
      <4>1. PICK c : c = LastBlock(q)
        OBVIOUS
      <4>2. c \in Held(q) /\ c \notin free /\ c \notin Held(s)
        <5>1. c \in Held(q)
          BY <1>6, <4>1, TableOf
        <5>2. c \notin Held(s)
          BY <1>5, <2>2, <4>1 DEF Holders
        <5>3. QED
          BY <1>14, <5>1, <5>2
      <4>3. c \notin Held(s)'
        BY <1>12, <4>2
      <4>4. \A t \in Seqs : c \in Held(t)' <=> c \in Held(t)
        BY <1>13, <4>2, <4>3
      <4>5. Holders(c)' = Holders(c)
        BY <4>4 DEF Holders
      <4>6. QED
        BY <3>2, <4>1, <4>5 DEF Holders
    <3>5. status[q] \in {"running", "swapped"} => table[q] # << >>
      BY <3>1 DEF TableTold, OnDevice
    <3>6. QED
      BY <3>1, <3>2, <3>3, <3>4, <3>5 DEF SlotsTold, Blocks
  <2>3. QED
    BY <2>1, <2>2
<1>17. GroupsShareNothing'
  <2>1. \A p, q \in Seqs : p[1] # q[1] => Held(p) \intersect Held(q) = {}
    BY <1>6 DEF GroupsShareNothing
  <2>2. ASSUME NEW p \in Seqs, NEW q \in Seqs, p[1] # q[1]
        PROVE  Held(p)' \intersect Held(q)' = {}
    <3>1. Held(p) \intersect Held(q) = {}
      BY <2>1, <2>2
    <3>2. CASE p # s /\ q # s
      BY <1>13, <3>1, <3>2
    <3>3. CASE p = s
      BY <1>12, <1>13, <1>14, <2>2, <3>1, <3>3
    <3>4. CASE q = s
      BY <1>12, <1>13, <1>14, <2>2, <3>1, <3>4
    <3>5. QED
      BY <3>2, <3>3, <3>4
  <2>3. QED
    BY <2>2 DEF GroupsShareNothing
<1>18. AppendingTold'
  BY <1>3, <1>4, <1>5, <1>6 DEF AppendingTold
(* What another sequence needs no block for, it still does not. *)
<1>19. ASSUME NEW q \in A \ {s}, ~NeedsBlock(q)
       PROVE  ~NeedsBlock(q)'
  <2>1. q \in Seqs /\ table'[q] = table[q] /\ len'[q] = len[q] /\ LastBlock(q)' = LastBlock(q)
    BY <1>4, <1>10, <1>12 DEF LastBlock
  <2>2. ref[LastBlock(q)] = 1 /\ ~(Len(table[q]) < LogicalBlocks(q))
    BY <1>19 DEF NeedsBlock
  <2>3. ~(Len(table'[q]) < LogicalBlocks(q)')
    BY <2>1, <2>2 DEF LogicalBlocks, Blocks
  <2>4. ref'[LastBlock(q)] = 1
    <3>1. CASE NeedsBlock(s)
      <4>1. status[q] = "running"
        BY <1>3, <1>6 DEF AppendingTold
      <4>2. table[q] # << >>
        BY <1>6, <2>1, <4>1 DEF TableTold, OnDevice
      <4>3. LastBlock(q) \in Held(q) /\ LastBlock(q) \in Block
        BY <1>6, <2>1, <4>2, TableOf
      <4>4. LastBlock(q) # b
        BY <1>11, <1>14, <2>1, <3>1, <4>3
      <4>5. QED
        BY <1>12, <2>2, <3>1, <4>3, <4>4
    <3>2. CASE ~NeedsBlock(s)
      BY <1>12, <2>2, <3>2 DEF blockVars
    <3>3. QED
      BY <3>1, <3>2
  <2>5. QED
    BY <2>1, <2>3, <2>4 DEF NeedsBlock
<1>20. NeverOutOfBlocks'
  <2>1. PICK M : M = {q \in A \ {s} : NeedsBlock(q)'}
    OBVIOUS
  <2>2. M \subseteq N \ {s} /\ IsFiniteSet(M) /\ Cardinality(M) \in Nat
    <3>1. M \subseteq N \ {s}
      BY <1>9, <1>19, <2>1
    <3>2. QED
      BY <1>10, <3>1, FS_Subset, FS_CardinalityType
  <2>3. NumFree(GpuBlocks)' \in Nat
    BY FreeCountNext
  <2>4. Cardinality(M) <= NumFree(GpuBlocks)'
    <3>1. CASE ~NeedsBlock(s)
      <4>1. NumFree(GpuBlocks)' = NumFree(GpuBlocks)
        BY <1>12, <3>1 DEF blockVars, NumFree
      <4>2. Cardinality(M) <= Cardinality(N)
        BY <1>10, <2>2, FS_Subset
      <4>3. QED
        BY <1>10, <2>2, <4>1, <4>2
    <3>2. CASE NeedsBlock(s)
      <4>1. s \in N
        BY <1>5, <1>9, <3>2
      <4>2. IsFiniteSet(N \ {s}) /\ Cardinality(N \ {s}) = Cardinality(N) - 1
        BY <1>10, <4>1, FS_RemoveElement
      <4>3. Cardinality(M) <= Cardinality(N) - 1
        BY <2>2, <4>2, FS_Subset
      <4>4. PICK F : F = free \intersect GpuBlocks
        OBVIOUS
      <4>5. PICK F2 : F2 = free' \intersect GpuBlocks
        OBVIOUS
      <4>6. b \in F /\ F \ {b} \subseteq F2
        BY <1>11, <1>12, <3>2, <4>4, <4>5
      <4>7. IsFiniteSet(F) /\ IsFiniteSet(F2)
        <5>1. IsFiniteSet(GpuBlocks)
          BY SchedulerAssumption DEF SchedulerAssumption
        <5>2. QED
          BY <4>4, <4>5, <5>1, FS_Subset
      <4>8. Cardinality(F \ {b}) = Cardinality(F) - 1
        BY <4>6, <4>7, FS_RemoveElement
      <4>9. Cardinality(F \ {b}) <= Cardinality(F2)
        BY <4>6, <4>7, FS_Subset
      <4>10. Cardinality(F) = NumFree(GpuBlocks) /\ Cardinality(F2) = NumFree(GpuBlocks)'
        BY <4>4, <4>5 DEF NumFree
      <4>11. QED
        BY <1>10, <2>2, <2>3, <4>3, <4>8, <4>9, <4>10
    <3>3. QED
      BY <3>1, <3>2
  <2>5. QED
    BY <1>5, <2>1, <2>4 DEF NeverOutOfBlocks
<1>21. BlocksHeldInv'
  BY <1>12, <1>15, <1>16, <1>17, <1>18, <1>20 DEF BlocksHeldInv
<1>22. QED
  BY <1>12, <1>21 DEF BlocksStep

-----------------------------------------------------------------------------
LEMMA InitBlocks == Init => BlocksHeldInv
<1> SUFFICES ASSUME Init PROVE BlocksHeldInv
  OBVIOUS
<1>1. /\ BlockInit /\ appending = << >> /\ status = [s \in Seqs |-> "none"]
      /\ table = [s \in Seqs |-> << >>]
  BY DEF Init, BlockInit
<1>2. BlockInv
  BY <1>1, BlockAssumption, InitInv
<1>3. \A s \in Seqs : TableTold(s) /\ SlotsTold(s)
  BY <1>1 DEF TableTold, SlotsTold
<1>4. GroupsShareNothing
  BY <1>1, <1>2, TableOf DEF GroupsShareNothing
<1>5. AppendingTold /\ NeverOutOfBlocks
  BY <1>1, NothingToAppend, FreeCount
<1>6. QED
  BY <1>2, <1>3, <1>4, <1>5 DEF BlocksHeldInv

LEMMA NextBlocks == QueueInv /\ BlocksHeldInv /\ [Next]_vars => BlocksStep
<1> SUFFICES ASSUME QueueInv, BlocksHeldInv, [Next]_vars PROVE BlocksStep
  OBVIOUS
<1>1. CASE \E g \in Group : AddRequest(g) \/ AbortRequest(g)
  BY <1>1, AddRequestBlocks, AbortRequestBlocks
<1>2. CASE Ignore \/ Admit \/ ScheduleDecode \/ AppendSlot
  BY <1>2, IgnoreBlocks, AdmitBlocks, ScheduleDecodeBlocks, AppendSlotBlocks
<1>3. CASE PreemptByRecompute \/ PreemptBySwap \/ ScheduleSwapped
  BY <1>3, PreemptByRecomputeBlocks, PreemptBySwapBlocks, ScheduleSwappedBlocks
<1>4. CASE ProcessOutput \/ FreeFinished
  BY <1>4, ProcessOutputBlocks, FreeFinishedBlocks
<1>5. CASE BeginStep \/ EndPrefill \/ EndRunning \/ EndSwapped \/ Close
             \/ LackSwapSpace \/ FailSwapIn \/ EndStep \/ UNCHANGED vars
  BY <1>5, ListsMoveBlocks
<1>6. QED
  BY <1>1, <1>2, <1>3, <1>4, <1>5 DEF Next, EngineStep

(* The model is run on slots that are there and belong to one sequence. *)
LEMMA SlotsNow == QueueInv /\ BlocksHeldInv => SlotsForBatch
<1> SUFFICES ASSUME QueueInv, BlocksHeldInv, NEW g \in Executing,
                    NEW s \in WithStatus(g, "running")
             PROVE  /\ Len(table[s]) = LogicalBlocks(s)
                    /\ Held(s) \subseteq GpuBlocks
                    /\ Holders(LastBlock(s)) = {s}
  BY DEF SlotsForBatch
<1>1. s \in Seqs /\ s[1] = g /\ status[s] = "running"
  BY DEF WithStatus, Members
<1>2. phase = "output" /\ g \in ToSet(Unprocessed)
  BY DEF Executing, Unprocessed
<1>3. ToSet(appending) = {}
  BY <1>2, EmptyNames DEF QueueInv, PhaseShape, Names
<1>4. HasSlots(s)
  BY <1>1, <1>2, <1>3 DEF HasSlots
<1>5. TableTold(s) /\ SlotsTold(s)
  BY <1>1 DEF BlocksHeldInv
<1>6. QED
  BY <1>1, <1>4, <1>5 DEF TableTold, SlotsTold, OnDevice, LogicalBlocks

(* What the status and the queue of a sequence tell of its blocks is true in  *)
(* every state.                                                            *)
THEOREM BlocksInvariant == Spec => [](QueueInv /\ BlocksHeldInv)
<1>1. Init => QueueInv /\ BlocksHeldInv
  BY InitQueues, InitBlocks
<1>2. QueueInv /\ BlocksHeldInv /\ [Next]_vars => (QueueInv /\ BlocksHeldInv)'
  BY NextQueues, NextBlocks DEF BlocksStep
<1>3. QED
  BY <1>1, <1>2, PTL DEF Spec

(* Every step of the engine is a legal call of the block manager or leaves    *)
(* the blocks alone: the engine implements BlockSpec.                      *)
THEOREM EngineCallsBlocks == Spec => CallsBlocks
<1>1. Init => BlockInit
  BY DEF Init
<1>2. QueueInv /\ BlocksHeldInv /\ [Next]_vars => [UNCHANGED blockVars \/ BlockNext]_blockVars
  BY NextBlocks DEF BlocksStep
<1>3. QED
  BY <1>1, <1>2, BlocksInvariant, PTL DEF Spec, CallsBlocks

(* No block the engine reads or writes is on a free list. *)
THEOREM EngineUsesNoFreeBlock == Spec => []InUseNotFree
<1>1. BlocksHeldInv => InUseNotFree
  BY BlockAssumption, InvImpliesInUseNotFree DEF BlocksHeldInv
<1>2. QED
  BY <1>1, BlocksInvariant, PTL

(* The one look at the free blocks before a group is scheduled is enough: no  *)
(* append_slots finds the device full.                                     *)
THEOREM EngineNeverOutOfBlocks == Spec => []NeverOutOfBlocks
<1>1. BlocksHeldInv => NeverOutOfBlocks
  BY DEF BlocksHeldInv
<1>2. QED
  BY <1>1, BlocksInvariant, PTL

(* When the model runs, each sequence of the batch has a slot of its own for  *)
(* every token, on the GPU.                                                *)
THEOREM EngineHasSlots == Spec => []SlotsForBatch
BY BlocksInvariant, SlotsNow, PTL

-----------------------------------------------------------------------------
(* The budget.  A sequence that exists goes on to exist, and one with tokens   *)
(* to compute had some before or is new.                                   *)
Forward ==
  /\ bestOf' = bestOf
  /\ \A s \in Seqs :
       /\ status[s] # "none" => status'[s] # "none"
       /\ status'[s] \in Unfinished => status[s] \in Unfinished \union {"none"}

LEMMA StatusFromForward ==
  ASSUME NEW S, NEW st, bestOf' = bestOf, status' = SetStatus(S, st),
         st # "none", \A s \in S : status[s] \in Unfinished
  PROVE  Forward
BY DEF Forward, SetStatus

LEMMA ProcessOutputForward ==
  ASSUME QueueInv, ProcessOutput
  PROVE  Forward
<1>1. PICK g : g = Head(batch)
  OBVIOUS
<1>2. /\ bestOf' = bestOf
      /\ prompt /\ bestOf[g] = 2 => \E k \in 1 .. Copies : status[<<g, k>>] = "none"
  BY <1>1 DEF ProcessOutput
<1>3. g \in Group
  BY <1>1, QueueTypes, TailNames DEF QueueInv, ProcessOutput, Names
<1>4. \A s \in NewChild(g) : status[s] = "none"
  BY <1>2, <1>3, NewChildIs
<1>5. \A s \in WithStatus(g, "running") : status[s] = "running"
  BY DEF WithStatus
<1>6. PICK extended : extended = WithStatus(g, "running") \union NewChild(g)
  OBVIOUS
<1>7. PICK stopped \in SUBSET extended :
        status' = [s \in Seqs |-> CASE s \in stopped -> "finished"
                                    [] s \in extended \ stopped -> "running"
                                    [] OTHER -> status[s]]
  BY <1>1, <1>6 DEF ProcessOutput
<1>8. ASSUME NEW s \in Seqs
      PROVE  /\ status[s] # "none" => status'[s] # "none"
             /\ status'[s] \in Unfinished => status[s] \in Unfinished \union {"none"}
  <2>1. CASE s \in extended
    <3>1. status'[s] \in {"finished", "running"}
      BY <1>7, <2>1
    <3>2. status[s] \in {"running", "none"}
      BY <1>4, <1>5, <1>6, <2>1
    <3>3. QED
      BY <3>1, <3>2 DEF Unfinished
  <2>2. CASE s \notin extended
    <3>1. status'[s] = status[s]
      BY <1>7, <2>2
    <3>2. QED
      BY <3>1
  <2>3. QED
    BY <2>1, <2>2
<1>9. QED
  BY <1>2, <1>8 DEF Forward

LEMMA NextForward ==
  ASSUME QueueInv, [Next]_vars
  PROVE  Forward
<1>1. \A g, st : \A s \in WithStatus(g, st) : status[s] = st
  BY DEF WithStatus
<1>2. \A g : \A s \in UnfinishedSeqs(g) : status[s] \in Unfinished
  BY DEF UnfinishedSeqs
<1>3. {"waiting", "running", "swapped"} = Unfinished
  BY DEF Unfinished
<1>4. CASE UNCHANGED <<status, bestOf>>
  BY <1>4 DEF Forward
<1>5. CASE Ignore
  <2>1. /\ bestOf' = bestOf
        /\ status' = SetStatus(WithStatus(Head(waiting), "waiting"), "ignored")
    BY <1>5 DEF Ignore
  <2>2. QED
    BY <1>1, <1>3, <2>1, StatusFromForward
<1>6. CASE PreemptByRecompute
  <2>1. /\ bestOf' = bestOf
        /\ status' = SetStatus(WithStatus(Victim, "running"), "waiting")
    BY <1>6 DEF PreemptByRecompute
  <2>2. QED
    BY <1>1, <1>3, <2>1, StatusFromForward
<1>7. CASE PreemptBySwap
  <2>1. /\ bestOf' = bestOf
        /\ status' = SetStatus(WithStatus(Victim, "running"), "swapped")
    BY <1>7 DEF PreemptBySwap
  <2>2. QED
    BY <1>1, <1>3, <2>1, StatusFromForward
<1>8. CASE ScheduleSwapped
  <2>1. /\ bestOf' = bestOf
        /\ status' = SetStatus(WithStatus(Head(swapped), "swapped"), "running")
    BY <1>8 DEF ScheduleSwapped
  <2>2. QED
    BY <1>1, <1>3, <2>1, StatusFromForward
<1>9. ASSUME NEW g \in Group, AbortRequest(g)
      PROVE  Forward
  <2>1. bestOf' = bestOf /\ status' = SetStatus(UnfinishedSeqs(g), "aborted")
    BY <1>9 DEF AbortRequest
  <2>2. QED
    BY <1>2, <2>1, StatusFromForward
<1>10. ASSUME NEW g \in Group, AddRequest(g)
       PROVE  Forward
  <2>1. /\ bestOf' = bestOf /\ Members(g) = {}
        /\ status' = [status EXCEPT ![<<g, 1>>] = "waiting"]
    BY <1>10 DEF AddRequest
  <2>2. <<g, 1>> \in Seqs => status[<<g, 1>>] = "none"
    BY <2>1 DEF Members
  <2>3. status \in [Seqs -> Statuses]
    BY DEF QueueInv, SchedulerTypeOK
  <2>4. QED
    BY <2>1, <2>2, <2>3 DEF Forward
<1>11. CASE Admit
  <2>1. PICK s : s = WaitingSeq(Head(waiting))
    OBVIOUS
  <2>2. bestOf' = bestOf /\ status' = [status EXCEPT ![s] = "running"] /\ waiting # << >>
    BY <1>11, <2>1 DEF Admit
  <2>3. OneWaiting(Head(waiting))
    BY <2>2, QueueTypes, TailNames DEF QueueInv, StatusTold, Names
  <2>4. status[s] = "waiting"
    BY <2>1, <2>3, TheWaitingSeq
  <2>5. status \in [Seqs -> Statuses]
    BY DEF QueueInv, SchedulerTypeOK
  <2>6. QED
    BY <1>3, <2>2, <2>4, <2>5 DEF Forward
<1>12. CASE BeginStep \/ EndPrefill \/ ScheduleDecode \/ AppendSlot \/ LackSwapSpace
              \/ EndRunning \/ FailSwapIn \/ EndSwapped
  <2>1. UNCHANGED <<status, bestOf>>
    BY <1>12 DEF BeginStep, EndPrefill, ScheduleDecode, AppendSlot, LackSwapSpace,
         EndRunning, FailSwapIn, EndSwapped, seqVars
  <2>2. QED
    BY <1>4, <2>1
<1>13. CASE Close \/ FreeFinished \/ EndStep \/ UNCHANGED vars
  <2>1. UNCHANGED <<status, bestOf>>
    BY <1>13 DEF Close, FreeFinished, EndStep, seqVars, vars
  <2>2. QED
    BY <1>4, <2>1
<1>14. QED
  BY <1>5, <1>6, <1>7, <1>8, <1>9, <1>10, <1>11, <1>12, <1>13, ProcessOutputForward
     DEF Next, EngineStep

(* Groups that were sampled once were never sampled twice. *)
LEMMA SampledOnceBefore ==
  ASSUME Forward, SampledOnce', SchedulerTypeOK
  PROVE  SampledOnce
<1> SUFFICES ASSUME NEW g \in Group PROVE Cardinality(Members(g)) <= bestOf[g]
  BY DEF SampledOnce
<1>1. Members(g) \subseteq Members(g)'
  BY DEF Forward, Members
<1>2. IsFiniteSet(Members(g)')
  <2>1. Members(g)' \subseteq Seqs
    BY DEF Members
  <2>2. QED
    BY <2>1, GroupNumbers, FS_Subset
<1>3. Cardinality(Members(g)') <= bestOf[g]
  BY DEF SampledOnce, Forward
<1>4. /\ Cardinality(Members(g)) <= Cardinality(Members(g)')
      /\ Cardinality(Members(g)) \in Nat /\ Cardinality(Members(g)') \in Nat
  BY <1>1, <1>2, FS_Subset, FS_CardinalityType, SetsOfGroup
<1>5. bestOf[g] \in 1 .. 2
  BY DEF SchedulerTypeOK
<1>6. QED
  BY <1>3, <1>4, <1>5

(* The sequences a group may come to run are never more than they were. *)
LEMMA MaxRunningFalls ==
  ASSUME SchedulerTypeOK, Forward, SampledOnce', NEW g \in Group
  PROVE  MaxRunning(g)' \in Nat /\ MaxRunning(g) \in Nat /\ MaxRunning(g)' <= MaxRunning(g)
<1>1. bestOf[g] \in 1 .. 2 /\ bestOf'[g] = bestOf[g]
  BY DEF SchedulerTypeOK, Forward
<1>2. Members(g)' \subseteq Seqs /\ UnfinishedSeqs(g)' \subseteq Members(g)'
  BY DEF Members, UnfinishedSeqs
<1>3. PICK m : m = Cardinality(Members(g))
  OBVIOUS
<1>4. PICK n : n = Cardinality(Members(g)')
  OBVIOUS
<1>5. PICK u : u = Cardinality(UnfinishedSeqs(g))
  OBVIOUS
<1>6. PICK v : v = Cardinality(UnfinishedSeqs(g)')
  OBVIOUS
<1>7. IsFiniteSet(Members(g)') /\ IsFiniteSet(UnfinishedSeqs(g)')
  BY <1>2, GroupNumbers, FS_Subset
<1>8. m \in Nat /\ n \in Nat /\ u \in Nat /\ v \in Nat /\ v <= n
  BY <1>2, <1>3, <1>4, <1>5, <1>6, <1>7, SetsOfGroup, FS_CardinalityType, FS_Subset
<1>9. n <= bestOf[g]
  BY <1>1, <1>4 DEF SampledOnce
<1>10. Members(g) \subseteq Members(g)'
  BY DEF Forward, Members
<1>11. m <= n /\ (m = n => Members(g) = Members(g)')
  BY <1>3, <1>4, <1>7, <1>10, FS_Subset
<1>12. m = n => v <= u
  <2> SUFFICES ASSUME m = n PROVE v <= u
    OBVIOUS
  <2>1. Members(g) = Members(g)'
    BY <1>11
  <2>2. UnfinishedSeqs(g)' \subseteq UnfinishedSeqs(g)
    BY <2>1 DEF Forward, UnfinishedSeqs, Members
  <2>3. QED
    BY <1>5, <1>6, <2>2, SetsOfGroup, FS_Subset
<1>13. MaxRunning(g) = IF bestOf[g] > m THEN bestOf[g] ELSE u
  BY <1>3, <1>5 DEF MaxRunning
<1>14. MaxRunning(g)' = IF bestOf[g] > n THEN bestOf[g] ELSE v
  BY <1>1, <1>4, <1>6 DEF MaxRunning
<1>15. QED
  BY <1>1, <1>8, <1>9, <1>11, <1>12, <1>13, <1>14

LEMMA MaxRunningType ==
  ASSUME SchedulerTypeOK, NEW g \in Group
  PROVE  MaxRunning(g) \in Nat
<1>1. bestOf[g] \in 1 .. 2
  BY DEF SchedulerTypeOK
<1>2. QED
  BY <1>1, SetsOfGroup DEF MaxRunning

(* As many seats as a number says. *)
LEMMA SeatsOfOne ==
  ASSUME NEW g, NEW n \in Nat
  PROVE  IsFiniteSet({g} \X (1 .. n)) /\ Cardinality({g} \X (1 .. n)) = n
<1> DEFINE f == [k \in 1 .. n |-> <<g, k>>]
<1>1. f \in Bijection(1 .. n, {g} \X (1 .. n))
  <2>1. f \in [1 .. n -> {g} \X (1 .. n)]
    OBVIOUS
  <2>2. \A j, k \in 1 .. n : f[j] = f[k] => j = k
    OBVIOUS
  <2>3. \A p \in {g} \X (1 .. n) : \E k \in 1 .. n : f[k] = p
    OBVIOUS
  <2>4. QED
    BY <2>1, <2>2, <2>3, Fun_IsBij
<1>2. ExistsBijection(1 .. n, {g} \X (1 .. n))
  BY <1>1 DEF ExistsBijection
<1>3. IsFiniteSet(1 .. n) /\ Cardinality(1 .. n) = n
  BY FS_Interval
<1>4. QED
  BY <1>2, <1>3, FS_Bijection

LEMMA SeatsFinite ==
  ASSUME SchedulerTypeOK, NEW G \in SUBSET Group
  PROVE  IsFiniteSet(Seats(G)) /\ Cardinality(Seats(G)) \in Nat
<1> DEFINE room == [g \in Group |-> MaxRunning(g)]
<1>1. \A g \in Group : MaxRunning(g) \in 0 .. Cardinality(Seqs) + 2
  <2> SUFFICES ASSUME NEW g \in Group PROVE MaxRunning(g) \in 0 .. Cardinality(Seqs) + 2
    OBVIOUS
  <2>1. bestOf[g] \in 1 .. 2
    BY DEF SchedulerTypeOK
  <2>2. UnfinishedSeqs(g) \subseteq Seqs
    BY SetsOfGroup
  <2>3. Cardinality(UnfinishedSeqs(g)) <= Cardinality(Seqs)
    BY <2>2, GroupNumbers, FS_Subset
  <2>4. Cardinality(Seqs) \in Nat /\ Cardinality(UnfinishedSeqs(g)) \in Nat
    BY GroupNumbers, FS_CardinalityType, SetsOfGroup
  <2>5. MaxRunning(g) \in {bestOf[g], Cardinality(UnfinishedSeqs(g))}
    BY DEF MaxRunning
  <2>6. QED
    BY <2>1, <2>3, <2>4, <2>5
<1>2. PICK n : n = Cardinality(Seqs) + 2
  OBVIOUS
<1>3. n \in Nat
  BY <1>2, GroupNumbers, FS_CardinalityType
<1>4. Seats(G) \subseteq Group \X (1 .. n)
  <2> SUFFICES ASSUME NEW g \in G, NEW k \in 1 .. MaxRunning(g)
               PROVE  <<g, k>> \in Group \X (1 .. n)
    BY DEF Seats
  <2>1. g \in Group /\ MaxRunning(g) \in 0 .. n
    BY <1>1, <1>2
  <2>2. QED
    BY <1>3, <2>1
<1>5. IsFiniteSet(Group \X (1 .. n))
  <2>1. IsFiniteSet(Group) /\ IsFiniteSet(1 .. n)
    BY <1>3, FS_Interval, SchedulerAssumption DEF SchedulerAssumption
  <2>2. QED
    BY <2>1, FS_Product
<1>6. QED
  BY <1>4, <1>5, FS_Subset, FS_CardinalityType

(* What is seated is seated still. *)
LEMMA SeatsFall ==
  ASSUME SchedulerTypeOK, Forward, SampledOnce', NEW G \in SUBSET Group, NEW H \in SUBSET G
  PROVE  Seats(H)' \subseteq Seats(G)
<1> SUFFICES ASSUME NEW g \in H, NEW k \in 1 .. MaxRunning(g)'
             PROVE  <<g, k>> \in Seats(G)
  BY DEF Seats
<1>1. g \in G /\ g \in Group
  OBVIOUS
<1>2. /\ MaxRunning(g)' \in Nat /\ MaxRunning(g) \in Nat
      /\ MaxRunning(g)' <= MaxRunning(g)
  BY <1>1, MaxRunningFalls
<1>3. k \in 1 .. MaxRunning(g)
  BY <1>2
<1>4. QED
  BY <1>1, <1>3 DEF Seats

LEMMA SeatedTypes ==
  ASSUME QueueInv
  PROVE  Seated \in SUBSET Group
BY QueueTypes DEF QueueInv, Seated

(* A step that seats no group, and counts those seated while more can still   *)
(* be admitted.                                                            *)
LEMMA BudgetFalls ==
  ASSUME QueueInv, BudgetInv, Forward, Seated' \subseteq Seated, counted' \subseteq Group,
         StillAdmits' => (StillAdmits /\ counted' = counted) \/ Seated' \subseteq counted',
         prompt' /\ phase' \in {"prefill", "close"} => BatchTokens' <= TokenBudget
  PROVE  BudgetInv'
<1>1. StillAdmits' => Seated' \subseteq counted'
  BY DEF BudgetInv
<1>2. ASSUME SampledOnce'
      PROVE  Cardinality(Seats(Seated))' <= MaxNumSeqs
  <2>1. PICK G : G = Seated
    OBVIOUS
  <2>2. PICK H : H = Seated'
    OBVIOUS
  <2>3. G \in SUBSET Group /\ H \in SUBSET G
    BY <2>1, <2>2, SeatedTypes
  <2>4. SchedulerTypeOK
    BY DEF QueueInv
  <2>5. Seats(H)' \subseteq Seats(G)
    BY <1>2, <2>3, <2>4, SeatsFall
  <2>6. IsFiniteSet(Seats(G)) /\ Cardinality(Seats(G)) \in Nat
    BY <2>3, <2>4, SeatsFinite
  <2>7. PICK A : A = Seats(H)'
    OBVIOUS
  <2>8. Cardinality(A) <= Cardinality(Seats(G)) /\ Cardinality(A) \in Nat
    BY <2>5, <2>6, <2>7, FS_Subset, FS_CardinalityType
  <2>9. Cardinality(Seats(G)) <= MaxNumSeqs
    BY <1>2, <2>1, <2>4, SampledOnceBefore DEF BudgetInv
  <2>10. Seats(Seated)' = A
    BY <2>2, <2>7 DEF Seats
  <2>11. MaxNumSeqs \in Nat
    BY SchedulerAssumption DEF SchedulerAssumption
  <2>12. QED
    BY <2>6, <2>8, <2>9, <2>10, <2>11
<1>3. QED
  BY <1>1, <1>2 DEF BudgetInv

(* A step that seats a group the budget had room for. *)
LEMMA BudgetAdmits ==
  ASSUME QueueInv, BudgetInv, Forward, StillAdmits, NEW g \in Group,
         CurrSeqs + MaxRunning(g) <= MaxNumSeqs,
         Seated' \subseteq Seated \union {g}, counted' = counted \union {g},
         prompt' /\ phase' \in {"prefill", "close"} => BatchTokens' <= TokenBudget
  PROVE  BudgetInv'
<1>1. counted' \subseteq Group /\ Seated' \subseteq counted'
  BY DEF BudgetInv
<1>2. ASSUME SampledOnce'
      PROVE  Cardinality(Seats(Seated))' <= MaxNumSeqs
  <2>1. PICK G : G = counted
    OBVIOUS
  <2>2. PICK H : H = Seated'
    OBVIOUS
  <2>3. G \in SUBSET Group /\ H \in SUBSET (G \union {g})
    BY <1>1, <2>1, <2>2 DEF BudgetInv
  <2>4. SchedulerTypeOK
    BY DEF QueueInv
  <2>5. PICK J : J = G \union {g}
    OBVIOUS
  <2>6. J \in SUBSET Group /\ H \in SUBSET J
    BY <2>3, <2>5
  <2>7. Seats(H)' \subseteq Seats(J)
    BY <1>2, <2>4, <2>6, SeatsFall
  <2>8. PICK B : B = {g} \X (1 .. MaxRunning(g))
    OBVIOUS
  <2>9. Seats(J) = Seats(G) \union B
    BY <2>5, <2>8 DEF Seats
  <2>10. MaxRunning(g) \in Nat
    BY <2>4, MaxRunningType
  <2>11. IsFiniteSet(B) /\ Cardinality(B) = MaxRunning(g)
    BY <2>8, <2>10, SeatsOfOne
  <2>12. PICK C : C = Seats(G)
    OBVIOUS
  <2>13. IsFiniteSet(C) /\ Cardinality(C) \in Nat
    BY <2>3, <2>4, <2>12, SeatsFinite
  <2>14. /\ IsFiniteSet(C \union B)
         /\ Cardinality(C \union B) = Cardinality(C) + Cardinality(B) - Cardinality(C \intersect B)
    BY <2>11, <2>13, FS_Union
  <2>15. Cardinality(C \intersect B) \in Nat
    BY <2>13, FS_Intersection, FS_CardinalityType
  <2>16. Cardinality(C) + MaxRunning(g) <= MaxNumSeqs
    BY <2>1, <2>12 DEF CurrSeqs
  <2>17. PICK A : A = Seats(H)'
    OBVIOUS
  <2>18. A \subseteq C \union B
    BY <2>7, <2>9, <2>12, <2>17
  <2>19. /\ Cardinality(A) <= Cardinality(C \union B)
         /\ Cardinality(A) \in Nat /\ Cardinality(C \union B) \in Nat
    BY <2>14, <2>18, FS_Subset, FS_CardinalityType
  <2>20. Seats(Seated)' = A
    BY <2>2, <2>17 DEF Seats
  <2>21. MaxNumSeqs \in Nat
    BY SchedulerAssumption DEF SchedulerAssumption
  <2>22. Cardinality(A) <= MaxNumSeqs
    BY <2>10, <2>11, <2>13, <2>14, <2>15, <2>16, <2>19, <2>21
  <2>23. QED
    BY <2>20, <2>22
<1>3. QED
  BY <1>1, <1>2 DEF BudgetInv

(* Which steps seat a group, and what they count. *)
LEMMA QuietBudget ==
  ASSUME QueueInv, BudgetInv, Forward,
         \/ \E g \in Group : AddRequest(g) \/ AbortRequest(g)
         \/ AppendSlot \/ LackSwapSpace \/ FailSwapIn \/ EndSwapped \/ EndRunning
         \/ ProcessOutput \/ FreeFinished \/ EndStep \/ Close
  PROVE  BudgetInv'
<1>1. Seated' \subseteq Seated
  <2>1. CASE UNCHANGED <<running, todo, batch>>
    BY <2>1 DEF Seated
  <2>2. ASSUME NEW g \in Group, AbortRequest(g)
        PROVE  Seated' \subseteq Seated
    <3>1. running' = RemoveFirst(running, g) /\ UNCHANGED <<todo, batch>>
      BY <2>2 DEF AbortRequest
    <3>2. ToSet(running') \subseteq ToSet(running)
      BY <3>1, QueueTypes, RemoveNames DEF QueueInv, Names
    <3>3. QED
      BY <3>1, <3>2 DEF Seated
  <2>3. CASE FreeFinished
    <3>1. /\ batch # << >> /\ batch' = Tail(batch) /\ UNCHANGED <<running, todo>>
      BY <2>3 DEF FreeFinished, queueVars, QueueInv, PhaseShape
    <3>2. ToSet(batch') \subseteq ToSet(batch)
      BY <3>1, QueueTypes, TailNames DEF QueueInv, Names
    <3>3. QED
      BY <3>1, <3>2 DEF Seated
  <2>4. CASE EndStep
    <3>1. running' = StillUnfinished(running) /\ UNCHANGED <<todo, batch>>
      BY <2>4 DEF EndStep
    <3>2. ToSet(running') \subseteq ToSet(running)
      BY <3>1, QueueTypes, UnfinishedNames DEF QueueInv, Names
    <3>3. QED
      BY <3>1, <3>2 DEF Seated
  <2>5. CASE Close
    <3>1. running' = running \o batch /\ UNCHANGED <<todo, batch>>
      BY <2>5 DEF Close
    <3>2. ToSet(running') = ToSet(running) \union ToSet(batch)
      BY <3>1, ConcatNames DEF QueueInv, SchedulerTypeOK
    <3>3. QED
      BY <3>1, <3>2 DEF Seated
  <2>6. ASSUME NEW g \in Group, AddRequest(g)
        PROVE  UNCHANGED <<running, todo, batch>>
    BY <2>6 DEF AddRequest
  <2>7. CASE AppendSlot \/ LackSwapSpace \/ FailSwapIn \/ EndSwapped \/ EndRunning
    <3>1. UNCHANGED <<running, todo, batch>>
      BY <2>7 DEF AppendSlot, LackSwapSpace, FailSwapIn, EndSwapped, EndRunning, queueVars
    <3>2. QED
      BY <2>1, <3>1
  <2>8. CASE ProcessOutput
    <3>1. UNCHANGED <<running, todo, batch>>
      BY <2>8 DEF ProcessOutput, queueVars
    <3>2. QED
      BY <2>1, <3>1
  <2>9. QED
    BY <2>1, <2>2, <2>3, <2>4, <2>5, <2>6, <2>7, <2>8
<1>2. counted' = counted
  BY DEF AddRequest, AbortRequest, AppendSlot, LackSwapSpace, FailSwapIn, EndSwapped, EndRunning,
     ProcessOutput, FreeFinished, EndStep, Close
<1>3. StillAdmits' => StillAdmits
  <2>1. CASE \E g \in Group : AddRequest(g) \/ AbortRequest(g)
    BY <2>1 DEF AddRequest, AbortRequest, StillAdmits
  <2>2. CASE AppendSlot
    BY <2>2 DEF AppendSlot, StillAdmits, queueVars
  <2>3. CASE LackSwapSpace \/ FailSwapIn \/ EndSwapped \/ Close \/ EndStep
    BY <2>3 DEF LackSwapSpace, FailSwapIn, EndSwapped, Close, EndStep, StillAdmits
  <2>4. CASE EndRunning
    <3>1. /\ phase = "running" /\ UNCHANGED <<preempted, swappedOut>>
          /\ phase' = "close" \/ (phase' = "swapped" /\ preempted \o swappedOut = << >>)
      BY <2>4 DEF EndRunning
    <3>2. preempted \o swappedOut = << >> => preempted = << >> /\ swappedOut = << >>
      <4>1. preempted \in Seq(Group) /\ swappedOut \in Seq(Group)
        BY DEF QueueInv, SchedulerTypeOK
      <4>2. QED
        BY <4>1
    <3>3. QED
      BY <3>1, <3>2 DEF StillAdmits
  <2>5. CASE ProcessOutput \/ FreeFinished
    BY <2>5 DEF ProcessOutput, FreeFinished, queueVars, StillAdmits
  <2>6. QED
    BY <2>1, <2>2, <2>3, <2>4, <2>5
<1>4. ~(prompt' /\ phase' \in {"prefill", "close"})
  <2>1. CASE \E g \in Group : AddRequest(g) \/ AbortRequest(g)
    BY <2>1 DEF AddRequest, AbortRequest
  <2>2. CASE AppendSlot
    BY <2>2 DEF AppendSlot, QueueInv, PhaseShape
  <2>3. CASE LackSwapSpace \/ FailSwapIn \/ Close \/ EndStep
    BY <2>3 DEF LackSwapSpace, FailSwapIn, Close, EndStep
  <2>4. CASE EndRunning \/ EndSwapped
    BY <2>4 DEF EndRunning, EndSwapped, QueueInv, PhaseShape
  <2>5. CASE ProcessOutput \/ FreeFinished
    BY <2>5 DEF ProcessOutput, FreeFinished, QueueInv, PhaseShape
  <2>6. QED
    BY <2>1, <2>2, <2>3, <2>4, <2>5
<1>5. counted' \subseteq Group
  BY <1>2 DEF BudgetInv
<1>6. QED
  BY <1>1, <1>2, <1>3, <1>4, <1>5, BudgetFalls

LEMMA ScheduleDecodeBudget ==
  ASSUME QueueInv, BudgetInv, Forward, ScheduleDecode
  PROVE  BudgetInv'
<1>1. PICK g : g = Head(todo)
  OBVIOUS
<1>2. /\ phase = "running" /\ todo # << >> /\ todo' = Tail(todo) /\ batch' = Append(batch, g)
      /\ UNCHANGED <<running, preempted, swappedOut, phase, prompt, counted>>
  BY <1>1 DEF ScheduleDecode, Scheduling
<1>3. /\ g \in ToSet(todo) /\ ToSet(todo') = ToSet(todo) \ {g}
      /\ g \in Group /\ g \notin ToSet(batch)
  BY <1>1, <1>2, QueueTypes, TailNames DEF QueueInv, Names, QueuesApart
<1>4. ToSet(batch') = ToSet(batch) \union {g}
  BY <1>2, <1>3, QueueTypes, AppendNames DEF QueueInv, Names
<1>5. Seated' \subseteq Seated
  BY <1>2, <1>3, <1>4 DEF Seated
<1>6. StillAdmits' => StillAdmits
  BY <1>2 DEF StillAdmits
<1>7. counted' \subseteq Group
  BY <1>2 DEF BudgetInv
<1>8. QED
  BY <1>2, <1>5, <1>6, <1>7, BudgetFalls

LEMMA PreemptBudget ==
  ASSUME QueueInv, BudgetInv, Forward, PreemptByRecompute \/ PreemptBySwap
  PROVE  BudgetInv'
<1>1. PICK g : g = Victim
  OBVIOUS
<1>2. /\ Scheduling /\ todo' = RemoveFirst(todo, g) /\ counted' = counted \ {Head(todo)}
      /\ UNCHANGED <<running, phase, prompt, batch>>
      /\ \/ preempted' = Append(preempted, g)
         \/ swappedOut' = Append(swappedOut, g)
  BY <1>1 DEF PreemptByRecompute, PreemptBySwap, Preempting
<1>3. preempted' # << >> \/ swappedOut' # << >>
  <2>1. preempted \in Seq(Group) /\ swappedOut \in Seq(Group) /\ g \in Group
    BY <1>1, <1>2, VictimIs DEF QueueInv, SchedulerTypeOK
  <2>2. QED
    BY <1>2, <2>1
<1>4. phase = "running"
  BY <1>2 DEF Scheduling
<1>5. ~StillAdmits'
  BY <1>2, <1>3, <1>4 DEF StillAdmits
<1>6. ToSet(todo') \subseteq ToSet(todo)
  BY <1>2, QueueTypes, RemoveNames DEF QueueInv, Names
<1>7. Seated' \subseteq Seated
  BY <1>2, <1>6 DEF Seated
<1>8. counted' \subseteq Group
  BY <1>2 DEF BudgetInv
<1>9. QED
  BY <1>2, <1>4, <1>5, <1>7, <1>8, BudgetFalls

LEMMA ScheduleSwappedBudget ==
  ASSUME QueueInv, BudgetInv, Forward, ScheduleSwapped
  PROVE  BudgetInv'
<1>1. PICK g : g = Head(swapped)
  OBVIOUS
<1>2. /\ phase = "swapped" /\ swapped # << >> /\ batch' = Append(batch, g)
      /\ phase' \in {phase, "failing"} /\ counted' = counted \union {g}
      /\ UNCHANGED <<running, todo>>
      /\ CurrSeqs + MaxRunning(g) <= MaxNumSeqs
  BY <1>1 DEF ScheduleSwapped, SwapInNext, CanSchedule
<1>3. g \in ToSet(swapped) /\ g \in Group /\ g \notin ToSet(batch)
  BY <1>1, <1>2, QueueTypes, TailNames DEF QueueInv, Names, QueuesApart
<1>4. ToSet(batch') = ToSet(batch) \union {g}
  BY <1>2, <1>3, QueueTypes, AppendNames DEF QueueInv, Names
<1>5. Seated' \subseteq Seated \union {g}
  BY <1>2, <1>4 DEF Seated
<1>6. StillAdmits
  BY <1>2 DEF StillAdmits
<1>7. QED
  BY <1>2, <1>3, <1>5, <1>6, BudgetAdmits

LEMMA BeginStepBudget ==
  ASSUME QueueInv, BudgetInv, Forward, BeginStep
  PROVE  BudgetInv'
<1>1. /\ phase = "idle" /\ counted' = ToSet(running) /\ ~prompt' /\ batch' = batch
      /\ \/ ToRunning
         \/ UNCHANGED <<todo, running>>
  BY DEF BeginStep
<1>2. ToSet(todo) = {} /\ ToSet(batch) = {}
  BY <1>1, EmptyQueues DEF QueueInv
<1>3. Seated' = ToSet(running)
  <2>1. CASE ToRunning
    <3>1. todo' = Sorted(running) /\ running' = << >>
      BY <2>1 DEF ToRunning
    <3>2. ToSet(todo') = ToSet(running) /\ ToSet(running') = {}
      BY <3>1, SortedNames, EmptyNames DEF QueueInv, SchedulerTypeOK, Names
    <3>3. QED
      BY <1>1, <1>2, <3>2 DEF Seated
  <2>2. CASE UNCHANGED <<todo, running>>
    BY <1>1, <1>2, <2>2 DEF Seated
  <2>3. QED
    BY <1>1, <2>1, <2>2
<1>4. counted' \subseteq Group
  BY <1>1, QueueTypes DEF QueueInv
<1>5. Seated' \subseteq Seated
  BY <1>3 DEF Seated
<1>6. QED
  BY <1>1, <1>3, <1>4, <1>5, BudgetFalls

LEMMA EndPrefillBudget ==
  ASSUME QueueInv, BudgetInv, Forward, EndPrefill
  PROVE  BudgetInv'
<1>1. /\ phase = "prefill" /\ UNCHANGED <<batch, prompt, counted, status, len>>
      /\ \/ phase' = "close" /\ UNCHANGED <<todo, running>>
         \/ ToRunning
  BY DEF EndPrefill, seqVars
<1>2. ToSet(todo) = {}
  BY <1>1, EmptyQueues DEF QueueInv
<1>3. Seated' \subseteq Seated
  <2>1. CASE ToRunning
    <3>1. todo' = Sorted(running) /\ running' = << >>
      BY <2>1 DEF ToRunning
    <3>2. ToSet(todo') = ToSet(running) /\ ToSet(running') = {}
      BY <3>1, SortedNames, EmptyNames DEF QueueInv, SchedulerTypeOK, Names
    <3>3. QED
      BY <1>1, <3>2 DEF Seated
  <2>2. CASE UNCHANGED <<todo, running>>
    BY <1>1, <2>2 DEF Seated
  <2>3. QED
    BY <1>1, <2>1, <2>2
<1>4. StillAdmits
  BY <1>1 DEF StillAdmits
<1>5. BatchTokens' = BatchTokens
  BY <1>1 DEF BatchTokens, BatchSeqs, Computed
<1>6. counted' \subseteq Group
  BY <1>1 DEF BudgetInv
<1>7. prompt' => BatchTokens' <= TokenBudget
  BY <1>1, <1>5 DEF BudgetInv
<1>8. QED
  BY <1>1, <1>3, <1>4, <1>6, <1>7, BudgetFalls

LEMMA StutterBudget ==
  ASSUME QueueInv, BudgetInv, Forward, UNCHANGED vars
  PROVE  BudgetInv'
<1>1. UNCHANGED <<running, todo, batch, preempted, swappedOut, phase, prompt, counted,
                  status, len>>
  BY DEF vars, queueVars, seqVars
<1>2. Seated' = Seated /\ (StillAdmits' <=> StillAdmits)
  BY <1>1 DEF Seated, StillAdmits
<1>3. BatchTokens' = BatchTokens
  BY <1>1 DEF BatchTokens, BatchSeqs, Computed
<1>4. counted' \subseteq Group
  BY <1>1 DEF BudgetInv
<1>5. prompt' /\ phase' \in {"prefill", "close"} => BatchTokens' <= TokenBudget
  BY <1>1, <1>3 DEF BudgetInv
<1>6. QED
  BY <1>1, <1>2, <1>4, <1>5, BudgetFalls

(* Who waits is not in the batch. *)
LEMMA IgnoreBudget ==
  ASSUME QueueInv, BudgetInv, Forward, Ignore
  PROVE  BudgetInv'
<1>1. PICK g : g = Head(waiting)
  OBVIOUS
<1>2. /\ phase = "prefill" /\ waiting # << >>
      /\ status' = SetStatus(WithStatus(g, "waiting"), "ignored")
      /\ UNCHANGED <<running, todo, batch, preempted, swappedOut, phase, prompt, counted, len>>
  BY <1>1 DEF Ignore
<1>3. g \notin ToSet(batch)
  BY <1>1, <1>2, QueueTypes, TailNames DEF QueueInv, Names, QueuesApart
<1>4. \A s \in Seqs : s[1] # g => status'[s] = status[s]
  BY <1>2 DEF SetStatus, WithStatus, Members
<1>5. BatchSeqs' = BatchSeqs
  BY <1>2, <1>3, <1>4 DEF BatchSeqs
<1>6. BatchTokens' = BatchTokens
  BY <1>2, <1>5 DEF BatchTokens, Computed
<1>7. Seated' = Seated /\ (StillAdmits' <=> StillAdmits)
  BY <1>2 DEF Seated, StillAdmits
<1>8. counted' \subseteq Group
  BY <1>2 DEF BudgetInv
<1>9. prompt' /\ phase' \in {"prefill", "close"} => BatchTokens' <= TokenBudget
  BY <1>2, <1>6 DEF BudgetInv
<1>10. QED
  BY <1>2, <1>7, <1>8, <1>9, BudgetFalls

LEMMA TokensFinite ==
  ASSUME SchedulerTypeOK
  PROVE  /\ IsFiniteSet(BatchSeqs)
         /\ IsFiniteSet(UNION {{s} \X Computed(s) : s \in BatchSeqs})
         /\ BatchTokens \in Nat
<1>1. IsFiniteSet(BatchSeqs)
  BY GroupNumbers, FS_Subset DEF BatchSeqs
<1> DEFINE all == {{s} \X Computed(s) : s \in BatchSeqs}
           of == [s \in BatchSeqs |-> {s} \X Computed(s)]
<1>2. IsFiniteSet(all)
  <2>1. of \in Surjection(BatchSeqs, all)
    <3>1. of \in [BatchSeqs -> all]
      OBVIOUS
    <3>2. \A t \in all : \E s \in BatchSeqs : of[s] = t
      OBVIOUS
    <3>3. QED
      BY <3>1, <3>2, Fun_IsSurj
  <2>2. QED
    BY <1>1, <2>1, FS_Surjection
<1>3. \A T \in all : IsFiniteSet(T)
  <2> SUFFICES ASSUME NEW s \in BatchSeqs PROVE IsFiniteSet({s} \X Computed(s))
    OBVIOUS
  <2>1. len[s] \in Nat
    BY DEF SchedulerTypeOK, BatchSeqs
  <2>2. IsFiniteSet(1 .. len[s]) /\ IsFiniteSet({len[s]})
    <3>1. 1 \in Int /\ len[s] \in Int
      BY <2>1
    <3>2. IsFiniteSet(1 .. len[s])
      BY <3>1, FS_Interval
    <3>3. QED
      BY <3>2, FS_Singleton
  <2>3. IsFiniteSet(Computed(s))
    BY <2>2 DEF Computed
  <2>4. QED
    BY <2>3, FS_Singleton, FS_Product
<1> HIDE DEF all
<1>4. IsFiniteSet(UNION all) /\ Cardinality(UNION all) \in Nat
  BY <1>2, <1>3, FS_UNION, FS_CardinalityType
<1>5. QED
  BY <1>1, <1>4 DEF all, BatchTokens

(* The tokens of an admitted prompt are those the budget was asked for. *)
LEMMA AdmitBudget ==
  ASSUME QueueInv, BudgetInv, Forward, Admit
  PROVE  BudgetInv'
<1>1. PICK g : g = Head(waiting)
  OBVIOUS
<1>2. PICK s : s = WaitingSeq(g)
  OBVIOUS
<1>3. /\ phase = "prefill" /\ waiting # << >>
      /\ status' = [status EXCEPT ![s] = "running"]
      /\ batch' = Append(batch, g) /\ prompt' = TRUE /\ counted' = counted \union {g}
      /\ UNCHANGED <<running, todo, len, phase>>
      /\ CurrSeqs + MaxRunning(g) <= MaxNumSeqs
      /\ BatchTokens + len[s] <= TokenBudget
  BY <1>1, <1>2 DEF Admit, Admissible, CanSchedule
<1>4. g \in ToSet(waiting) /\ g \in Group /\ g \notin ToSet(batch)
  BY <1>1, <1>3, QueueTypes, TailNames DEF QueueInv, Names, QueuesApart
<1>5. ToSet(batch') = ToSet(batch) \union {g}
  BY <1>3, <1>4, QueueTypes, AppendNames DEF QueueInv, Names
<1>6. OneWaiting(g)
  BY <1>4 DEF QueueInv, StatusTold
<1>7. s \in Seqs /\ s[1] = g /\ UnfinishedSeqs(g) = {s} /\ status[s] = "waiting"
  BY <1>2, <1>6, TheWaitingSeq
<1>8. status \in [Seqs -> Statuses] /\ len \in [Seqs -> Nat]
  BY DEF QueueInv, SchedulerTypeOK
<1>9. \A q \in Seqs : status'[q] = IF q = s THEN "running" ELSE status[q]
  BY <1>3, <1>7, <1>8
<1>10. BatchSeqs' = BatchSeqs \union {s}
  <2>1. \A q \in Seqs : q[1] = g /\ status[q] = "running" => q \in UnfinishedSeqs(g)
    BY DEF UnfinishedSeqs, Members, Unfinished
  <2>2. \A q \in Seqs : q[1] = g => (status'[q] = "running" <=> q = s)
    BY <1>7, <1>9, <2>1
  <2>3. QED
    BY <1>5, <1>7, <1>9, <2>2 DEF BatchSeqs
<1>11. PICK A : A = UNION {{q} \X Computed(q) : q \in BatchSeqs}
  OBVIOUS
<1>12. PICK B : B = {s} \X (1 .. len[s])
  OBVIOUS
<1>13. (UNION {{q} \X Computed(q) : q \in BatchSeqs})' = A \union B
  <2>1. \A q : Computed(q)' = 1 .. len[q]
    BY <1>3 DEF Computed
  <2>2. CASE batch = << >>
    <3>1. BatchSeqs = {}
      BY <2>2, EmptyNames DEF BatchSeqs, Names
    <3>2. BatchSeqs' = {s} /\ A = {}
      BY <1>10, <1>11, <3>1
    <3>3. QED
      BY <1>12, <2>1, <3>2
  <2>3. CASE batch # << >>
    <3>1. prompt
      BY <1>3, <2>3 DEF QueueInv, PhaseShape
    <3>2. A = UNION {{q} \X (1 .. len[q]) : q \in BatchSeqs}
      BY <1>11, <3>1 DEF Computed
    <3>3. QED
      BY <1>10, <1>12, <2>1, <3>2
  <2>4. QED
    BY <2>2, <2>3
<1>14. IsFiniteSet(A) /\ BatchTokens = Cardinality(A) /\ Cardinality(A) \in Nat
  BY <1>11, TokensFinite DEF QueueInv, BatchTokens
<1>15. len[s] \in Nat
  BY <1>7, <1>8
<1>16. IsFiniteSet(B) /\ Cardinality(B) = len[s]
  BY <1>12, <1>15, SeatsOfOne
<1>17. /\ Cardinality(A \union B) = Cardinality(A) + Cardinality(B) - Cardinality(A \intersect B)
       /\ IsFiniteSet(A \union B)
  BY <1>14, <1>16, FS_Union
<1>18. Cardinality(A \intersect B) \in Nat /\ Cardinality(A \union B) \in Nat
  BY <1>14, <1>17, FS_Intersection, FS_CardinalityType
<1>19. TokenBudget \in Nat
  BY SchedulerAssumption DEF SchedulerAssumption
<1>20. Cardinality(A \union B) <= TokenBudget
  BY <1>3, <1>14, <1>15, <1>16, <1>17, <1>18, <1>19
<1>21. BatchTokens' <= TokenBudget
  BY <1>13, <1>20 DEF BatchTokens
<1>22. Seated' \subseteq Seated \union {g} /\ StillAdmits
  BY <1>3, <1>5 DEF Seated, StillAdmits
<1>23. QED
  BY <1>3, <1>4, <1>21, <1>22, BudgetAdmits

LEMMA InitBudget == Init => BudgetInv
<1> SUFFICES ASSUME Init PROVE BudgetInv
  OBVIOUS
<1>1. /\ counted = {} /\ phase = "idle" /\ ~prompt
      /\ running = << >> /\ todo = << >> /\ batch = << >>
  BY DEF Init
<1>2. Seated = {}
  BY <1>1, EmptyNames DEF Seated, Names
<1>3. Seats(Seated) = {}
  BY <1>2 DEF Seats
<1>4. Cardinality(Seats(Seated)) <= MaxNumSeqs
  BY <1>3, FS_EmptySet, SchedulerAssumption DEF SchedulerAssumption
<1>5. QED
  BY <1>1, <1>2, <1>4 DEF BudgetInv

LEMMA NextBudget == QueueInv /\ BudgetInv /\ [Next]_vars => BudgetInv'
<1> SUFFICES ASSUME QueueInv, BudgetInv, [Next]_vars PROVE BudgetInv'
  OBVIOUS
<1>1. Forward
  BY NextForward
<1>2. CASE \/ \E g \in Group : AddRequest(g) \/ AbortRequest(g)
           \/ AppendSlot \/ LackSwapSpace \/ FailSwapIn \/ EndSwapped \/ EndRunning
           \/ ProcessOutput \/ FreeFinished \/ EndStep \/ Close
  BY <1>1, <1>2, QuietBudget
<1>3. CASE BeginStep \/ Ignore \/ Admit \/ EndPrefill
  BY <1>1, <1>3, BeginStepBudget, IgnoreBudget, AdmitBudget, EndPrefillBudget
<1>4. CASE ScheduleDecode \/ PreemptByRecompute \/ PreemptBySwap \/ ScheduleSwapped
  BY <1>1, <1>4, ScheduleDecodeBudget, PreemptBudget, ScheduleSwappedBudget
<1>5. CASE UNCHANGED vars
  BY <1>1, <1>5, StutterBudget
<1>6. QED
  BY <1>2, <1>3, <1>4, <1>5 DEF Next, EngineStep

(* The sequences of some groups have a seat each. *)
LEMMA SequencesSeated ==
  ASSUME SchedulerTypeOK, SampledOnce, NEW G \in SUBSET Group, NEW R \in SUBSET Seqs,
         \A s \in R : s[1] \in G /\ status[s] \in Unfinished
  PROVE  /\ IsFiniteSet(R) /\ Cardinality(R) \in Nat
         /\ Cardinality(R) <= Cardinality(Seats(G))
<1>1. ASSUME NEW g \in G
      PROVE  \E f \in [UnfinishedSeqs(g) -> 1 .. MaxRunning(g)] : IsInjection(f)
  <2>1. bestOf[g] \in 1 .. 2 /\ Cardinality(Members(g)) <= bestOf[g]
    BY DEF SchedulerTypeOK, SampledOnce
  <2>2. /\ IsFiniteSet(UnfinishedSeqs(g)) /\ Cardinality(UnfinishedSeqs(g)) \in Nat
        /\ Cardinality(Members(g)) \in Nat
        /\ Cardinality(UnfinishedSeqs(g)) <= Cardinality(Members(g))
    BY SetsOfGroup, FS_Subset
  <2>3. MaxRunning(g) \in Nat /\ Cardinality(UnfinishedSeqs(g)) <= MaxRunning(g)
    BY <2>1, <2>2 DEF MaxRunning
  <2>4. PICK n : n = MaxRunning(g)
    OBVIOUS
  <2>5. IsFiniteSet(1 .. n) /\ Cardinality(1 .. n) = n
    BY <2>3, <2>4, FS_Interval
  <2>6. QED
    BY <2>2, <2>3, <2>4, <2>5, CopyExists
<1> DEFINE seat == [g \in G |->
             CHOOSE f \in [UnfinishedSeqs(g) -> 1 .. MaxRunning(g)] : IsInjection(f)]
<1>2. \A g \in G : /\ seat[g] \in [UnfinishedSeqs(g) -> 1 .. MaxRunning(g)]
                   /\ IsInjection(seat[g])
  BY <1>1
<1> HIDE DEF seat
<1>3. \A s \in R : s[1] \in G /\ s \in UnfinishedSeqs(s[1])
  BY DEF UnfinishedSeqs, Members, Unfinished
<1> DEFINE h == [s \in R |-> <<s[1], seat[s[1]][s]>>]
<1>4. h \in [R -> Seats(G)]
  <2> SUFFICES ASSUME NEW s \in R PROVE <<s[1], seat[s[1]][s]>> \in Seats(G)
    OBVIOUS
  <2>1. seat[s[1]][s] \in 1 .. MaxRunning(s[1])
    BY <1>2, <1>3
  <2>2. QED
    BY <1>3, <2>1 DEF Seats
<1>5. \A s, t \in R : h[s] = h[t] => s = t
  <2> SUFFICES ASSUME NEW s \in R, NEW t \in R, h[s] = h[t] PROVE s = t
    OBVIOUS
  <2>1. s[1] = t[1] /\ seat[s[1]][s] = seat[s[1]][t]
    OBVIOUS
  <2>2. s \in UnfinishedSeqs(s[1]) /\ t \in UnfinishedSeqs(s[1])
    BY <1>3, <2>1
  <2>3. DOMAIN seat[s[1]] = UnfinishedSeqs(s[1]) /\ IsInjection(seat[s[1]])
    BY <1>2, <1>3
  <2>4. QED
    BY <2>1, <2>2, <2>3 DEF IsInjection
<1>6. h \in Injection(R, Seats(G))
  BY <1>4, <1>5, Fun_IsInj
<1>7. IsFiniteSet(Seats(G))
  BY SeatsFinite
<1> HIDE DEF h
<1>8. QED
  BY <1>6, <1>7, FS_Injection, FS_CardinalityType

LEMMA BudgetNow == QueueInv /\ BudgetInv => WithinBudget
<1> SUFFICES ASSUME QueueInv, BudgetInv PROVE WithinBudget
  OBVIOUS
<1>1. SchedulerTypeOK /\ Seated \in SUBSET Group
  BY SeatedTypes DEF QueueInv
<1>2. PICK R : R = {s \in Seqs : status[s] = "running"}
  OBVIOUS
<1>3. \A s \in R : s[1] \in Seated /\ status[s] \in Unfinished
  <2> SUFFICES ASSUME NEW s \in R PROVE s[1] \in Seated
    BY <1>2 DEF Unfinished
  <2>1. PICK g : g = s[1]
    OBVIOUS
  <2>2. g \in Group /\ s \in Seqs /\ status[s] = "running"
    BY <1>2, <2>1, SchedulerAssumption DEF SchedulerAssumption
  <2>3. s \in UnfinishedSeqs(g)
    BY <2>1, <2>2 DEF UnfinishedSeqs, Members, Unfinished
  <2>4. g \notin ToSet(waiting) \union ToSet(preempted)
    BY <2>2, <2>3, TheWaitingSeq DEF QueueInv, StatusTold
  <2>5. g \notin ToSet(swapped) \union ToSet(swappedOut)
    <3>1. s \notin WithStatus(g, "swapped")
      BY <2>2 DEF WithStatus
    <3>2. QED
      BY <2>3, <3>1 DEF QueueInv, StatusTold, SeveralSwapped
  <2>6. ~IsFinished(g)
    BY <2>3 DEF IsFinished
  <2>7. QED
    BY <2>1, <2>2, <2>4, <2>5, <2>6 DEF QueueInv, StatusTold, Seated
<1>4. MaxNumSeqs \in Nat /\ TokenBudget \in Nat /\ MaxNumSeqs <= TokenBudget
  BY SchedulerAssumption DEF SchedulerAssumption
<1>5. PICK n : n = Cardinality(Seats(Seated))
  OBVIOUS
<1>6. n \in Nat
  BY <1>1, <1>5, SeatsFinite
<1>7. SampledOnce => n <= MaxNumSeqs
  BY <1>5 DEF BudgetInv
<1>8. ASSUME SampledOnce PROVE Cardinality(R) <= MaxNumSeqs
  <2>1. PICK G : G = Seated
    OBVIOUS
  <2>2. /\ Cardinality(R) \in Nat
        /\ Cardinality(R) <= Cardinality(Seats(G))
    BY <1>1, <1>2, <1>3, <1>8, <2>1, SequencesSeated
  <2>3. QED
    BY <1>4, <1>5, <1>6, <1>7, <1>8, <2>1, <2>2
<1>9. ASSUME SampledOnce, ~prompt PROVE BatchTokens <= TokenBudget
  <2>1. PICK T : T = UNION {{s} \X Computed(s) : s \in BatchSeqs}
    OBVIOUS
  <2>2. BatchSeqs \subseteq R /\ BatchSeqs \subseteq Seqs
    BY <1>2 DEF BatchSeqs
  <2> DEFINE f == [s \in BatchSeqs |-> <<s, len[s]>>]
  <2>3. T = UNION {{s} \X {len[s]} : s \in BatchSeqs}
    BY <1>9, <2>1 DEF Computed
  <2>4. f \in Surjection(BatchSeqs, T)
    <3>1. f \in [BatchSeqs -> T]
      BY <2>3
    <3>2. \A p \in T : \E s \in BatchSeqs : f[s] = p
      BY <2>3
    <3>3. QED
      BY <3>1, <3>2, Fun_IsSurj
  <2>5. IsFiniteSet(BatchSeqs) /\ IsFiniteSet(R)
    BY <1>1, <1>2, TokensFinite, GroupNumbers, FS_Subset
  <2> HIDE DEF f
  <2>6. Cardinality(T) <= Cardinality(BatchSeqs) /\ IsFiniteSet(T)
    BY <2>4, <2>5, FS_Surjection
  <2>7. Cardinality(BatchSeqs) <= Cardinality(R)
    BY <2>2, <2>5, FS_Subset
  <2>8. Cardinality(T) \in Nat /\ Cardinality(BatchSeqs) \in Nat /\ Cardinality(R) \in Nat
    BY <2>5, <2>6, FS_CardinalityType
  <2>9. BatchTokens = Cardinality(T)
    BY <2>1 DEF BatchTokens
  <2>10. QED
    BY <1>4, <1>8, <1>9, <2>6, <2>7, <2>8, <2>9
<1>10. phase = "close" /\ prompt => BatchTokens <= TokenBudget
  BY DEF BudgetInv
<1>11. QED
  BY <1>2, <1>8, <1>9, <1>10 DEF WithinBudget

(* Who runs, or is to run, has been counted. *)
THEOREM BudgetInvariant == Spec => [](QueueInv /\ BudgetInv)
<1>1. Init => QueueInv /\ BudgetInv
  BY InitQueues, InitBudget
<1>2. QueueInv /\ BudgetInv /\ [Next]_vars => (QueueInv /\ BudgetInv)'
  BY NextQueues, NextBudget
<1>3. QED
  BY <1>1, <1>2, PTL DEF Spec

(* No batch computes more tokens and no more sequences run than the           *)
(* configuration allows, for as long as groups are sampled once.           *)
THEOREM StepsStayWithinBudget == Spec => []WithinBudget
BY BudgetInvariant, BudgetNow, PTL
-----------------------------------------------------------------------------
(* Requests of one sample: a group then is one sequence, the one it arrived    *)
(* with.                                                                   *)
LEMMA OneMember ==
  ASSUME OneSequence, NEW g
  PROVE  /\ \A s, t \in Members(g) : s = t
         /\ Cardinality(Members(g)) <= 1
         /\ Members(g) # {} => Cardinality(Members(g)) = 1
<1>1. \A s, t \in Members(g) : s = t
  <2> SUFFICES ASSUME NEW s \in Members(g), NEW t \in Members(g) PROVE s = t
    OBVIOUS
  <2>1. s \in Group \X (1 .. Copies) /\ t \in Group \X (1 .. Copies)
    BY SchedulerAssumption DEF Members, SchedulerAssumption
  <2>2. s[1] = t[1] /\ s[2] = t[2]
    BY DEF Members, OneSequence
  <2>3. QED
    BY <2>1, <2>2
<1>2. CASE Members(g) = {}
  BY <1>1, <1>2, FS_EmptySet
<1>3. CASE Members(g) # {}
  <2>1. PICK s : Members(g) = {s}
    BY <1>1, <1>3
  <2>2. Cardinality(Members(g)) = 1
    BY <2>1, FS_Singleton
  <2>3. QED
    BY <1>1, <2>2
<1>4. QED
  BY <1>2, <1>3

(* It is neither swapped out nor in. *)
LEMMA NothingSwaps ==
  ASSUME QueueInv, OneSequence
  PROVE  /\ swapped = << >> /\ swappedOut = << >>
         /\ \A mode : Preempting(mode) => mode = "recompute"
<1>1. \A g \in Group : ~SeveralSwapped(g)
  BY OneMember DEF SeveralSwapped, UnfinishedSeqs
<1>2. swapped = << >> /\ swappedOut = << >>
  BY <1>1, QueueTypes, InQueue DEF QueueInv, StatusTold, SchedulerTypeOK
<1>3. ASSUME NEW mode, Preempting(mode)
      PROVE  mode = "recompute"
  <2>1. /\ Victim \in Group /\ AllRunning(Victim) /\ ~IsFinished(Victim) /\ Sampled(Victim)
        /\ mode = IF MaxRunning(Victim) = 1 THEN "recompute" ELSE "swap"
    BY <1>3, VictimIs DEF Preempting
  <2>2. PICK U : U = UnfinishedSeqs(Victim)
    OBVIOUS
  <2>3. U # {} /\ U \subseteq Members(Victim)
    BY <2>1, <2>2, SetsOfGroup DEF IsFinished
  <2>4. \A s, t \in U : s = t
    BY <2>3, OneMember
  <2>5. PICK s : U = {s}
    BY <2>3, <2>4
  <2>6. Cardinality(U) = 1
    BY <2>5, FS_Singleton
  <2>7. MaxRunning(Victim) = 1
    BY <2>1, <2>2, <2>6, RunningCount DEF QueueInv
  <2>8. QED
    BY <2>1, <2>7
<1>4. QED
  BY <1>2, <1>3

LEMMA OneSampleStays ==
  ASSUME QueueInv, [Next]_vars
  PROVE  OneSample' <=> OneSample
BY NextForward DEF Forward, OneSample

(* No step gives a group a second sequence. *)
LEMMA NextOneSequence ==
  ASSUME QueueInv, OneSample, OneSequence, [Next]_vars
  PROVE  OneSequence'
<1>1. status \in [Seqs -> Statuses] /\ \A s \in Seqs : status[s] # "none" => s[2] = 1
  BY DEF QueueInv, SchedulerTypeOK, OneSequence
<1>2. ASSUME \A s \in Seqs : status'[s] # status[s] => status[s] # "none" \/ s[2] = 1
      PROVE  OneSequence'
  BY <1>1, <1>2 DEF OneSequence
<1>3. ASSUME NEW S, NEW st, status' = SetStatus(S, st), \A s \in S : status[s] # "none"
      PROVE  OneSequence'
  <2>1. \A s \in Seqs : status'[s] # status[s] => status[s] # "none"
    BY <1>3 DEF SetStatus
  <2>2. QED
    BY <1>2, <2>1
<1>4. \A g, st : \A s \in WithStatus(g, st) \union UnfinishedSeqs(g) : status[s] # "none"
  BY DEF WithStatus, UnfinishedSeqs, Members
<1>5. CASE status' = status
  BY <1>2, <1>5
<1>6. ASSUME NEW g \in Group, AddRequest(g)
      PROVE  OneSequence'
  <2>1. status' = [status EXCEPT ![<<g, 1>>] = "waiting"]
    BY <1>6 DEF AddRequest
  <2>2. \A s \in Seqs : status'[s] # status[s] => s = <<g, 1>>
    BY <1>1, <2>1
  <2>3. QED
    BY <1>2, <2>2
<1>7. ASSUME NEW g \in Group, AbortRequest(g)
      PROVE  OneSequence'
  BY <1>3, <1>4, <1>7 DEF AbortRequest
<1>8. CASE Ignore
  BY <1>3, <1>4, <1>8 DEF Ignore
<1>9. CASE Admit
  <2>1. PICK s : s = WaitingSeq(Head(waiting))
    OBVIOUS
  <2>2. status' = [status EXCEPT ![s] = "running"] /\ waiting # << >>
    BY <1>9, <2>1 DEF Admit
  <2>3. OneWaiting(Head(waiting))
    BY <2>2, QueueTypes, TailNames DEF QueueInv, StatusTold, Names
  <2>4. status[s] = "waiting"
    BY <2>1, <2>3, TheWaitingSeq
  <2>5. \A q \in Seqs : status'[q] # status[q] => status[q] # "none"
    BY <1>1, <2>2, <2>4
  <2>6. QED
    BY <1>2, <2>5
<1>10. CASE PreemptByRecompute
  BY <1>3, <1>4, <1>10 DEF PreemptByRecompute
<1>11. CASE PreemptBySwap
  BY <1>3, <1>4, <1>11 DEF PreemptBySwap
<1>12. CASE ScheduleSwapped
  BY <1>3, <1>4, <1>12 DEF ScheduleSwapped
<1>13. CASE ProcessOutput
  <2>1. PICK g : g = Head(batch)
    OBVIOUS
  <2>2. g \in Group
    BY <1>13, <2>1, QueueTypes, TailNames DEF QueueInv, ProcessOutput, Names
  <2>3. NewChild(g) = {}
    BY <2>2 DEF NewChild, OneSample
  <2>4. PICK extended : extended = WithStatus(g, "running") \union NewChild(g)
    OBVIOUS
  <2>5. PICK stopped \in SUBSET extended :
          status' = [s \in Seqs |-> CASE s \in stopped -> "finished"
                                      [] s \in extended \ stopped -> "running"
                                      [] OTHER -> status[s]]
    BY <1>13, <2>1, <2>4 DEF ProcessOutput
  <2>6. \A s \in extended : status[s] # "none"
    BY <1>4, <2>3, <2>4
  <2>7. \A s \in Seqs : s \notin extended => status'[s] = status[s]
    BY <2>5
  <2>8. QED
    BY <1>2, <2>6, <2>7
<1>14. CASE BeginStep \/ EndPrefill \/ ScheduleDecode \/ AppendSlot \/ LackSwapSpace
              \/ EndRunning \/ FailSwapIn \/ EndSwapped
  <2>1. status' = status
    BY <1>14 DEF BeginStep, EndPrefill, ScheduleDecode, AppendSlot, LackSwapSpace,
         EndRunning, FailSwapIn, EndSwapped, seqVars
  <2>2. QED
    BY <1>5, <2>1
<1>15. CASE Close \/ FreeFinished \/ EndStep \/ UNCHANGED vars
  <2>1. status' = status
    BY <1>15 DEF Close, FreeFinished, EndStep, seqVars, vars
  <2>2. QED
    BY <1>5, <2>1
<1>16. QED
  BY <1>6, <1>7, <1>8, <1>9, <1>10, <1>11, <1>12, <1>13, <1>14, <1>15
     DEF Next, EngineStep

(* Each call leaves the counts exact: a prompt's blocks are counted once for   *)
(* the one sequence of the group, and nothing is forked or moved.          *)
LEMMA NextCounts ==
  ASSUME QueueInv, BlocksHeldInv, OneSample, OneSequence, CountExact, [Next]_vars
  PROVE  CountExact'
<1>1. BlockInv
  BY DEF BlocksHeldInv
<1>2. CASE UNCHANGED blockVars
  BY <1>1, <1>2, StutterKeeps
<1>3. ASSUME NEW S \in SUBSET Seqs, Release(S)
      PROVE  CountExact'
  BY <1>1, <1>3, BlockAssumption, ReleaseKeeps
<1>4. ASSUME NEW g \in Group, AbortRequest(g)
      PROVE  CountExact'
  BY <1>3, <1>4, SetsOfGroup DEF AbortRequest, FreeSeqs
<1>5. CASE PreemptByRecompute
  <2>1. WithStatus(Victim, "running") \subseteq Seqs
    BY SetsOfGroup
  <2>2. QED
    BY <1>3, <1>5, <2>1 DEF PreemptByRecompute, FreeSeqs
<1>6. CASE FreeFinished
  <2>1. {s \in Members(Head(batch)) : status[s] = "finished"} \subseteq Seqs
    BY SetsOfGroup
  <2>2. QED
    BY <1>3, <1>6, <2>1 DEF FreeFinished, FreeSeqs
<1>7. CASE Admit
  <2>1. PICK g : g = Head(waiting)
    OBVIOUS
  <2>2. PICK s : s = WaitingSeq(g)
    OBVIOUS
  <2>3. PICK n : n = LogicalBlocks(s)
    OBVIOUS
  <2>4. PICK t : t = Pick(n, GpuBlocks)
    OBVIOUS
  <2>5. /\ s \in Seqs /\ s[1] = g /\ UnfinishedSeqs(g) = {s} /\ n \in Nat
        /\ t \in [1 .. n -> free \intersect GpuBlocks]
        /\ Cardinality(Members(g)) \in Counts
        /\ Allocate(s, t, Cardinality(Members(g)))
    BY <1>7, <2>1, <2>2, <2>3, <2>4, AdmitCall
  <2>6. Cardinality(Members(g)) = 1
    BY <2>5, OneMember, SetsOfGroup
  <2>7. QED
    BY <1>1, <2>5, <2>6, BlockAssumption, AllocateKeeps
<1>8. CASE AppendSlot
  <2>1. PICK s : s = Head(appending)
    OBVIOUS
  <2>2. PICK b : b = Pick(1, GpuBlocks)[1]
    OBVIOUS
  <2>3. /\ s \in Seqs /\ OnDevice(s, GpuBlocks) /\ AppendSlots(s, LogicalBlocks(s), b)
        /\ NeedsBlock(s) => b \in free \intersect GpuBlocks
    BY <1>8, <2>1, <2>2, AppendCall
  <2>4. CASE NeedsBlock(s)
    BY <1>1, <2>3, <2>4, BlockAssumption, AppendSlotsKeeps
  <2>5. CASE ~NeedsBlock(s)
    BY <1>2, <2>3, <2>5 DEF NeedsBlock, AppendSlots
  <2>6. QED
    BY <2>4, <2>5
<1>9. CASE PreemptBySwap \/ ScheduleSwapped
  BY <1>9, NothingSwaps DEF PreemptBySwap, ScheduleSwapped, SwapInNext
<1>10. CASE ProcessOutput
  <2>1. PICK g : g = Head(batch)
    OBVIOUS
  <2>2. g \in Group
    BY <1>10, <2>1, QueueTypes, TailNames DEF QueueInv, ProcessOutput, Names
  <2>3. NewChild(g) = {}
    BY <2>2 DEF NewChild, OneSample
  <2>4. UNCHANGED blockVars
    BY <1>10, <2>1, <2>3 DEF ProcessOutput
  <2>5. QED
    BY <1>2, <2>4
<1>11. CASE BeginStep \/ EndPrefill \/ Ignore \/ ScheduleDecode \/ LackSwapSpace
              \/ EndRunning \/ FailSwapIn \/ EndSwapped \/ Close \/ EndStep
  BY <1>2, <1>11 DEF BeginStep, EndPrefill, Ignore, ScheduleDecode, LackSwapSpace,
     EndRunning, FailSwapIn, EndSwapped, Close, EndStep
<1>12. ASSUME NEW g \in Group, AddRequest(g)
       PROVE  CountExact'
  BY <1>2, <1>12 DEF AddRequest
<1>13. CASE UNCHANGED vars
  BY <1>2, <1>13 DEF vars
<1>14. QED
  BY <1>4, <1>5, <1>6, <1>7, <1>8, <1>9, <1>10, <1>11, <1>12, <1>13 DEF Next, EngineStep

(* What ends the engine comes of swapping or of a finished first sample. *)
LEMMA NextLives ==
  ASSUME QueueInv, OneSequence, EngineLives, [Next]_vars
  PROVE  EngineLives'
<1>1. ~LackSwapSpace /\ ~FailSwapIn /\ ~ScheduleSwapped
  BY NothingSwaps DEF LackSwapSpace, FailSwapIn, ScheduleSwapped, SwapInNext, EngineLives
<1>2. CASE BeginStep \/ EndPrefill
  BY <1>2 DEF BeginStep, EndPrefill, ToRunning, EngineLives
<1>3. CASE EndRunning \/ EndSwapped \/ EndStep
  BY <1>3 DEF EndRunning, EndSwapped, EndStep, EngineLives
<1>4. CASE Close
  <2>1. ASSUME NEW g \in ToSet(batch)
        PROVE  IsPrefill(g)
    <3>1. AllRunning(g) /\ ~IsFinished(g)
      BY <1>4, <2>1 DEF Close, QueueInv, PhaseShape, StatusTold, Unprocessed
    <3>2. PICK s \in UnfinishedSeqs(g) : status[s] = "running"
      BY <3>1 DEF IsFinished, AllRunning, WithStatus
    <3>3. s = <<g, 1>>
      <4>1. s \in Group \X (1 .. Copies) /\ s[1] = g /\ s[2] = 1
        BY <3>2, SchedulerAssumption
           DEF UnfinishedSeqs, Members, OneSequence, SchedulerAssumption
      <4>2. QED
        BY <4>1
    <3>4. QED
      BY <3>2, <3>3 DEF IsPrefill
  <2>2. phase' = "output"
    BY <1>4, <2>1 DEF Close
  <2>3. QED
    BY <2>2 DEF EngineLives
<1>5. CASE phase' = phase
  BY <1>5 DEF EngineLives
<1>6. CASE Ignore \/ Admit \/ ScheduleDecode \/ AppendSlot \/ PreemptByRecompute \/ PreemptBySwap
  BY <1>5, <1>6 DEF Ignore, Admit, ScheduleDecode, AppendSlot, PreemptByRecompute, PreemptBySwap
<1>7. CASE ProcessOutput \/ FreeFinished \/ UNCHANGED vars
  BY <1>5, <1>7 DEF ProcessOutput, FreeFinished, vars
<1>8. ASSUME NEW g \in Group, AddRequest(g) \/ AbortRequest(g)
      PROVE  EngineLives'
  BY <1>5, <1>8 DEF AddRequest, AbortRequest
<1>9. QED
  BY <1>1, <1>2, <1>3, <1>4, <1>6, <1>7, <1>8 DEF Next, EngineStep

LEMMA InitSingle == Init => SingleInv
<1> SUFFICES ASSUME Init PROVE SingleInv
  OBVIOUS
<1>1. BlockInit /\ status = [s \in Seqs |-> "none"] /\ phase = "idle"
  BY DEF Init
<1>2. CountExact
  BY <1>1, BlockAssumption, InitInv
<1>3. QED
  BY <1>1, <1>2 DEF SingleInv, OneSequence, EngineLives

LEMMA NextSingle == QueueInv /\ BlocksHeldInv /\ SingleInv /\ [Next]_vars => SingleInv'
BY OneSampleStays, NextOneSequence, NextCounts, NextLives DEF SingleInv

(* Between steps only unfinished sequences hold blocks, and a block whose      *)
(* count is exact is free when nobody holds it.                            *)
LEMMA FreeNow == QueueInv /\ BlocksHeldInv /\ CountExact => AllFreeAtTheEnd
<1> SUFFICES ASSUME QueueInv, BlocksHeldInv, CountExact,
                    phase = "idle", \A g \in Group : IsFinished(g)
             PROVE  free = Block
  BY DEF AllFreeAtTheEnd
<1>1. ~emitted /\ BlockInv
  BY QuietPhase DEF BlocksHeldInv
<1>2. ASSUME NEW s \in Seqs
      PROVE  Held(s) = {}
  <2>1. s[1] \in Group
    BY SchedulerAssumption DEF SchedulerAssumption
  <2>2. status[s] \notin Unfinished
    BY <2>1 DEF IsFinished, UnfinishedSeqs, Members, Unfinished
  <2>3. status[s] \in {"none", "finished", "aborted", "ignored"}
    BY <2>2 DEF QueueInv, SchedulerTypeOK, Statuses
  <2>4. table[s] = << >>
    BY <1>1, <2>3 DEF BlocksHeldInv, TableTold
  <2>5. QED
    BY <1>1, <2>4, TableOf
<1>3. ASSUME NEW b \in Block
      PROVE  b \in free
  <2>1. Holders(b) = {}
    BY <1>2 DEF Holders
  <2>2. ref[b] = 0
    BY <2>1, FS_EmptySet DEF CountExact
  <2>3. QED
    BY <1>1, <2>2 DEF BlockInv, FreeWhenUnreferenced
<1>4. free \subseteq Block
  BY <1>1 DEF BlockInv, BlockTypeOK
<1>5. QED
  BY <1>3, <1>4

THEOREM SingleInvariant == Spec => [](QueueInv /\ BlocksHeldInv /\ SingleInv)
<1>1. Init => QueueInv /\ BlocksHeldInv /\ SingleInv
  BY InitQueues, InitBlocks, InitSingle
<1>2. QueueInv /\ BlocksHeldInv /\ SingleInv /\ [Next]_vars
        => (QueueInv /\ BlocksHeldInv /\ SingleInv)'
  BY NextQueues, NextBlocks, NextSingle DEF BlocksStep
<1>3. QED
  BY <1>1, <1>2, PTL DEF Spec

(* When every request asks for one sample, as those of KEEP do, what the test  *)
(* of the block manager expects is so: no block is lost, and all are free   *)
(* again between steps once all requests ended.                            *)
THEOREM SingleSamplesFreeAll == Spec => [](OneSample => AllFreeAtTheEnd)
<1>1. QueueInv /\ BlocksHeldInv /\ SingleInv => (OneSample => AllFreeAtTheEnd)
  BY FreeNow DEF SingleInv
<1>2. QED
  BY <1>1, SingleInvariant, PTL

(* Then also the assertions of _schedule_swapped and _prepare_decode hold,    *)
(* nothing is ever swapped and the engine never ends by an error.          *)
THEOREM SingleSamplesNeverSwap ==
  Spec => [](OneSample => SwappedInAlone /\ EngineLives /\ swapped = << >>)
<1>1. QueueInv /\ SingleInv => (OneSample => SwappedInAlone /\ EngineLives /\ swapped = << >>)
  BY NothingSwaps DEF SingleInv, EngineLives, SwappedInAlone
<1>2. QED
  BY <1>1, SingleInvariant, PTL

(* And the two assertions of _schedule_default on its budget hold for every    *)
(* batch: the condition of WithinBudget is met.                            *)
THEOREM SingleSamplesWithinBudget ==
  Spec => [](OneSample =>
               /\ phase = "close" => BatchTokens <= TokenBudget
               /\ Cardinality({s \in Seqs : status[s] = "running"}) <= MaxNumSeqs)
<1>1. QueueInv /\ SingleInv => (OneSample => SampledOnce)
  BY OneMember DEF SingleInv, SampledOnce, OneSample
<1>2. QueueInv /\ SingleInv /\ WithinBudget
        => (OneSample =>
              /\ phase = "close" => BatchTokens <= TokenBudget
              /\ Cardinality({s \in Seqs : status[s] = "running"}) <= MaxNumSeqs)
  <2> SUFFICES ASSUME QueueInv, SingleInv, WithinBudget, OneSample
               PROVE  /\ phase = "close" => BatchTokens <= TokenBudget
                      /\ Cardinality({s \in Seqs : status[s] = "running"}) <= MaxNumSeqs
    OBVIOUS
  <2>1. SampledOnce
    BY <1>1, Zenon
  <2>2. QED
    BY <2>1, Zenon DEF WithinBudget
<1>3. QED
  BY <1>2, SingleInvariant, StepsStayWithinBudget, PTL

-----------------------------------------------------------------------------
(* How long a queue is that names each group once. *)
LEMMA NamesLength ==
  ASSUME NEW q, NEW S, Names(q, S)
  PROVE  IsFiniteSet(S) /\ Len(q) = Cardinality(S) /\ Len(q) \in Nat
<1>1. PICK n : n = Len(q)
  OBVIOUS
<1>2. /\ n \in Nat /\ DOMAIN q = 1 .. n /\ IsInjective(q)
      /\ S = {q[k] : k \in 1 .. n} /\ q = [k \in 1 .. n |-> q[k]]
  BY <1>1 DEF Names, ToSet
<1>3. q \in [1 .. n -> S] /\ \A x \in S : \E k \in 1 .. n : q[k] = x
  BY <1>2
<1>4. q \in Surjection(1 .. n, S)
  BY <1>3, Zenon DEF Surjection
<1>5. q \in Injection(1 .. n, S)
  <2>1. \A j, k \in 1 .. n : q[j] = q[k] => j = k
    BY <1>2 DEF IsInjective
  <2>2. QED
    BY <1>3, <2>1, Fun_IsInj
<1>6. IsFiniteSet(1 .. n) /\ Cardinality(1 .. n) = n
  <2>1. IsFiniteSet(1 .. n) /\ Cardinality(1 .. n) = IF 1 > n THEN 0 ELSE n - 1 + 1
    BY <1>2, FS_Interval
  <2>2. QED
    BY <1>2, <2>1
<1>7. PICK K : K = 1 .. n
  OBVIOUS
<1>8. q \in Surjection(K, S) /\ q \in Injection(K, S) /\ IsFiniteSet(K) /\ Cardinality(K) = n
  BY <1>4, <1>5, <1>6, <1>7, Zenon
<1>9. IsFiniteSet(S) /\ Cardinality(S) = Cardinality(K)
  BY <1>8, FS_Surjection
<1>10. QED
  BY <1>1, <1>2, <1>8, <1>9, Zenon

(* A slot is appended for no more sequences of a group than it may have. *)
LEMMA ListedLength ==
  ASSUME NEW g \in Group, NEW st
  PROVE  Len(Listed(WithStatus(g, st))) \in 0 .. Copies
<1>1. PICK S : S = WithStatus(g, st)
  OBVIOUS
<1>2. S \subseteq Members(g) /\ S \in SUBSET Seqs
  BY <1>1 DEF WithStatus, Members
<1>3. IsFiniteSet(S) /\ Cardinality(S) <= Cardinality(Members(g))
  BY <1>2, MembersFit, FS_Subset
<1>4. Cardinality(S) \in Nat /\ Cardinality(Members(g)) \in Nat
  BY <1>3, MembersFit, FS_CardinalityType
<1>5. PICK n : n = Cardinality(S)
  OBVIOUS
<1>6. PICK list : list = Listed(S)
  OBVIOUS
<1>7. list \in [1 .. n -> S]
  <2>1. PICK f : f \in Bijection(1 .. n, S)
    BY <1>3, <1>5, FS_CardinalityType DEF ExistsBijection
  <2>2. f \in [1 .. n -> S] /\ \A j, k \in 1 .. n : f[j] = f[k] => j = k
    BY <2>1 DEF Bijection, Injection, IsInjective
  <2>3. \E l \in [1 .. Cardinality(S) -> S] : IsInjection(l)
    BY <1>5, <2>2 DEF IsInjection
  <2>4. Listed(S) \in [1 .. Cardinality(S) -> S]
    BY <2>3, Zenon DEF Listed
  <2>5. QED
    BY <1>5, <1>6, <2>4
<1>8. Len(list) = n
  BY <1>4, <1>5, <1>7
<1>9. Copies \in Nat
  BY SchedulerAssumption DEF SchedulerAssumption
<1>10. QED
  BY <1>1, <1>3, <1>4, <1>5, <1>6, <1>8, <1>9, MembersFit

(* What a turn costs, taken off the turns to come. *)
LEMMA TurnsCost ==
  ASSUME NEW c \in Nat, NEW n \in Nat
  PROVE  /\ c * n \in Nat
         /\ \A m \in 0 .. n : c * m \in Nat /\ c * m <= c * n
         /\ \A m \in 0 .. n - 1 : c * m \in Nat /\ c * m + c <= c * n
<1>1. ASSUME NEW m \in 0 .. n
      PROVE  c * m \in Nat /\ c * m <= c * n
  <2>1. PICK d \in Nat : d = n - m
    OBVIOUS
  <2>2. c * n = c * m + c * d /\ c * m \in Nat /\ c * d \in Nat
    BY <2>1
  <2>3. QED
    BY <2>2
<1>2. ASSUME NEW m \in 0 .. n - 1
      PROVE  c * m + c <= c * n
  <2>1. m + 1 \in 0 .. n /\ c * (m + 1) = c * m + c
    OBVIOUS
  <2>2. QED
    BY <1>1, <2>1
<1>3. QED
  BY <1>1, <1>2

LEMMA SumsFall ==
  /\ \A x, y, y1 \in Nat : y1 < y => x + y1 < x + y
  /\ \A x, y, x1, y1, z \in Nat : x1 + z <= x /\ y1 < y + z => x1 + y1 < x + y
OBVIOUS

(* The queues only shorten while a step goes on, and the turns are no more    *)
(* than the groups.                                                        *)
LEMMA LengthsOfQueues ==
  ASSUME SchedulerTypeOK
  PROVE  /\ Len(waiting) \in Nat /\ Len(running) \in Nat /\ Len(swapped) \in Nat
         /\ Len(todo) \in Nat /\ Len(batch) \in Nat /\ Len(appending) \in Nat
         /\ batch # << >> => Len(batch) >= 1
         /\ ToAdmit \in Nat /\ ToSchedule \in Nat
<1>1. /\ Len(waiting) \in Nat /\ Len(running) \in Nat /\ Len(swapped) \in Nat
      /\ Len(todo) \in Nat /\ Len(batch) \in Nat /\ Len(appending) \in Nat
  BY DEF SchedulerTypeOK
<1>2. batch # << >> => Len(batch) >= 1
  BY DEF SchedulerTypeOK
<1>3. ToAdmit \in Nat
  BY <1>1 DEF ToAdmit
<1>4. ToSchedule \in Nat
  <2>1. /\ (IF phase = "prefill" THEN Len(running) ELSE 0) \in Nat
        /\ (IF phase \in {"prefill", "running", "swapped"} THEN Len(swapped) ELSE 0) \in Nat
    BY <1>1
  <2>2. \A x, y, z \in Nat : x + y + z \in Nat
    OBVIOUS
  <2>3. QED
    BY <1>1, <2>1, <2>2 DEF ToSchedule
<1>5. QED
  BY <1>1, <1>2, <1>3, <1>4

LEMMA SortedLength ==
  ASSUME NEW q \in Seq(Group), IsInjective(q)
  PROVE  Len(Sorted(q)) = Len(q)
<1>1. Names(Sorted(q), ToSet(q)) /\ Names(q, ToSet(q))
  BY SortedNames DEF Names
<1>2. QED
  BY <1>1, NamesLength

LEMMA TailLength ==
  ASSUME NEW S, NEW q \in Seq(S), q # << >>
  PROVE  Len(q) \in Nat \ {0} /\ Len(Tail(q)) = Len(q) - 1
OBVIOUS

LEMMA RemovedLength ==
  ASSUME NEW q \in Seq(Group), IsInjective(q), NEW g \in ToSet(q)
  PROVE  Len(q) \in Nat \ {0} /\ Len(RemoveFirst(q, g)) = Len(q) - 1
<1>1. Names(RemoveFirst(q, g), ToSet(q) \ {g}) /\ Names(q, ToSet(q))
  BY RemoveNames DEF Names
<1>2. IsFiniteSet(ToSet(q)) /\ Len(q) = Cardinality(ToSet(q)) /\ Len(q) \in Nat
  BY <1>1, NamesLength
<1>3. Len(RemoveFirst(q, g)) = Cardinality(ToSet(q) \ {g})
  BY <1>1, NamesLength
<1>4. Cardinality(ToSet(q) \ {g}) = Cardinality(ToSet(q)) - 1
  BY <1>2, FS_RemoveElement
<1>5. q # << >>
  BY InQueue
<1>6. QED
  BY <1>2, <1>3, <1>4, <1>5

LEMMA StagesLeftIs ==
  QueueInv =>
    /\ StagesLeft = Turns + OtherStages
    /\ Turns \in Nat /\ OtherStages \in Nat /\ StagesLeft \in Nat
    /\ StagesAhead \in 0 .. 5 /\ ToAdmit \in Nat /\ ToSchedule \in Nat
    /\ Len(appending) \in Nat /\ ToProcess \in Nat /\ Copies \in Nat
<1> SUFFICES ASSUME SchedulerTypeOK, PhaseShape
             PROVE  /\ StagesLeft = Turns + OtherStages
                    /\ Turns \in Nat /\ OtherStages \in Nat /\ StagesLeft \in Nat
                    /\ StagesAhead \in 0 .. 5 /\ ToAdmit \in Nat /\ ToSchedule \in Nat
                    /\ Len(appending) \in Nat /\ ToProcess \in Nat /\ Copies \in Nat
  BY DEF QueueInv
<1>1. ToAdmit \in Nat /\ ToSchedule \in Nat /\ Len(appending) \in Nat /\ Copies \in Nat
  BY LengthsOfQueues, SchedulerAssumption DEF SchedulerAssumption
<1>2. Turns \in Nat
  <2>1. Copies + 3 \in Nat
    BY <1>1
  <2>2. QED
    BY <1>1, <2>1, TurnsCost DEF Turns
<1>3. ToProcess \in Nat
  BY LengthsOfQueues DEF ToProcess, PhaseShape
<1>4. StagesAhead \in 0 .. 5
  BY DEF StagesAhead
<1>5. StagesLeft = Turns + OtherStages
  BY DEF StagesLeft, Turns
<1>6. OtherStages \in Nat
  BY <1>1, <1>3, <1>4 DEF OtherStages
<1>7. QED
  BY <1>1, <1>2, <1>3, <1>4, <1>5, <1>6

LEMMA StagesLeftNext ==
  QueueInv' =>
    /\ StagesLeft' = Turns' + OtherStages'
    /\ Turns' \in Nat /\ OtherStages' \in Nat /\ StagesLeft' \in Nat
    /\ StagesAhead' \in 0 .. 5 /\ ToAdmit' \in Nat /\ ToSchedule' \in Nat
    /\ Len(appending') \in Nat /\ ToProcess' \in Nat
<1>1. (QueueInv =>
         /\ StagesLeft = Turns + OtherStages
         /\ Turns \in Nat /\ OtherStages \in Nat /\ StagesLeft \in Nat
         /\ StagesAhead \in 0 .. 5 /\ ToAdmit \in Nat /\ ToSchedule \in Nat
         /\ Len(appending) \in Nat /\ ToProcess \in Nat /\ Copies \in Nat)'
  BY StagesLeftIs, PTL
<1>2. QED
  BY <1>1

(* A step leaves fewer stages if the others fall and no turn comes to it, or  *)
(* if it takes a turn and the others rise by less than a turn costs.       *)
LEMMA FewerIf ==
  ASSUME QueueInv, QueueInv', ToSchedule' \in 0 .. ToSchedule,
         IF ToSchedule' = ToSchedule THEN OtherStages' < OtherStages
                                     ELSE OtherStages' < OtherStages + (Copies + 3)
  PROVE  StagesLeft' < StagesLeft
<1>1. /\ StagesLeft = Turns + OtherStages
      /\ Turns \in Nat /\ OtherStages \in Nat /\ ToSchedule \in Nat /\ Copies \in Nat
  BY StagesLeftIs
<1>2. /\ StagesLeft' = Turns' + OtherStages'
      /\ Turns' \in Nat /\ OtherStages' \in Nat /\ ToSchedule' \in Nat
  BY StagesLeftNext
<1>3. CASE ToSchedule' = ToSchedule
  <2>1. Turns' = Turns /\ OtherStages' < OtherStages
    BY <1>3 DEF Turns
  <2>2. QED
    BY <1>1, <1>2, <2>1, SumsFall
<1>4. CASE ToSchedule' # ToSchedule
  <2>1. ToSchedule' \in 0 .. ToSchedule - 1 /\ OtherStages' < OtherStages + (Copies + 3)
    BY <1>1, <1>4
  <2>2. Copies + 3 \in Nat
    BY <1>1
  <2>3. Turns' + (Copies + 3) <= Turns
    BY <1>1, <2>1, <2>2, TurnsCost DEF Turns
  <2>4. QED
    BY <1>1, <1>2, <2>1, <2>2, <2>3, SumsFall
<1>5. QED
  BY <1>3, <1>4

(* And so if the others fall and no turn comes back. *)
LEMMA FewerIfOthersFall ==
  ASSUME QueueInv, QueueInv', ToSchedule' \in 0 .. ToSchedule, OtherStages' < OtherStages
  PROVE  StagesLeft' < StagesLeft
<1>1. OtherStages \in Nat /\ Copies \in Nat
  BY StagesLeftIs
<1>2. OtherStages' \in Nat
  BY StagesLeftNext
<1>3. \A o1, o, c \in Nat : o1 < o => o1 < o + (c + 3)
  OBVIOUS
<1>4. OtherStages' < OtherStages + (Copies + 3)
  BY <1>1, <1>2, <1>3
<1>5. QED
  BY <1>4, FewerIf

LEMMA IdleStages == QueueInv => (phase = "idle" => StagesLeft \in 0 .. MaxStages)
<1> SUFFICES ASSUME QueueInv, phase = "idle" PROVE StagesLeft \in 0 .. MaxStages
  OBVIOUS
<1>1. todo = << >> /\ appending = << >> /\ batch = << >> /\ ~emitted
  BY DEF QueueInv, PhaseShape
<1>2. /\ StagesAhead = 0 /\ ToAdmit = 0 /\ ToSchedule = 0 /\ ToProcess = 0
      /\ Len(appending) = 0
  BY <1>1 DEF StagesAhead, ToAdmit, ToSchedule, ToProcess
<1>3. Cardinality(Group) \in Nat /\ Copies + 3 \in Nat
  BY SchedulerAssumption, FS_CardinalityType DEF SchedulerAssumption
<1>4. (Copies + 3) * Cardinality(Group) \in Nat /\ (Copies + 3) * 0 = 0
  BY <1>3, TurnsCost
<1>5. StagesLeft = 0
  BY <1>2, <1>4 DEF StagesLeft, Turns, OtherStages
<1>6. QED
  BY <1>4, <1>5 DEF MaxStages

LEMMA PrefillStages ==
  ASSUME QueueInv, QueueInv', Ignore \/ Admit
  PROVE  StagesLeft' < StagesLeft
<1>1. /\ phase = "prefill" /\ phase' = phase /\ waiting # << >> /\ waiting' = Tail(waiting)
      /\ UNCHANGED <<running, swapped, todo, appending, emitted>>
      /\ batch' = batch \/ batch' = Append(batch, Head(waiting))
  BY DEF Ignore, Admit
<1>2. waiting \in Seq(Group) /\ batch \in Seq(Group) /\ Head(waiting) \in Group
  BY <1>1 DEF QueueInv, SchedulerTypeOK
<1>3. Len(waiting) \in Nat \ {0} /\ Len(waiting') = Len(waiting) - 1
  BY <1>1, <1>2, TailLength
<1>4. Len(batch) \in Nat /\ Len(batch') \in {Len(batch), Len(batch) + 1}
  BY <1>1, <1>2
<1>5. StagesAhead' = StagesAhead /\ ToSchedule' = ToSchedule
  BY <1>1 DEF StagesAhead, ToSchedule
<1>6. ToAdmit = Len(waiting) /\ ToAdmit' = Len(waiting) - 1
  BY <1>1, <1>3 DEF ToAdmit
<1>7. ToProcess' \in {ToProcess, ToProcess + 2}
  <2>1. \A b \in Nat : \A e \in {0, 1} : 2 * (b + 1) - e = 2 * b - e + 2
    OBVIOUS
  <2>2. PICK e \in {0, 1} : e = IF emitted THEN 1 ELSE 0
    OBVIOUS
  <2>3. emitted' = emitted
    BY <1>1
  <2>4. ToProcess = 2 * Len(batch) - e /\ ToProcess' = 2 * Len(batch') - e
    BY <2>2, <2>3 DEF ToProcess
  <2>5. QED
    BY <1>4, <2>1, <2>4
<1>8. /\ StagesAhead \in Nat /\ ToProcess \in Nat /\ Len(appending) \in Nat
      /\ Len(appending') = Len(appending)
  <2>1. Len(appending') = Len(appending)
    BY <1>1
  <2>2. StagesAhead \in 0 .. 5 /\ ToProcess \in Nat /\ Len(appending) \in Nat
    BY StagesLeftIs, Zenon
  <2>3. QED
    BY <2>1, <2>2
<1>9. OtherStages' < OtherStages
  <2>1. \A a, l, p \in Nat : \A w \in Nat \ {0}, p1 \in {p, p + 2} :
          a + 3 * (w - 1) + l + p1 < a + 3 * w + l + p
    OBVIOUS
  <2>2. /\ OtherStages = StagesAhead + 3 * Len(waiting) + Len(appending) + ToProcess
        /\ OtherStages' = StagesAhead + 3 * (Len(waiting) - 1) + Len(appending) + ToProcess'
    BY <1>5, <1>6, <1>8 DEF OtherStages
  <2>3. QED
    BY <1>3, <1>7, <1>8, <2>1, <2>2
<1>10. ToSchedule' \in 0 .. ToSchedule
  BY <1>5, StagesLeftIs
<1>11. QED
  BY <1>9, <1>10, FewerIfOthersFall

LEMMA EndPrefillStages ==
  ASSUME QueueInv, QueueInv', EndPrefill
  PROVE  StagesLeft' < StagesLeft
<1>1. /\ phase = "prefill" /\ UNCHANGED <<waiting, swapped, appending, batch, emitted>>
      /\ todo = << >> /\ running \in Seq(Group) /\ IsInjective(running)
  BY DEF EndPrefill, QueueInv, PhaseShape, SchedulerTypeOK, QueuesApart
<1>2. /\ Len(running) \in Nat /\ Len(swapped) \in Nat /\ Len(waiting) \in Nat
      /\ Len(appending) \in Nat /\ ToProcess \in Nat /\ Len(todo) = 0
  BY <1>1, StagesLeftIs, LengthsOfQueues DEF QueueInv
<1>3. ToProcess' = ToProcess /\ Len(appending') = Len(appending)
  BY <1>1 DEF ToProcess
<1>4. StagesAhead = 5 /\ ToAdmit = Len(waiting) /\ ToSchedule = Len(running) + Len(swapped)
  BY <1>1, <1>2 DEF StagesAhead, ToAdmit, ToSchedule
<1>5. CASE ToRunning
  <2>1. phase' = "running" /\ Len(todo') = Len(running) /\ Len(todo') \in Nat
    BY <1>1, <1>2, <1>5, SortedLength DEF ToRunning
  <2>2. StagesAhead' = 4 /\ ToAdmit' = 0 /\ ToSchedule' = Len(running) + Len(swapped)
    BY <1>1, <1>2, <2>1 DEF StagesAhead, ToAdmit, ToSchedule
  <2>3. QED
    BY <1>2, <1>3, <1>4, <2>2, FewerIf DEF OtherStages
<1>6. CASE phase' = "close" /\ UNCHANGED <<todo, running>>
  <2>1. StagesAhead' = 2 /\ ToAdmit' = 0 /\ ToSchedule' = 0
    BY <1>1, <1>2, <1>6 DEF StagesAhead, ToAdmit, ToSchedule
  <2>2. ToSchedule' = ToSchedule \/ ToSchedule' \in 0 .. ToSchedule - 1
    BY <1>2, <1>4, <2>1
  <2>3. ToSchedule \in Nat /\ Copies \in Nat
    BY StagesLeftIs
  <2>4. QED
    BY <1>2, <1>3, <1>4, <2>1, <2>2, <2>3, FewerIf DEF OtherStages
<1>7. QED
  BY <1>5, <1>6 DEF EndPrefill

(* Where no queue that counts is touched. *)
LEMMA QuietStages ==
  ASSUME QueueInv, QueueInv',
         AppendSlot \/ LackSwapSpace \/ FailSwapIn \/ EndSwapped \/ Close
           \/ ProcessOutput \/ FreeFinished \/ EndStep
  PROVE  StagesLeft' < StagesLeft
<1> SUFFICES ToSchedule' \in 0 .. ToSchedule /\ OtherStages' < OtherStages
  BY FewerIfOthersFall
<1> USE DEF OtherStages
<1>1. /\ Len(waiting) \in Nat /\ Len(running) \in Nat /\ Len(swapped) \in Nat
      /\ Len(todo) \in Nat /\ Len(batch) \in Nat /\ Len(appending) \in Nat
      /\ ToAdmit \in Nat /\ ToSchedule \in Nat /\ ToProcess \in Nat /\ StagesAhead \in 0 .. 5
  BY StagesLeftIs, LengthsOfQueues DEF QueueInv
<1>2. CASE AppendSlot
  <2>1. /\ UNCHANGED <<queueVars, phase, batch, emitted>>
        /\ appending # << >> /\ appending' = Tail(appending) /\ appending \in Seq(Seqs)
    BY <1>2 DEF AppendSlot, QueueInv, SchedulerTypeOK
  <2>2. Len(appending) \in Nat \ {0} /\ Len(appending') = Len(appending) - 1
    BY <2>1, TailLength
  <2>3. /\ ToSchedule' = ToSchedule /\ StagesAhead' = StagesAhead /\ ToAdmit' = ToAdmit
        /\ ToProcess' = ToProcess
    BY <2>1 DEF ToSchedule, StagesAhead, ToAdmit, ToProcess, queueVars
  <2>4. QED
    BY <1>1, <2>2, <2>3
<1>3. CASE LackSwapSpace \/ FailSwapIn \/ EndSwapped
  <2>1. /\ UNCHANGED <<queueVars, appending, batch, emitted>>
        /\ phase \in {"running", "failing", "swapped"}
        /\ phase' = "dead" \/ (phase = "swapped" /\ phase' = "close")
    BY <1>3 DEF LackSwapSpace, FailSwapIn, EndSwapped, Preempting, Scheduling
  <2>2. StagesAhead \in {3, 4} /\ StagesAhead' \in {0, 2}
    BY <2>1 DEF StagesAhead
  <2>3. ToAdmit = 0 /\ ToAdmit' = 0 /\ ToProcess' = ToProcess /\ Len(appending') = Len(appending)
    BY <2>1 DEF ToAdmit, ToProcess
  <2>4. ToSchedule' = Len(todo) + 0 + 0 /\ ToSchedule \in {Len(todo) + 0 + 0, Len(todo) + 0 + Len(swapped)}
    BY <2>1 DEF ToSchedule, queueVars
  <2>5. ToSchedule' \in 0 .. ToSchedule
    BY <1>1, <2>4
  <2>6. \A l, q \in Nat : \A a \in {3, 4}, a1 \in {0, 2} : a1 + 3 * 0 + l + q < a + 3 * 0 + l + q
    OBVIOUS
  <2>7. OtherStages' < OtherStages
    BY <1>1, <2>2, <2>3, <2>6
  <2>8. QED
    BY <2>5, <2>7
<1>4. CASE Close
  <2>1. /\ phase = "close" /\ phase' \in {"output", "refused"}
        /\ UNCHANGED <<todo, appending, batch, emitted>>
    BY <1>4 DEF Close
  <2>2. /\ StagesAhead = 2 /\ StagesAhead' \in {0, 1} /\ ToAdmit = 0 /\ ToAdmit' = 0
        /\ ToProcess' = ToProcess /\ Len(appending') = Len(appending)
    BY <2>1 DEF StagesAhead, ToAdmit, ToProcess
  <2>3. ToSchedule' = ToSchedule
    BY <2>1 DEF ToSchedule
  <2>4. QED
    BY <1>1, <2>2, <2>3
<1>5. CASE ProcessOutput
  <2>1. /\ phase' = phase /\ UNCHANGED <<queueVars, appending, batch>> /\ ~emitted /\ emitted'
    BY <1>5 DEF ProcessOutput
  <2>2. /\ StagesAhead' = StagesAhead /\ ToAdmit' = ToAdmit /\ ToSchedule' = ToSchedule
        /\ Len(appending') = Len(appending)
    BY <2>1 DEF StagesAhead, ToAdmit, ToSchedule, queueVars
  <2>3. ToProcess = 2 * Len(batch) - 0 /\ ToProcess' = 2 * Len(batch) - 1
    BY <2>1 DEF ToProcess
  <2>4. QED
    BY <1>1, <2>2, <2>3
<1>6. CASE FreeFinished
  <2>1. /\ phase' = phase /\ UNCHANGED <<queueVars, appending>> /\ emitted /\ ~emitted'
        /\ batch' = Tail(batch) /\ batch # << >> /\ batch \in Seq(Group)
    BY <1>6 DEF FreeFinished, QueueInv, PhaseShape, SchedulerTypeOK
  <2>2. /\ StagesAhead' = StagesAhead /\ ToAdmit' = ToAdmit /\ ToSchedule' = ToSchedule
        /\ Len(appending') = Len(appending)
    BY <2>1 DEF StagesAhead, ToAdmit, ToSchedule, queueVars
  <2>3. Len(batch') = Len(batch) - 1
    BY <2>1, TailLength
  <2>4. ToProcess = 2 * Len(batch) - 1 /\ ToProcess' = 2 * (Len(batch) - 1) - 0
    BY <2>1, <2>3 DEF ToProcess
  <2>5. QED
    BY <1>1, <2>2, <2>4
<1>7. CASE EndStep
  <2>1. /\ phase = "output" /\ phase' = "idle"
        /\ UNCHANGED <<waiting, swapped, todo, appending, batch, emitted>>
    BY <1>7 DEF EndStep
  <2>2. /\ StagesAhead = 1 /\ StagesAhead' = 0 /\ ToAdmit = 0 /\ ToAdmit' = 0
        /\ ToProcess' = ToProcess /\ Len(appending') = Len(appending)
    BY <2>1 DEF StagesAhead, ToAdmit, ToProcess
  <2>3. ToSchedule' = ToSchedule
    BY <2>1 DEF ToSchedule
  <2>4. QED
    BY <1>1, <2>2, <2>3
<1>8. QED
  BY <1>2, <1>3, <1>4, <1>5, <1>6, <1>7

(* A turn: the group it is taken by appends no more slots than it may have     *)
(* sequences, and is processed afterwards.                                 *)
LEMMA TurnStages ==
  ASSUME QueueInv, QueueInv', ScheduleDecode \/ ScheduleSwapped
  PROVE  StagesLeft' < StagesLeft
<1>1. PICK g \in Group, n \in 0 .. Copies :
        /\ batch' = Append(batch, g) /\ Len(appending') = n
        /\ appending = << >> /\ UNCHANGED emitted
        /\ \/ /\ phase = "running" /\ phase' = phase /\ UNCHANGED swapped
              /\ todo # << >> /\ todo' = Tail(todo)
           \/ /\ phase = "swapped" /\ phase' \in {phase, "failing"} /\ UNCHANGED todo
              /\ swapped # << >> /\ swapped' = Tail(swapped)
  <2>1. CASE ScheduleDecode
    <3>1. Head(todo) \in Group
      BY <2>1 DEF ScheduleDecode, Scheduling, QueueInv, SchedulerTypeOK
    <3>2. QED
      BY <2>1, <3>1, ListedLength DEF ScheduleDecode, Scheduling
  <2>2. CASE ScheduleSwapped
    <3>1. Head(swapped) \in Group
      BY <2>2 DEF ScheduleSwapped, SwapInNext, QueueInv, SchedulerTypeOK
    <3>2. QED
      BY <2>2, <3>1, ListedLength DEF ScheduleSwapped, SwapInNext
  <2>3. QED
    BY <2>1, <2>2
<1>2. /\ batch \in Seq(Group) /\ todo \in Seq(Group) /\ swapped \in Seq(Group)
      /\ Len(todo) \in Nat /\ Len(swapped) \in Nat /\ Len(batch) \in Nat
      /\ StagesAhead \in Nat /\ ToProcess \in Nat /\ ToSchedule \in Nat /\ Copies \in Nat
  <2>1. batch \in Seq(Group) /\ todo \in Seq(Group) /\ swapped \in Seq(Group)
    BY DEF QueueInv, SchedulerTypeOK
  <2>2. Len(todo) \in Nat /\ Len(swapped) \in Nat /\ Len(batch) \in Nat
    BY LengthsOfQueues DEF QueueInv
  <2>3. StagesAhead \in 0 .. 5 /\ ToProcess \in Nat /\ ToSchedule \in Nat /\ Copies \in Nat
    BY StagesLeftIs, Zenon
  <2>4. StagesAhead \in Nat
    BY <2>3
  <2>5. QED
    BY <2>1, <2>2, <2>3, <2>4, Zenon
<1>3. StagesAhead' = StagesAhead /\ ToAdmit = 0 /\ ToAdmit' = 0 /\ Len(appending) = 0
  BY <1>1 DEF StagesAhead, ToAdmit
<1>4. ToProcess' = ToProcess + 2
  <2>1. Len(batch') = Len(batch) + 1
    BY <1>1, <1>2
  <2>2. QED
    BY <1>1, <1>2, <2>1 DEF ToProcess
<1>5. OtherStages' < OtherStages + (Copies + 3)
  <2>1. \A a, p, c \in Nat : \A n1 \in 0 .. c : a + 3 * 0 + n1 + (p + 2) < a + 3 * 0 + 0 + p + (c + 3)
    OBVIOUS
  <2>2. QED
    BY <1>1, <1>2, <1>3, <1>4, <2>1 DEF OtherStages
<1>6. ToSchedule' \in 0 .. ToSchedule - 1
  <2>1. CASE phase = "running"
    <3>1. Len(todo) \in Nat \ {0} /\ Len(todo') = Len(todo) - 1 /\ swapped' = swapped
      BY <1>1, <1>2, <2>1, TailLength
    <3>2. ToSchedule = Len(todo) + 0 + Len(swapped) /\ ToSchedule' = Len(todo) - 1 + 0 + Len(swapped)
      BY <1>1, <2>1, <3>1 DEF ToSchedule
    <3>3. QED
      BY <1>2, <3>1, <3>2
  <2>2. CASE phase = "swapped"
    <3>1. Len(swapped) \in Nat \ {0} /\ Len(swapped') = Len(swapped) - 1 /\ todo' = todo
      BY <1>1, <1>2, <2>2, TailLength
    <3>2. /\ ToSchedule = Len(todo) + 0 + Len(swapped)
          /\ ToSchedule' \in {Len(todo) + 0 + (Len(swapped) - 1), Len(todo) + 0 + 0}
      BY <1>1, <2>2, <3>1 DEF ToSchedule
    <3>3. QED
      BY <1>2, <3>1, <3>2
  <2>3. QED
    BY <1>1, <2>1, <2>2
<1>7. ToSchedule' \in 0 .. ToSchedule /\ ToSchedule' # ToSchedule
  BY <1>2, <1>6
<1>8. QED
  BY <1>5, <1>7, FewerIf

(* The search for a victim: whatever gives way is out of this step. *)
LEMMA PreemptStages ==
  ASSUME QueueInv, QueueInv', PreemptByRecompute \/ PreemptBySwap
  PROVE  StagesLeft' < StagesLeft
<1>1. /\ Scheduling /\ phase' = phase /\ todo' = RemoveFirst(todo, Victim)
      /\ UNCHANGED <<running, swapped, appending, batch, emitted>>
  BY DEF PreemptByRecompute, PreemptBySwap, Preempting
<1>2. todo \in Seq(Group) /\ IsInjective(todo) /\ Victim \in ToSet(todo) /\ phase = "running"
  BY <1>1, VictimIs DEF QueueInv, SchedulerTypeOK, QueuesApart, Scheduling
<1>3. Len(todo) \in Nat \ {0} /\ Len(todo') = Len(todo) - 1
  BY <1>1, <1>2, RemovedLength
<1>4. Len(swapped) \in Nat /\ OtherStages \in Nat /\ ToSchedule \in Nat /\ Copies \in Nat
  BY StagesLeftIs, LengthsOfQueues DEF QueueInv
<1>5. OtherStages' = OtherStages
  BY <1>1, <1>2 DEF OtherStages, StagesAhead, ToAdmit, ToProcess
<1>6. ToSchedule = Len(todo) + 0 + Len(swapped) /\ ToSchedule' = Len(todo) - 1 + 0 + Len(swapped)
  BY <1>1, <1>2, <1>3 DEF ToSchedule
<1>7. ToSchedule' \in 0 .. ToSchedule /\ ToSchedule' # ToSchedule
  BY <1>3, <1>4, <1>6
<1>8. OtherStages' < OtherStages + (Copies + 3)
  BY <1>4, <1>5
<1>9. QED
  BY <1>7, <1>8, FewerIf

LEMMA EndRunningStages ==
  ASSUME QueueInv, QueueInv', EndRunning
  PROVE  StagesLeft' < StagesLeft
<1>1. /\ phase = "running" /\ todo = << >> /\ UNCHANGED <<todo, running, appending, batch, emitted>>
      /\ \/ phase' = "swapped" /\ swapped' = Sorted(swapped)
         \/ phase' = "close" /\ swapped' = swapped
  BY DEF EndRunning
<1>2. /\ Len(swapped') = Len(swapped) /\ Len(swapped) \in Nat /\ Len(todo) = 0
      /\ ToProcess \in Nat /\ Len(appending) \in Nat
  BY <1>1, SortedLength, LengthsOfQueues, StagesLeftIs DEF QueueInv, SchedulerTypeOK, QueuesApart
<1>3. StagesAhead = 4 /\ StagesAhead' \in {2, 3} /\ ToAdmit = 0 /\ ToAdmit' = 0
  BY <1>1 DEF StagesAhead, ToAdmit
<1>4. ToProcess' = ToProcess /\ Len(appending') = Len(appending)
  BY <1>1 DEF ToProcess
<1>5. OtherStages' < OtherStages
  <2>1. \A p, l \in Nat : \A a \in {2, 3} : a + 3 * 0 + l + p < 4 + 3 * 0 + l + p
    OBVIOUS
  <2>2. QED
    BY <1>2, <1>3, <1>4, <2>1 DEF OtherStages
<1>6. ToSchedule = 0 + 0 + Len(swapped) /\ ToSchedule' \in {0 + 0 + Len(swapped), 0 + 0 + 0}
  BY <1>1, <1>2 DEF ToSchedule
<1>7. ToSchedule' \in 0 .. ToSchedule
  BY <1>2, <1>6
<1>8. QED
  BY <1>5, <1>7, FewerIfOthersFall

LEMMA FewerStages ==
  ASSUME QueueInv, Next, phase # "idle"
  PROVE  StagesLeft' < StagesLeft
<1>1. QueueInv'
  BY NextQueues
<1>2. ~BeginStep /\ \A g \in Group : ~AddRequest(g) /\ ~AbortRequest(g)
  BY DEF BeginStep, AddRequest, AbortRequest
<1>3. QED
  BY <1>1, <1>2, PrefillStages, EndPrefillStages, QuietStages, TurnStages, PreemptStages,
     EndRunningStages DEF Next, EngineStep

LEMMA CountBoth ==
  ASSUME NEW S, NEW T, IsFiniteSet(S), IsFiniteSet(T), S \intersect T = {}
  PROVE  IsFiniteSet(S \union T) /\ Cardinality(S \union T) = Cardinality(S) + Cardinality(T)
<1>1. /\ IsFiniteSet(S \union T)
      /\ Cardinality(S \union T) = Cardinality(S) + Cardinality(T) - 0
  BY FS_Union, FS_EmptySet
<1>2. Cardinality(S) \in Nat /\ Cardinality(T) \in Nat
  BY FS_CardinalityType
<1>3. QED
  BY <1>1, <1>2

(* A step begins with no more stages than a turn for every group. *)
LEMMA BeginStages ==
  ASSUME QueueInv, QueueInv', BeginStep
  PROVE  StagesLeft' \in 0 .. MaxStages
<1>1. /\ phase = "idle" /\ todo = << >> /\ batch = << >> /\ appending = << >> /\ ~emitted
      /\ UNCHANGED <<waiting, swapped, batch, appending, emitted>>
      /\ \/ phase' = "prefill" /\ UNCHANGED <<todo, running>>
         \/ phase' = "running" /\ todo' = Sorted(running)
  BY DEF BeginStep, ToRunning, QueueInv, PhaseShape
<1>2. /\ Len(waiting) \in Nat /\ Len(running) \in Nat /\ Len(swapped) \in Nat
      /\ Len(waiting) + Len(running) + Len(swapped) <= Cardinality(Group)
      /\ Len(Sorted(running)) = Len(running)
  <2>1. /\ IsFiniteSet(ToSet(waiting)) /\ Len(waiting) = Cardinality(ToSet(waiting))
        /\ IsFiniteSet(ToSet(running)) /\ Len(running) = Cardinality(ToSet(running))
        /\ IsFiniteSet(ToSet(swapped)) /\ Len(swapped) = Cardinality(ToSet(swapped))
        /\ ToSet(waiting) \subseteq Group /\ ToSet(running) \subseteq Group
        /\ ToSet(swapped) \subseteq Group
    BY QueueTypes, NamesLength DEF QueueInv
  <2>2. /\ ToSet(waiting) \intersect (ToSet(running) \union ToSet(swapped)) = {}
        /\ ToSet(running) \intersect ToSet(swapped) = {}
    BY DEF QueueInv, QueuesApart
  <2>3. PICK R : R = (ToSet(running) \union ToSet(swapped))
    OBVIOUS
  <2>4. IsFiniteSet(R) /\ Cardinality(R) = Len(running) + Len(swapped)
    <3>1. /\ IsFiniteSet(ToSet(running) \union ToSet(swapped))
          /\ Cardinality(ToSet(running) \union ToSet(swapped))
               = Cardinality(ToSet(running)) + Cardinality(ToSet(swapped))
      BY <2>1, <2>2, CountBoth
    <3>2. QED
      BY <2>1, <2>3, <3>1
  <2>5. PICK Q : Q = ToSet(waiting) \union R
    OBVIOUS
  <2>6. IsFiniteSet(Q) /\ Cardinality(Q) = Len(waiting) + Cardinality(R)
    BY <2>1, <2>2, <2>3, <2>4, <2>5, CountBoth
  <2>7. IsFiniteSet(Group) /\ Cardinality(Q) <= Cardinality(Group)
    BY <2>1, <2>3, <2>5, SchedulerAssumption, FS_Subset DEF SchedulerAssumption
  <2>8. Len(waiting) \in Nat /\ Len(running) \in Nat /\ Len(swapped) \in Nat
    BY LengthsOfQueues DEF QueueInv
  <2>9. Len(Sorted(running)) = Len(running)
    BY SortedLength DEF QueueInv, SchedulerTypeOK, QueuesApart
  <2>10. \A w, r, q, c \in Nat : q = w + r /\ q <= c => w + r <= c
    OBVIOUS
  <2>11. QED
    BY <2>4, <2>6, <2>7, <2>8, <2>9
<1>3. ToSchedule' = Len(running) + Len(swapped)
  <2>1. Len(todo) = 0
    BY <1>1
  <2>2. CASE phase' = "prefill" /\ UNCHANGED <<todo, running>>
    BY <1>1, <1>2, <2>1, <2>2 DEF ToSchedule
  <2>3. CASE phase' = "running" /\ todo' = Sorted(running)
    BY <1>1, <1>2, <2>3 DEF ToSchedule
  <2>4. QED
    BY <1>1, <2>2, <2>3
<1>4. OtherStages' <= 5 + 3 * Len(waiting)
  <2>1. StagesAhead' \in {4, 5} /\ ToAdmit' \in {0, Len(waiting)}
    BY <1>1 DEF StagesAhead, ToAdmit
  <2>2. Len(appending') = 0 /\ ToProcess' = 0
    BY <1>1 DEF ToProcess
  <2>3. \A a \in {4, 5} : \A w \in Nat : \A w1 \in {0, w} : a + 3 * w1 + 0 + 0 <= 5 + 3 * w
    OBVIOUS
  <2>4. QED
    BY <1>2, <2>1, <2>2, <2>3 DEF OtherStages
<1>5. PICK c \in Nat : c = Copies /\ c + 3 \in Nat
  BY StagesLeftIs
<1>6. PICK w \in Nat, q \in Nat, n \in Nat :
        w = Len(waiting) /\ q = Len(running) + Len(swapped) /\ n = Cardinality(Group)
  BY <1>2, SchedulerAssumption, FS_CardinalityType DEF SchedulerAssumption
<1>7. w + q <= n
  BY <1>2, <1>6
<1>8. (c + 3) * q + (5 + 3 * w) <= 5 + (c + 3) * n
  <2>1. (c + 3) * (w + q) = (c + 3) * w + (c + 3) * q /\ (c + 3) * w = c * w + 3 * w
    BY <1>5, <1>6
  <2>2. (c + 3) * (w + q) <= (c + 3) * n
    BY <1>5, <1>7, TurnsCost
  <2>3. c * w \in Nat /\ (c + 3) * q \in Nat /\ (c + 3) * n \in Nat /\ (c + 3) * (w + q) \in Nat
    BY <1>5, TurnsCost
  <2>4. \A x, y, z, v \in Nat : \A s \in Nat : s = (x + 3 * w) + y /\ s <= z => y + (5 + 3 * w) <= 5 + z
    OBVIOUS
  <2>5. QED
    BY <2>1, <2>2, <2>3, <2>4
<1>9. Turns' = (c + 3) * q
  BY <1>3, <1>5, <1>6 DEF Turns
<1>10. StagesLeft' <= 5 + (c + 3) * n
  <2>1. StagesLeft' = Turns' + OtherStages' /\ OtherStages' \in Nat /\ Turns' \in Nat
    BY StagesLeftNext
  <2>2. (c + 3) * n \in Nat
    BY <1>5, TurnsCost
  <2>3. \A t, o, w3, z \in Nat : o <= w3 /\ t + w3 <= z => t + o <= z
    OBVIOUS
  <2>4. OtherStages' <= 5 + 3 * w /\ Turns' + (5 + 3 * w) <= 5 + (c + 3) * n
    <3>1. OtherStages' <= 5 + 3 * w
      BY <1>4, <1>6, Zenon
    <3>2. Turns' + (5 + 3 * w) <= 5 + (c + 3) * n
      BY <1>8, <1>9, Zenon
    <3>3. QED
      BY <3>1, <3>2, Zenon
  <2>5. 5 + 3 * w \in Nat /\ 5 + (c + 3) * n \in Nat
    BY <2>2
  <2>6. QED
    BY <2>1, <2>3, <2>4, <2>5
<1>11. MaxStages = 5 + (c + 3) * n /\ MaxStages \in Nat
  <2>1. (c + 3) * n \in Nat
    BY <1>5, TurnsCost
  <2>2. MaxStages = 5 + (c + 3) * n
    BY <1>5, <1>6, Zenon DEF MaxStages
  <2>3. QED
    BY <2>1, <2>2
<1>12. QED
  BY <1>10, <1>11, StagesLeftNext

LEMMA IdleOnlyBegins ==
  ASSUME QueueInv, phase = "idle", EngineStep
  PROVE  BeginStep
<1>1. appending = << >> /\ ~emitted
  BY DEF QueueInv, PhaseShape
<1>2. QED
  BY <1>1
     DEF EngineStep, Ignore, Admit, EndPrefill, Scheduling, ScheduleDecode, AppendSlot,
         PreemptByRecompute, PreemptBySwap, LackSwapSpace, Preempting, EndRunning,
         ScheduleSwapped, FailSwapIn, EndSwapped, Close, ProcessOutput, FreeFinished, EndStep

LEMMA StagesBounded ==
  QueueInv /\ StagesLeft \in 0 .. MaxStages /\ [Next]_vars => StagesLeft' \in 0 .. MaxStages
<1> SUFFICES ASSUME QueueInv, StagesLeft \in 0 .. MaxStages, [Next]_vars
             PROVE  StagesLeft' \in 0 .. MaxStages
  OBVIOUS
<1>1. QueueInv'
  BY NextQueues
<1>2. CASE UNCHANGED vars
  BY <1>2 DEF vars, queueVars, seqVars, StagesLeft, Turns, OtherStages, StagesAhead, ToAdmit,
              ToSchedule, ToProcess
<1>3. CASE Next /\ phase # "idle"
  <2>1. StagesLeft' < StagesLeft
    BY <1>3, FewerStages
  <2>2. StagesLeft' \in Nat /\ StagesLeft \in Nat
    BY <1>1, StagesLeftIs, StagesLeftNext
  <2>3. MaxStages \in Nat
    <3>1. Cardinality(Group) \in Nat /\ Copies + 3 \in Nat
      BY SchedulerAssumption, FS_CardinalityType DEF SchedulerAssumption
    <3>2. QED
      BY <3>1, TurnsCost DEF MaxStages
  <2>4. \A x, y, z \in Nat : x < y /\ y \in 0 .. z => x \in 0 .. z
    OBVIOUS
  <2>5. QED
    BY <2>1, <2>2, <2>3, <2>4
<1>4. CASE phase = "idle" /\ BeginStep
  BY <1>1, <1>4, BeginStages
<1>5. CASE phase = "idle" /\ Next /\ ~BeginStep
  <2>1. phase' = "idle"
    <3>1. ASSUME EngineStep PROVE BeginStep
      BY <1>5, <3>1, IdleOnlyBegins
    <3>2. QED
      BY <1>5, <3>1 DEF Next, AddRequest, AbortRequest
  <2>2. (QueueInv => (phase = "idle" => StagesLeft \in 0 .. MaxStages))'
    BY IdleStages, PTL
  <2>3. QED
    BY <1>1, <2>1, <2>2 DEF MaxStages
<1>6. QED
  BY <1>2, <1>3, <1>4, <1>5

(* The loops of an engine step end: from its beginning no more stages are     *)
(* left than a turn for every request, and every stage leaves fewer of     *)
(* them, whatever it admits, preempts, swaps, samples or frees.            *)
THEOREM EngineStepsAreFinite ==
  Spec => [](StagesLeft \in 0 .. MaxStages) /\ EngineStepIsFinite
<1>1. QueueInv /\ [Next]_vars => [phase # "idle" => StagesLeft' < StagesLeft]_vars
  BY FewerStages
<1>2. QueueInv /\ StagesLeft \in 0 .. MaxStages /\ [Next]_vars
        => QueueInv' /\ (StagesLeft \in 0 .. MaxStages)'
  BY StagesBounded, NextQueues
<1>3. Init => QueueInv /\ StagesLeft \in 0 .. MaxStages
  BY InitQueues, IdleStages DEF Init
<1>4. Spec => [](QueueInv /\ StagesLeft \in 0 .. MaxStages)
  BY <1>2, <1>3, PTL DEF Spec
<1>5. QED
  BY <1>1, <1>4, PTL DEF Spec, EngineStepIsFinite
=============================================================================
