------------------------ MODULE CheckedForwardProofs ------------------------
(***************************************************************************)
(* A forward with checks lays out what is left in order and keeps enough    *)
(* modules at every check, for every schedule, number of modules, lengths   *)
(* and scores.                                                             *)
(***************************************************************************)
EXTENDS CheckedForward, RecomputeScheduleProofs, FiniteSetTheorems,
        WellFoundedInduction

-----------------------------------------------------------------------------
(* Induction: a set of naturals with an element has a least one.            *)
LEMMA LeastNumber ==
  ASSUME NEW T \in SUBSET Nat, NEW y \in T
  PROVE  \E n \in T : \A k \in T : n <= k
<1>1. IsWellFoundedOn(OpToRel(<, Nat), Nat)
  BY NatLessThanWellFounded, Zenon
<1>2. PICK n \in T : \A k \in T : ~(<<k, n>> \in OpToRel(<, Nat))
  BY <1>1, WFMin, Zenon
<1>3. \A k \in T : ~(k < n)
  BY <1>2, Zenon DEF OpToRel
<1>4. QED
  BY <1>3

-----------------------------------------------------------------------------
(* Sums over sets.  MapThenSumSet is a function on the subsets of the set,   *)
(* defined by recursion; that there is such a function, and that it does    *)
(* not matter in which order the elements are taken, is what follows.      *)
First(s) == CHOOSE x \in s : TRUE

IsSum(g, h, D) ==
  h = [s \in D |-> IF s = {} THEN 0 ELSE g[First(s)] + h[s \ {First(s)}]]

Sum(g, T) == (CHOOSE h : IsSum(g, h, SUBSET T))[T]

Upto(T, n) == {s \in SUBSET T : Cardinality(s) <= n}

LEMMA FirstIn ==
  ASSUME NEW s, s # {}
  PROVE  First(s) \in s
BY DEF First

(* The rest of a finite set is smaller. *)
LEMMA RestSmaller ==
  ASSUME NEW s, IsFiniteSet(s), NEW x \in s
  PROVE  /\ IsFiniteSet(s \ {x})
         /\ Cardinality(s) \in Nat /\ Cardinality(s \ {x}) \in Nat
         /\ Cardinality(s) = Cardinality(s \ {x}) + 1
<1>1. IsFiniteSet(s \ {x}) /\ Cardinality(s \ {x}) = Cardinality(s) - 1
  BY FS_RemoveElement
<1>2. Cardinality(s) \in Nat /\ Cardinality(s \ {x}) \in Nat
  BY <1>1, FS_CardinalityType
<1>3. QED
  BY <1>1, <1>2

LEMMA SumExists ==
  ASSUME NEW g, NEW T, IsFiniteSet(T)
  PROVE  \E h : IsSum(g, h, SUBSET T)
<1>1. Cardinality(T) \in Nat
  BY FS_CardinalityType
<1>2. SUBSET T = Upto(T, Cardinality(T))
  BY FS_Subset, FS_CardinalityType DEF Upto
<1> DEFINE Bad == {n \in Nat : ~ \E h : IsSum(g, h, Upto(T, n))}
<1>3. ASSUME NEW n \in Bad, \A k \in Bad : n <= k
      PROVE  FALSE
  <2>1. CASE n = 0
    <3> DEFINE h == [s \in Upto(T, 0) |-> 0]
    <3>1. \A s \in Upto(T, 0) : s = {}
      BY FS_Subset, FS_EmptySet, FS_CardinalityType DEF Upto
    <3>2. IsSum(g, h, Upto(T, 0))
      BY <3>1 DEF IsSum
    <3>3. QED
      BY <2>1, <3>2
  <2>2. CASE n # 0
    <3>1. n - 1 \in Nat /\ n - 1 \notin Bad
      BY <1>3, <2>2
    <3>2. PICK h : IsSum(g, h, Upto(T, n - 1))
      BY <3>1
    <3> DEFINE k == [s \in Upto(T, n) |->
                       IF s = {} THEN 0 ELSE g[First(s)] + h[s \ {First(s)}]]
    <3>3. \A s \in Upto(T, n - 1) : k[s] = h[s] /\ s \in Upto(T, n)
      <4> TAKE s \in Upto(T, n - 1)
      <4>1. s \in Upto(T, n)
        BY FS_Subset, FS_CardinalityType DEF Upto
      <4>2. h[s] = IF s = {} THEN 0 ELSE g[First(s)] + h[s \ {First(s)}]
        BY <3>2 DEF IsSum
      <4>3. QED
        BY <4>1, <4>2
    <3>4. \A s \in Upto(T, n) : s # {} => s \ {First(s)} \in Upto(T, n - 1)
      BY FirstIn, RestSmaller, FS_Subset DEF Upto
    <3>5. IsSum(g, k, Upto(T, n))
      BY <3>3, <3>4 DEF IsSum
    <3>6. QED
      BY <3>5
  <2>3. QED
    BY <2>1, <2>2
<1>4. Bad = {}
  BY <1>3, LeastNumber
<1>5. \E h : IsSum(g, h, Upto(T, Cardinality(T)))
  BY <1>1, <1>4
<1>6. QED
  BY <1>2, <1>5

(* What the sum over a set is, whatever larger set it is taken in. *)
LEMMA SumUnique ==
  ASSUME NEW g, NEW T, IsFiniteSet(T), NEW S \in SUBSET T,
         NEW h, NEW k, IsSum(g, h, SUBSET T), IsSum(g, k, SUBSET S)
  PROVE  h[S] = k[S]
<1> DEFINE Bad == {n \in Nat : \E s \in SUBSET S : Cardinality(s) = n /\ h[s] # k[s]}
<1>1. ASSUME NEW n \in Bad, \A j \in Bad : n <= j
      PROVE  FALSE
  <2>1. PICK s \in SUBSET S : Cardinality(s) = n /\ h[s] # k[s]
    BY <1>1
  <2>2. /\ h[s] = IF s = {} THEN 0 ELSE g[First(s)] + h[s \ {First(s)}]
        /\ k[s] = IF s = {} THEN 0 ELSE g[First(s)] + k[s \ {First(s)}]
    BY DEF IsSum
  <2>3. s # {}
    BY <2>1, <2>2
  <2> DEFINE r == s \ {First(s)}
  <2>4. h[r] # k[r] /\ r \in SUBSET S
    BY <2>1, <2>2, <2>3
  <2>5. First(s) \in s /\ IsFiniteSet(s)
    BY <2>3, FirstIn, FS_Subset
  <2>6. Cardinality(s) \in Nat /\ Cardinality(r) \in Nat /\ Cardinality(s) = Cardinality(r) + 1
    BY <2>5, RestSmaller
  <2>7. Cardinality(r) \in Bad
    BY <2>4, <2>6
  <2>8. ~(n <= Cardinality(r))
    BY <2>1, <2>6
  <2>9. QED
    BY <1>1, <2>7, <2>8, Zenon
<1>2. Bad = {}
  BY <1>1, LeastNumber
<1>3. Cardinality(S) \in Nat
  BY FS_Subset, FS_CardinalityType
<1>4. QED
  BY <1>2, <1>3

LEMMA SumStep ==
  ASSUME NEW g, NEW T, IsFiniteSet(T)
  PROVE  Sum(g, T) = IF T = {} THEN 0 ELSE g[First(T)] + Sum(g, T \ {First(T)})
<1>1. IsSum(g, CHOOSE h : IsSum(g, h, SUBSET T), SUBSET T)
  BY SumExists, Zenon
<1>2. CASE T = {}
  BY <1>1, <1>2 DEF Sum, IsSum
<1>3. CASE T # {}
  <2>1. PICK r \in SUBSET T : r = T \ {First(T)}
    OBVIOUS
  <2>2. IsFiniteSet(r)
    BY FS_Subset
  <2>3. PICK h : h = CHOOSE f : IsSum(g, f, SUBSET T)
    OBVIOUS
  <2>4. PICK k : k = CHOOSE f : IsSum(g, f, SUBSET r)
    OBVIOUS
  <2>5. IsSum(g, h, SUBSET T)
    BY <1>1, <2>3, Zenon
  <2>6. IsSum(g, k, SUBSET r)
    BY <2>2, <2>4, SumExists, Zenon
  <2>7. h[r] = k[r]
    BY <2>5, <2>6, SumUnique
  <2>8. h[T] = g[First(T)] + h[r]
    BY <1>3, <2>1, <2>5 DEF IsSum
  <2>9. Sum(g, T) = h[T] /\ Sum(g, r) = k[r]
    BY <2>3, <2>4, Zenon DEF Sum
  <2>10. QED
    BY <1>3, <2>1, <2>7, <2>8, <2>9
<1>4. QED
  BY <1>2, <1>3

LEMMA SumType ==
  ASSUME NEW D, NEW g \in [D -> Nat], NEW T \in SUBSET D, IsFiniteSet(T)
  PROVE  Sum(g, T) \in Nat
<1> DEFINE Bad == {n \in Nat : \E s \in SUBSET T : Cardinality(s) = n /\ Sum(g, s) \notin Nat}
<1>1. ASSUME NEW n \in Bad, \A j \in Bad : n <= j
      PROVE  FALSE
  <2>1. PICK s \in SUBSET T : Cardinality(s) = n /\ Sum(g, s) \notin Nat
    BY <1>1
  <2>2. IsFiniteSet(s)
    BY FS_Subset
  <2>3. Sum(g, s) = IF s = {} THEN 0 ELSE g[First(s)] + Sum(g, s \ {First(s)})
    BY <2>2, SumStep
  <2>4. s # {} /\ First(s) \in s
    BY <2>1, <2>3, FirstIn
  <2> DEFINE r == s \ {First(s)}
  <2>5. g[First(s)] \in Nat /\ r \in SUBSET T
    BY <2>4
  <2>6. Sum(g, r) \notin Nat
    BY <2>1, <2>3, <2>4, <2>5
  <2>7. Cardinality(s) \in Nat /\ Cardinality(r) \in Nat /\ Cardinality(s) = Cardinality(r) + 1
    BY <2>2, <2>4, RestSmaller
  <2>8. Cardinality(r) \in Bad
    BY <2>5, <2>6, <2>7
  <2>9. ~(n <= Cardinality(r))
    BY <2>1, <2>7
  <2>10. QED
    BY <1>1, <2>8, <2>9, Zenon
<1>2. Bad = {}
  BY <1>1, LeastNumber
<1>3. Cardinality(T) \in Nat
  BY FS_CardinalityType
<1>4. QED
  BY <1>2, <1>3

(* One element more: its value is added, whichever is taken first. *)
LEMMA SumAdd ==
  ASSUME NEW D, NEW g \in [D -> Nat], NEW T \in SUBSET D, IsFiniteSet(T), NEW x \in T
  PROVE  Sum(g, T) = g[x] + Sum(g, T \ {x})
<1> DEFINE Bad == {n \in Nat : \E s \in SUBSET T : \E y \in s :
                     Cardinality(s) = n /\ Sum(g, s) # g[y] + Sum(g, s \ {y})}
<1>1. ASSUME NEW n \in Bad, \A j \in Bad : n <= j
      PROVE  FALSE
  <2>0. PICK s \in SUBSET T : \E y \in s :
          Cardinality(s) = n /\ Sum(g, s) # g[y] + Sum(g, s \ {y})
    BY <1>1
  <2>1. PICK y \in s : Cardinality(s) = n /\ Sum(g, s) # g[y] + Sum(g, s \ {y})
    BY <2>0
  <2> DEFINE c == First(s)
             r == s \ {c}
  <2>2. IsFiniteSet(s) /\ c \in s
    BY FS_Subset, FirstIn
  <2>3. Sum(g, s) = g[c] + Sum(g, r)
    BY <2>2, SumStep
  <2>4. y # c
    BY <2>1, <2>3
  <2>5. /\ Cardinality(r) \in Nat /\ IsFiniteSet(r)
        /\ Cardinality(s) = Cardinality(r) + 1
    BY <2>2, RestSmaller
  <2> DEFINE u == s \ {y}
  <2>6. /\ Cardinality(u) \in Nat /\ IsFiniteSet(u)
        /\ Cardinality(s) = Cardinality(u) + 1
    BY <2>2, RestSmaller
  <2>7. Sum(g, r) = g[y] + Sum(g, r \ {y})
    <3>0. ~(n <= Cardinality(r))
      BY <2>1, <2>5
    <3>1. Cardinality(r) \notin Bad
      BY <1>1, <3>0, Zenon
    <3>2. r \in SUBSET T /\ y \in r
      BY <2>4
    <3>3. QED
      BY <2>5, <3>1, <3>2
  <2>8. Sum(g, u) = g[c] + Sum(g, u \ {c})
    <3>0. ~(n <= Cardinality(u))
      BY <2>1, <2>6
    <3>1. Cardinality(u) \notin Bad
      BY <1>1, <3>0, Zenon
    <3>2. u \in SUBSET T /\ c \in u
      BY <2>2, <2>4
    <3>3. QED
      BY <2>6, <3>1, <3>2
  <2>9. r \ {y} = u \ {c}
    OBVIOUS
  <2>10. g[c] \in Nat /\ g[y] \in Nat /\ Sum(g, r \ {y}) \in Nat
    <3>1. IsFiniteSet(r \ {y}) /\ r \ {y} \in SUBSET D
      BY <2>5, FS_Subset
    <3>2. QED
      BY <2>2, <3>1, SumType
  <2> HIDE DEF r, u, c
  <2>11. Sum(g, s) = g[y] + Sum(g, u)
    <3>1. Sum(g, u) = g[c] + Sum(g, r \ {y})
      BY <2>8, <2>9
    <3>2. QED
      BY <2>3, <2>7, <2>10, <3>1
  <2>12. QED
    BY <2>1, <2>11 DEF u
<1>2. Bad = {}
  BY <1>1, LeastNumber
<1>3. Cardinality(T) \in Nat
  BY FS_CardinalityType
<1>4. QED
  BY <1>2, <1>3

LEMMA SumMonotone ==
  ASSUME NEW D, NEW g \in [D -> Nat], NEW T \in SUBSET D, IsFiniteSet(T), NEW S \in SUBSET T
  PROVE  Sum(g, S) <= Sum(g, T)
<1> DEFINE Bad == {n \in Nat : \E s \in SUBSET T :
                     Cardinality(s) = n /\ S \subseteq s /\ ~(Sum(g, S) <= Sum(g, s))}
<1>1. ASSUME NEW n \in Bad, \A j \in Bad : n <= j
      PROVE  FALSE
  <2>1. PICK s \in SUBSET T :
          Cardinality(s) = n /\ S \subseteq s /\ ~(Sum(g, S) <= Sum(g, s))
    BY <1>1
  <2>2. IsFiniteSet(s) /\ IsFiniteSet(S) /\ Sum(g, S) \in Nat
    BY FS_Subset, SumType
  <2>3. PICK x \in s : x \notin S
    BY <2>1, <2>2
  <2> DEFINE r == s \ {x}
  <2>4. /\ Cardinality(r) \in Nat /\ IsFiniteSet(r)
        /\ Cardinality(s) = Cardinality(r) + 1
    BY <2>2, RestSmaller
  <2>5. Sum(g, s) = g[x] + Sum(g, r)
    BY <2>2, SumAdd
  <2>6. Sum(g, S) <= Sum(g, r)
    <3>0. ~(n <= Cardinality(r))
      BY <2>1, <2>4
    <3>1. Cardinality(r) \notin Bad
      BY <1>1, <3>0, Zenon
    <3>2. r \in SUBSET T /\ S \subseteq r
      BY <2>1, <2>3
    <3>3. QED
      BY <2>4, <3>1, <3>2
  <2>7. Sum(g, r) \in Nat /\ g[x] \in Nat
    BY <2>4, SumType
  <2>8. QED
    BY <2>1, <2>2, <2>5, <2>6, <2>7
<1> HIDE DEF Bad
<1>2. Bad = {}
  <2>1. Bad \in SUBSET Nat
    BY DEF Bad
  <2>2. QED
    BY <1>1, <2>1, LeastNumber
<1>3. Cardinality(T) \in Nat
  BY FS_CardinalityType
<1>4. QED
  BY <1>2, <1>3 DEF Bad

-----------------------------------------------------------------------------
(* Where modules begin: the tokens before them, in the whole prompt and in   *)
(* what is left of it.                                                     *)
LEMMA TokensAreSum ==
  ASSUME NEW T
  PROVE  Positions!Tokens(T) = Sum(lengths, T)
<1>1. Positions!Tokens(T) =
        (CHOOSE iter : iter = [s \in SUBSET T |->
           IF s = {} THEN 0
           ELSE lengths[CHOOSE x \in s : TRUE] + iter[s \ {CHOOSE x \in s : TRUE}]])[T]
  BY Zenon DEF Positions!Tokens, Positions!MapThenSumSet, Positions!MapThenFoldSet
<1>2. QED
  BY <1>1, Zenon DEF Sum, IsSum, First

LEMMA ModulesFinite ==
  /\ LastModule \in Nat /\ LastModule >= 1
  /\ IsFiniteSet(Positions!Module) /\ IsFiniteSet(Positions!Dynamic)
  /\ Cardinality(Positions!Dynamic) = LastModule
  /\ Positions!Dynamic \subseteq Positions!Module
<1>1. LastModule \in Nat /\ LastModule >= 1
  BY ForwardAssumption
<1>2. IsFiniteSet(0 .. LastModule) /\ IsFiniteSet(1 .. LastModule)
  BY <1>1, FS_Interval
<1>3. Cardinality(1 .. LastModule) = LastModule
  BY <1>1, FS_Interval
<1>4. QED
  BY <1>1, <1>2, <1>3 DEF Positions!Module, Positions!Dynamic

LEMMA TokensType ==
  ASSUME lengths \in [Positions!Module -> 1 .. MaxLength],
         NEW T \in SUBSET Positions!Module
  PROVE  /\ Positions!Tokens(T) \in Nat
         /\ \A S \in SUBSET T : Positions!Tokens(S) <= Positions!Tokens(T)
<1>1. lengths \in [Positions!Module -> Nat] /\ IsFiniteSet(T)
  BY ForwardAssumption, ModulesFinite, FS_Subset
<1>2. Sum(lengths, T) \in Nat
  BY <1>1, SumType
<1>3. \A S \in SUBSET T : Sum(lengths, S) <= Sum(lengths, T)
  BY <1>1, SumMonotone
<1>4. QED
  BY <1>2, <1>3, TokensAreSum

(* A module ends before any later one begins, and before the whole ends.     *)
LEMMA ModulesApart ==
  ASSUME lengths \in [Positions!Module -> 1 .. MaxLength],
         NEW T \in SUBSET Positions!Module, NEW m \in T
  PROVE  /\ Positions!Tokens({k \in T : k < m}) + lengths[m] <= Positions!Tokens(T)
         /\ \A n \in T : m < n =>
              Positions!Tokens({k \in T : k < m}) + lengths[m]
                <= Positions!Tokens({k \in T : k < n})
<1> DEFINE B == {k \in T : k < m}
           A == B \union {m}
<1>1. lengths \in [Positions!Module -> Nat] /\ IsFiniteSet(T) /\ IsFiniteSet(A)
  BY ForwardAssumption, ModulesFinite, FS_Subset
<1>2. m \in Int /\ \A n \in T : n \in Int
  BY ForwardAssumption DEF Positions!Module
<1>3. A \ {m} = B
  BY <1>2
<1>4. A \in SUBSET Positions!Module /\ B \in SUBSET Positions!Module /\ m \in A
  OBVIOUS
<1> HIDE DEF A
<1>5. Sum(lengths, A) = lengths[m] + Sum(lengths, B)
  BY <1>1, <1>3, <1>4, SumAdd
<1> HIDE DEF B
<1>6. Positions!Tokens(A) = lengths[m] + Positions!Tokens(B)
  BY <1>5, TokensAreSum
<1>7. Positions!Tokens(B) \in Nat /\ lengths[m] \in Nat
  BY <1>1, <1>4, TokensType
<1>8. Positions!Tokens(B) + lengths[m] <= Positions!Tokens(T)
  <2>1. A \in SUBSET T
    BY DEF A, B
  <2>2. Positions!Tokens(A) <= Positions!Tokens(T)
    BY <2>1, TokensType
  <2>3. QED
    BY <1>6, <1>7, <2>2
<1>9. ASSUME NEW n \in T, m < n
      PROVE  Positions!Tokens(B) + lengths[m] <= Positions!Tokens({k \in T : k < n})
  <2> DEFINE C == {k \in T : k < n}
  <2>0. \A k \in T : k < m => k < n
    BY <1>2, <1>9
  <2>1. A \in SUBSET C /\ C \in SUBSET Positions!Module
    BY <1>9, <2>0 DEF A, B
  <2> HIDE DEF C
  <2>2. Positions!Tokens(A) <= Positions!Tokens(C)
    BY <2>1, TokensType
  <2>3. QED
    BY <1>6, <1>7, <2>2 DEF C
<1>10. QED
  BY <1>8, <1>9 DEF B

LEMMA PrefixLengthKept ==
  ASSUME lengths' = lengths
  PROVE  Positions!PrefixLength' = Positions!PrefixLength
BY Zenon DEF Positions!PrefixLength, Positions!Tokens, Positions!MapThenSumSet,
             Positions!MapThenFoldSet

(* The whole prompt, laid out at the beginning of a forward. *)
LEMMA LaidOut ==
  ASSUME lengths \in [Positions!Module -> 1 .. MaxLength], Positions!BeginForward
  PROVE  SuffixInPlace' /\ RowsInOrder'
<1>1. /\ lengths' = lengths /\ rows' = Positions!Dynamic
      /\ rowStart' = [m \in Positions!Dynamic |-> Positions!Place(m)]
      /\ suffixStart' = Positions!PrefixLength
  BY DEF Positions!BeginForward
<1>2. SuffixInPlace'
  BY <1>1, PrefixLengthKept DEF SuffixInPlace, Positions!SuffixInPlace
<1>3. ASSUME NEW m \in rows'
      PROVE  /\ rowStart'[m] + lengths'[m] <= suffixStart'
             /\ \A n \in rows' : m < n => rowStart'[m] + lengths'[m] <= rowStart'[n]
  <2>1. m \in Positions!Module /\ rows' \subseteq Positions!Module
    BY <1>1, ModulesFinite
  <2>2. /\ Positions!Place(m) + lengths[m] <= Positions!PrefixLength
        /\ \A n \in Positions!Module : m < n =>
             Positions!Place(m) + lengths[m] <= Positions!Place(n)
    BY <2>1, ModulesApart DEF Positions!Place, Positions!PrefixLength
  <2>3. \A n \in rows' : rowStart'[n] = Positions!Place(n)
    BY <1>1
  <2>4. QED
    BY <1>1, <1>3, <2>1, <2>2, <2>3
<1>4. QED
  BY <1>2, <1>3 DEF RowsInOrder, Positions!RowsInOrder

(* What is left, laid out at a checked layer. *)
LEMMA LaidOutAnew ==
  ASSUME lengths \in [Positions!Module -> 1 .. MaxLength],
         NEW kept \in SUBSET Positions!Dynamic, Positions!CheckNext(kept)
  PROVE  SuffixInPlace' /\ RowsInOrder'
<1> DEFINE At(m) == Positions!Tokens({k \in kept : k < m})
<1>1. /\ lengths' = lengths /\ rows' = kept
      /\ \A m \in kept : rowStart'[m] = Positions!StartPos(kept) + At(m)
      /\ suffixStart' = Positions!StartPos(kept) + Positions!Tokens(kept)
  BY DEF Positions!CheckNext
<1>2. kept \in SUBSET Positions!Module /\ Positions!Module \in SUBSET Positions!Module
  BY ModulesFinite
<1>3. /\ Positions!Tokens(kept) \in Nat /\ Positions!PrefixLength \in Nat
      /\ Positions!Tokens(kept) <= Positions!PrefixLength
  BY <1>2, TokensType DEF Positions!PrefixLength
<1>4. Positions!StartPos(kept) \in Nat
  BY <1>3 DEF Positions!StartPos
<1>5. suffixStart' = Positions!PrefixLength
  BY <1>1, <1>3 DEF Positions!StartPos
<1>6. SuffixInPlace'
  BY <1>1, <1>5, PrefixLengthKept DEF SuffixInPlace, Positions!SuffixInPlace
<1>7. ASSUME NEW m \in kept
      PROVE  At(m) \in Nat /\ lengths[m] \in Nat
  <2>1. {k \in kept : k < m} \in SUBSET Positions!Module
    BY <1>2
  <2>2. QED
    BY <1>2, <2>1, TokensType, ForwardAssumption
<1>8. ASSUME NEW m \in kept
      PROVE  /\ At(m) + lengths[m] <= Positions!Tokens(kept)
             /\ \A n \in kept : m < n => At(m) + lengths[m] <= At(n)
  BY <1>2, ModulesApart
<1> HIDE DEF At
<1>9. ASSUME NEW m \in kept
      PROVE  /\ rowStart'[m] + lengths[m] <= suffixStart'
             /\ \A n \in kept : m < n => rowStart'[m] + lengths[m] <= rowStart'[n]
  <2>1. At(m) \in Nat /\ lengths[m] \in Nat
    BY <1>7
  <2>2. rowStart'[m] + lengths[m] <= suffixStart'
    BY <1>1, <1>3, <1>4, <1>8, <2>1
  <2>3. ASSUME NEW n \in kept, m < n
        PROVE  rowStart'[m] + lengths[m] <= rowStart'[n]
    <3>1. At(n) \in Nat /\ At(m) + lengths[m] <= At(n)
      BY <1>7, <1>8, <2>3
    <3>2. QED
      BY <1>1, <1>4, <2>1, <3>1
  <2>4. QED
    BY <2>2, <2>3
<1>10. QED
  BY <1>1, <1>6, <1>9 DEF RowsInOrder, Positions!RowsInOrder

-----------------------------------------------------------------------------
(* One choice.                                                             *)
LEMMA ChoiceCounts ==
  \A S : Choice!Cardinality(S) = Cardinality(S)
BY Zenon DEF Choice!Cardinality, Cardinality

LEMMA AtLeastOneType ==
  ASSUME NEW n \in Nat
  PROVE  Choice!AtLeastOne(n) \in Nat /\ Choice!AtLeastOne(n) >= 1 /\ Choice!AtLeastOne(n) >= n
BY DEF Choice!AtLeastOne

LEMMA ScoreType ==
  ASSUME NEW scores \in Choice!Scores, NEW m \in Positions!Dynamic
  PROVE  scores[m] \in Nat /\ scores[m] <= MaxScore
BY ForwardAssumption DEF Choice!Scores, Choice!Dynamic, Positions!Dynamic

(* There is a k-th highest score.  The least bound that fewer than k scores  *)
(* reach is one more than it.                                              *)
LEMMA KthExists ==
  ASSUME NEW scores \in Choice!Scores, NEW mods \in SUBSET Positions!Dynamic,
         NEW k \in Nat, 1 <= k, k <= Cardinality(mods)
  PROVE  \E v \in {scores[m] : m \in mods} :
           /\ Cardinality({m \in mods : scores[m] > v}) < k
           /\ k <= Cardinality({m \in mods : scores[m] >= v})
<1> DEFINE Reach(n) == {m \in mods : scores[m] >= n}
           Bounds == {n \in Nat : Cardinality(Reach(n)) < k}
<1>1. \A m \in mods : scores[m] \in Nat /\ scores[m] <= MaxScore
  BY ScoreType
<1>2. IsFiniteSet(mods) /\ MaxScore \in Nat
  BY ModulesFinite, FS_Subset, ForwardAssumption
<1>3. \A n \in Nat : Cardinality(Reach(n)) \in Nat
  BY <1>2, FS_Subset, FS_CardinalityType
<1>4. MaxScore + 1 \in Bounds
  <2>1. Reach(MaxScore + 1) = {}
    BY <1>1, <1>2
  <2>2. QED
    BY <1>2, <2>1, FS_EmptySet
<1>5. PICK n \in Bounds : \A j \in Bounds : n <= j
  BY <1>4, LeastNumber
<1>6. n # 0
  <2>1. Reach(0) = mods
    BY <1>1
  <2>2. k <= Cardinality(Reach(0)) /\ Cardinality(Reach(0)) \in Nat
    BY <1>3, <2>1, Zenon
  <2>3. 0 \notin Bounds
    <3> HIDE DEF Reach
    <3>1. QED
      BY <2>2
  <2>4. QED
    BY <1>5, <2>3, Zenon
<1>7. n - 1 \in Nat /\ n - 1 \notin Bounds
  BY <1>5, <1>6
<1>8. k <= Cardinality(Reach(n - 1))
  <2> HIDE DEF Reach
  <2>1. ~(Cardinality(Reach(n - 1)) < k) /\ Cardinality(Reach(n - 1)) \in Nat
    BY <1>3, <1>7
  <2>2. QED
    BY <2>1
<1>9. {m \in mods : scores[m] > n - 1} = Reach(n)
  BY <1>1
<1>10. Cardinality({m \in mods : scores[m] > n - 1}) < k
  BY <1>5, <1>9
<1>11. n - 1 \in {scores[m] : m \in mods}
  <2>1. Reach(n - 1) # Reach(n)
    BY <1>5, <1>8, <1>3
  <2>2. \A m \in mods : scores[m] >= n => scores[m] >= n - 1
    BY <1>1
  <2>3. PICK m \in mods : scores[m] >= n - 1 /\ ~(scores[m] >= n)
    BY <2>1, <2>2
  <2>4. scores[m] = n - 1
    BY <1>1, <2>3
  <2>5. QED
    BY <2>4
<1>12. QED
  BY <1>8, <1>10, <1>11

LEMMA KthBestIs ==
  ASSUME NEW scores \in Choice!Scores, NEW mods \in SUBSET Positions!Dynamic,
         NEW k \in Nat, 1 <= k, k <= Cardinality(mods)
  PROVE  /\ Choice!KthBest(scores, mods, k) \in Nat
         /\ Cardinality({m \in mods : scores[m] > Choice!KthBest(scores, mods, k)}) < k
         /\ k <= Cardinality({m \in mods : scores[m] >= Choice!KthBest(scores, mods, k)})
<1> DEFINE v == Choice!KthBest(scores, mods, k)
           w == CHOOSE x \in {scores[m] : m \in mods} :
                  /\ Cardinality({m \in mods : scores[m] > x}) < k
                  /\ k <= Cardinality({m \in mods : scores[m] >= x})
<1>1. v = w
  BY ChoiceCounts, Zenon DEF Choice!KthBest
<1>2. /\ w \in {scores[m] : m \in mods}
      /\ Cardinality({m \in mods : scores[m] > w}) < k
      /\ k <= Cardinality({m \in mods : scores[m] >= w})
  BY KthExists, Zenon
<1>3. w \in Nat
  BY <1>2, ScoreType
<1>4. QED
  BY <1>1, <1>2, <1>3, Zenon

ThresholdFits(scores, nan, k, t) ==
  /\ t \in Nat
  /\ IF k <= Cardinality(nan) \/ k - Cardinality(nan) > Cardinality(rows \ nan)
       THEN t = 0
       ELSE /\ Cardinality({m \in rows \ nan : scores[m] > t}) < k - Cardinality(nan)
            /\ k - Cardinality(nan) <= Cardinality({m \in rows \ nan : scores[m] >= t})

LEMMA ThresholdIs ==
  ASSUME rows \in SUBSET Positions!Dynamic, Asked \in Nat,
         NEW scores \in Choice!Scores, NEW nan \in SUBSET rows,
         NEW k, k = Choice!AtLeastOne(Asked),
         NEW t, t = Choice!Threshold(scores, nan)
  PROVE  ThresholdFits(scores, nan, k, t)
<1> DEFINE low == k <= Cardinality(nan) \/ k - Cardinality(nan) > Cardinality(rows \ nan)
<1>1. t = IF low THEN 0 ELSE Choice!KthBest(scores, rows \ nan, k - Cardinality(nan))
  BY ChoiceCounts, Zenon DEF Choice!Threshold
<1>2. Cardinality(nan) \in Nat /\ Cardinality(rows \ nan) \in Nat /\ k \in Nat
  BY ModulesFinite, FS_Subset, FS_CardinalityType, AtLeastOneType
<1>3. CASE low
  BY <1>1, <1>3 DEF ThresholdFits
<1>4. CASE ~low
  <2> DEFINE r == k - Cardinality(nan)
  <2>1. r \in Nat /\ 1 <= r /\ r <= Cardinality(rows \ nan)
    BY <1>2, <1>4
  <2>2. rows \ nan \in SUBSET Positions!Dynamic
    OBVIOUS
  <2>3. t = Choice!KthBest(scores, rows \ nan, r)
    BY <1>1, <1>4
  <2> HIDE DEF r
  <2>4. /\ Choice!KthBest(scores, rows \ nan, r) \in Nat
        /\ Cardinality({m \in rows \ nan : scores[m] > Choice!KthBest(scores, rows \ nan, r)}) < r
        /\ r <= Cardinality({m \in rows \ nan : scores[m] >= Choice!KthBest(scores, rows \ nan, r)})
    BY <2>1, <2>2, KthBestIs
  <2>5. /\ t \in Nat
        /\ Cardinality({m \in rows \ nan : scores[m] > t}) < r
        /\ r <= Cardinality({m \in rows \ nan : scores[m] >= t})
    BY <2>3, <2>4, Zenon
  <2>6. QED
    BY <1>4, <2>5, Zenon DEF r, ThresholdFits
<1>5. QED
  BY <1>3, <1>4

(* What one hop chooses. *)
BestOf(scores, mods, B, k) ==
  /\ \A m \in B, n \in mods \ B : scores[m] > scores[n]
  /\ Cardinality({m \in B : \E n \in B : scores[m] > scores[n]}) < k

BestFits(scores, nan, B, k) ==
  /\ B \in SUBSET (rows \ nan)
  /\ B = {} => nan = rows
  /\ nan = {} => BestOf(scores, rows, B, k)
  /\ nan = {} /\ Cardinality(rows) >= k => Cardinality(B) >= k

LEMMA BestIs ==
  ASSUME rows \in SUBSET Positions!Dynamic, Asked \in Nat,
         NEW scores \in Choice!Scores, NEW nan \in SUBSET rows,
         NEW B, B = Choice!Best(scores, nan),
         NEW k, k = Choice!AtLeastOne(Asked)
  PROVE  BestFits(scores, nan, B, k)
<1>0. PICK t : t = Choice!Threshold(scores, nan)
  OBVIOUS
<1> DEFINE low == k <= Cardinality(nan) \/ k - Cardinality(nan) > Cardinality(rows \ nan)
           U == {m \in B : \E n \in B : scores[m] > scores[n]}
<1>1. B = {m \in rows \ nan : scores[m] >= t}
  BY <1>0, Zenon DEF Choice!Best
<1>2. /\ t \in Nat
      /\ low => t = 0
      /\ ~low => /\ Cardinality({m \in rows \ nan : scores[m] > t}) < k - Cardinality(nan)
                 /\ k - Cardinality(nan) <= Cardinality(B)
  <2>1. ThresholdFits(scores, nan, k, t)
    BY <1>0, ThresholdIs
  <2>2. QED
    BY <1>1, <2>1, Zenon DEF ThresholdFits
<1>3. \A m \in rows : scores[m] \in Nat
  BY ScoreType
<1>4. /\ IsFiniteSet(rows) /\ IsFiniteSet(B) /\ IsFiniteSet(U)
      /\ Cardinality(B) \in Nat /\ Cardinality(U) \in Nat /\ Cardinality(rows) \in Nat
      /\ Cardinality(nan) \in Nat
  BY <1>1, ModulesFinite, FS_Subset, FS_CardinalityType
<1>5. k \in Nat /\ k >= 1
  BY AtLeastOneType
<1>6. B \in SUBSET (rows \ nan)
  BY <1>1
<1>7. ASSUME B = {}
      PROVE  nan = rows
  <2>1. CASE low
    BY <1>1, <1>2, <1>3, <1>7, <2>1
  <2>2. CASE ~low
    <3>1. k - Cardinality(nan) <= 0
      BY <1>2, <1>7, <2>2, FS_EmptySet
    <3>2. QED
      BY <1>4, <1>5, <2>2, <3>1
  <2>3. QED
    BY <2>1, <2>2
<1>8. ASSUME NEW m \in B, NEW n \in rows \ B, nan = {}
      PROVE  scores[m] > scores[n]
  <2>1. scores[m] >= t /\ ~(scores[n] >= t)
    BY <1>1, <1>8
  <2>2. scores[m] \in Nat /\ scores[n] \in Nat
    BY <1>3, <1>6
  <2>3. QED
    BY <1>2, <2>1, <2>2
<1>9. ASSUME nan = {}
      PROVE  Cardinality(U) < k /\ (Cardinality(rows) >= k => Cardinality(B) >= k)
  <2>1. Cardinality(nan) = 0 /\ rows \ nan = rows
    BY <1>9, FS_EmptySet
  <2>2. CASE low
    <3>0. k <= 0 \/ k - 0 > Cardinality(rows)
      BY <2>1, <2>2, Zenon
    <3>1. k > Cardinality(rows)
      BY <1>4, <1>5, <3>0
    <3>2. Cardinality(U) <= Cardinality(rows)
      BY <1>4, <1>6, FS_Subset
    <3>3. QED
      BY <1>4, <1>5, <3>1, <3>2
  <2>3. CASE ~low
    <3> DEFINE A == {m \in rows : scores[m] > t}
    <3>0. Cardinality(A) < k - 0 /\ k - 0 <= Cardinality(B)
      BY <1>2, <2>1, <2>3, Zenon
    <3>1. Cardinality(A) < k /\ k <= Cardinality(B)
      BY <1>5, <3>0
    <3>2. ASSUME NEW m \in B, NEW n \in B, scores[m] > scores[n]
          PROVE  m \in A
      <4>1. scores[n] >= t /\ scores[m] \in Nat /\ scores[n] \in Nat /\ m \in rows
        BY <1>1, <1>3, <1>6
      <4>2. scores[m] > t
        BY <1>2, <3>2, <4>1
      <4>3. QED
        BY <4>1, <4>2
    <3>3. U \subseteq A
      BY <3>2
    <3>4. Cardinality(U) <= Cardinality(A) /\ Cardinality(A) \in Nat
      BY <1>4, <3>3, FS_Subset, FS_CardinalityType
    <3>5. QED
      BY <1>4, <1>5, <3>1, <3>4
  <2>4. QED
    BY <2>2, <2>3
<1>10. QED
  BY <1>6, <1>7, <1>8, <1>9 DEF BestFits, BestOf

LEMMA BestKeptIs ==
  /\ BestKept <=> (hop >= 1 /\ lastNan = {} =>
                     BestOf(lastScores, rows, chosen, Choice!AtLeastOne(Asked)))
  /\ BestKept' <=> (hop' >= 1 /\ lastNan' = {} =>
                      BestOf(lastScores', rows', chosen', Choice!AtLeastOne(Asked)'))
BY ChoiceCounts, Zenon DEF BestKept, Choice!BestKept, BestOf

-----------------------------------------------------------------------------
(* The schedule seen from the layers.                                      *)
LEMMA AskedIs ==
  ASSUME ScheduleInv, Checked(layer + 1)
  PROVE  \E k \in 1 .. Len(checkLayers) :
           /\ checkLayers[k] = layer + 1
           /\ Asked = recomputeNum[k]
           /\ Asked \in Nat /\ Asked >= 1 /\ Asked < AskedBefore(k)
<1>1. /\ DOMAIN checkLayers = 1 .. Len(checkLayers)
      /\ Len(recomputeNum) = Len(checkLayers)
      /\ recomputeNum \in Seq(Nat)
  BY DEF ScheduleInv, TypeOK, LayersInOrder
<1> DEFINE k == CHOOSE n \in DOMAIN checkLayers : checkLayers[n] = layer + 1
<1>2. k \in DOMAIN checkLayers /\ checkLayers[k] = layer + 1
  BY Zenon DEF Checked
<1>3. Asked = recomputeNum[k]
  BY Zenon DEF Asked, AskedAt
<1> HIDE DEF k
<1>4. k \in 1 .. Len(checkLayers) /\ k \in 1 .. Len(recomputeNum)
  BY <1>1, <1>2
<1>5. recomputeNum[k] \in Nat
  BY <1>1, <1>4
<1>6. recomputeNum[k] >= 1 /\ recomputeNum[k] < AskedBefore(k)
  BY <1>4 DEF ScheduleInv, EveryCheckDrops
<1>7. QED
  BY <1>2, <1>3, <1>4, <1>5, <1>6

(* The checks passed before the k-th are the first k - 1.                   *)
LEMMA PassedBefore ==
  ASSUME ScheduleInv, layer \in Nat, NEW k \in 1 .. Len(checkLayers),
         checkLayers[k] = layer + 1
  PROVE  ChecksPassed = k - 1
<1>1. /\ DOMAIN checkLayers = 1 .. Len(checkLayers) /\ Len(checkLayers) \in Nat
      /\ \A j \in 1 .. Len(checkLayers) : checkLayers[j] \in Nat
      /\ \A j, n \in 1 .. Len(checkLayers) : j < n => checkLayers[j] < checkLayers[n]
  BY DEF ScheduleInv, TypeOK, LayersInOrder
<1>2. {j \in DOMAIN checkLayers : checkLayers[j] <= layer} = 1 .. k - 1
  <2>1. ASSUME NEW j \in 1 .. Len(checkLayers)
        PROVE  checkLayers[j] <= layer <=> j <= k - 1
    <3>1. j < k => checkLayers[j] < checkLayers[k]
      BY <1>1
    <3>2. k < j => checkLayers[k] < checkLayers[j]
      BY <1>1
    <3>3. QED
      BY <1>1, <2>1, <3>1, <3>2
  <2>2. QED
    BY <1>1, <2>1
<1>3. Cardinality(1 .. k - 1) = k - 1
  BY FS_Interval
<1>4. QED
  BY <1>2, <1>3 DEF ChecksPassed

(* Up to and with the k-th check, k checks have been passed.                *)
LEMMA PassedWith ==
  ASSUME ScheduleInv, layer \in Nat, NEW k \in 1 .. Len(checkLayers),
         checkLayers[k] = layer + 1, layer' = layer + 1, checkLayers' = checkLayers
  PROVE  ChecksPassed' = k
<1>1. /\ DOMAIN checkLayers = 1 .. Len(checkLayers) /\ Len(checkLayers) \in Nat
      /\ \A j \in 1 .. Len(checkLayers) : checkLayers[j] \in Nat
      /\ \A j, n \in 1 .. Len(checkLayers) : j < n => checkLayers[j] < checkLayers[n]
  BY DEF ScheduleInv, TypeOK, LayersInOrder
<1>2. {j \in DOMAIN checkLayers' : checkLayers'[j] <= layer'} = 1 .. k
  <2>1. ASSUME NEW j \in 1 .. Len(checkLayers)
        PROVE  checkLayers[j] <= layer + 1 <=> j <= k
    <3>1. j < k => checkLayers[j] < checkLayers[k]
      BY <1>1
    <3>2. k < j => checkLayers[k] < checkLayers[j]
      BY <1>1
    <3>3. QED
      BY <1>1, <2>1, <3>1, <3>2
  <2>2. QED
    BY <1>1, <2>1
<1>3. Cardinality(1 .. k) = k
  BY FS_Interval
<1>4. QED
  BY <1>2, <1>3 DEF ChecksPassed

(* An unchecked layer passes no check.                                     *)
LEMMA PassedNone ==
  ASSUME ScheduleInv, layer \in Nat, ~Checked(layer + 1),
         layer' = layer + 1, checkLayers' = checkLayers
  PROVE  ChecksPassed' = ChecksPassed
<1>1. \A j \in DOMAIN checkLayers : checkLayers[j] \in Nat /\ checkLayers[j] # layer + 1
  BY DEF ScheduleInv, TypeOK, Checked
<1>2. \A j \in DOMAIN checkLayers : checkLayers[j] <= layer + 1 <=> checkLayers[j] <= layer
  BY <1>1
<1>3. {j \in DOMAIN checkLayers' : checkLayers'[j] <= layer'}
        = {j \in DOMAIN checkLayers : checkLayers[j] <= layer}
  BY <1>2
<1>4. QED
  BY <1>3 DEF ChecksPassed

(* Layers 0 and 1 are not checked.                                         *)
LEMMA PassedAtFirst ==
  ASSUME ScheduleInv, layer' = 0, checkLayers' = checkLayers
  PROVE  ChecksPassed' = 0
<1>1. \A j \in DOMAIN checkLayers : checkLayers[j] \in 2 .. NumLayers - 1
  BY DEF ScheduleInv, TypeOK, LayersInOrder
<1>2. NumLayers - 1 \in Int
  BY ScheduleAssumption
<1>3. {j \in DOMAIN checkLayers' : checkLayers'[j] <= layer'} = {}
  BY <1>1, <1>2
<1>4. QED
  BY <1>3, FS_EmptySet DEF ChecksPassed

-----------------------------------------------------------------------------
LEMMA ForwardInitially == ForwardInit => ForwardInv
<1> SUFFICES ASSUME ForwardInit
             PROVE  ForwardInv
  OBVIOUS
<1>1. ScheduleInv
  BY ScheduleInit DEF ForwardInit
<1>2. /\ lengths \in [Positions!Module -> 1 .. MaxLength] /\ layer = NumLayers /\ rows = {}
      /\ hop = 0 /\ chosen = {} /\ chosenOld = Choice!Module /\ done = FALSE
      /\ lastScores = [m \in Choice!Dynamic |-> 0] /\ lastNan = {}
  BY DEF ForwardInit, Positions!Init, Choice!Init
<1>3. NumLayers \in Nat /\ MaxScore \in Nat /\ ~(layer < NumLayers)
  BY <1>2, ScheduleAssumption, ForwardAssumption
<1>4. ForwardTypeOK
  <2>1. lastScores \in Choice!Scores
    BY <1>2, <1>3 DEF Choice!Scores
  <2>2. layer \in 0 .. NumLayers /\ hop \in Nat
    BY <1>2, <1>3
  <2>3. done \in BOOLEAN
    BY <1>2, Zenon
  <2>4. QED
    BY <1>2, <2>1, <2>2, <2>3 DEF ForwardTypeOK
<1>5. ScheduledFirst /\ SuffixInPlace /\ RowsInOrder /\ KeptEnough
  BY <1>3 DEF ScheduledFirst, SuffixInPlace, Positions!SuffixInPlace, RowsInOrder,
              Positions!RowsInOrder, KeptEnough
<1>6. ChoosesAtCheck /\ NanIsSeen
  BY <1>2 DEF ChoosesAtCheck, NanIsSeen, Choice!Module, Positions!Module
<1>7. EnoughChosen /\ BestKept /\ NanContained
  BY <1>2 DEF EnoughChosen, BestKept, Choice!BestKept, NanContained, Choice!NanContained
<1>8. QED
  BY <1>1, <1>4, <1>5, <1>6, <1>7 DEF ForwardInv

(* Before the layer loop and behind it no choice is under way.              *)
LEMMA AtRest ==
  ASSUME ForwardInv, hop = 0
  PROVE  chosen = {} /\ chosenOld = Positions!Module /\ ~done /\ lastNan = {}
BY DEF ForwardInv, ChoosesAtCheck

LEMMA RestStays ==
  ASSUME ForwardInv, hop = 0, UNCHANGED choiceVars
  PROVE  /\ ChoosesAtCheck' /\ NanIsSeen' /\ EnoughChosen' /\ BestKept' /\ NanContained'
         /\ hop' \in Nat /\ done' \in BOOLEAN /\ lastScores' \in Choice!Scores
         /\ chosen' = {} /\ lastNan' = {}
<1>1. /\ hop' = 0 /\ chosen' = {} /\ chosenOld' = Positions!Module /\ ~done'
      /\ lastNan' = {} /\ lastScores' = lastScores /\ done' = done
  BY AtRest DEF choiceVars
<1>2. ChoosesAtCheck' /\ NanIsSeen'
  BY <1>1 DEF ChoosesAtCheck, NanIsSeen, Positions!Module
<1>3. EnoughChosen' /\ BestKept' /\ NanContained'
  BY <1>1 DEF EnoughChosen, BestKept, Choice!BestKept, NanContained, Choice!NanContained
<1>4. lastScores' \in Choice!Scores /\ done' \in BOOLEAN /\ hop' \in Nat
  BY <1>1 DEF ForwardInv, ForwardTypeOK
<1>5. QED
  BY <1>1, <1>2, <1>3, <1>4

LEMMA ScheduleLayerStep ==
  ASSUME ForwardInv, ScheduleLayer
  PROVE  ForwardInv'
<1>1. NextLayer /\ i < NumLayers /\ i \in Nat /\ NumLayers \in Nat
  BY ScheduleAssumption DEF ScheduleLayer, NextLayer, ForwardInv, ScheduleInv, TypeOK
<1>2. ScheduleInv'
  BY <1>1, ScheduleNext DEF ForwardInv, Next
<1>3. /\ lengths' = lengths /\ layer' = layer /\ rows' = rows
      /\ UNCHANGED choiceVars
  BY DEF ScheduleLayer, positionVars
<1>4. ~(layer < NumLayers)
  BY <1>1 DEF ForwardInv, ScheduledFirst
<1>5. hop = 0
  BY <1>4 DEF ForwardInv, ChoosesAtCheck
<1>6. ForwardTypeOK'
  BY <1>3, <1>5, RestStays DEF ForwardInv, ForwardTypeOK
<1>7. ScheduledFirst' /\ SuffixInPlace' /\ RowsInOrder' /\ KeptEnough'
  BY <1>3, <1>4 DEF ScheduledFirst, SuffixInPlace, Positions!SuffixInPlace, RowsInOrder,
              Positions!RowsInOrder, KeptEnough
<1>8. QED
  BY <1>2, <1>3, <1>5, <1>6, <1>7, RestStays DEF ForwardInv

LEMMA BeginForwardStep ==
  ASSUME ForwardInv, BeginForward
  PROVE  ForwardInv'
<1>1. /\ lengths \in [Positions!Module -> 1 .. MaxLength] /\ NumLayers \in Nat
      /\ layer = NumLayers /\ layer' = 0 /\ lengths' = lengths
      /\ rows' = Positions!Dynamic
      /\ UNCHANGED vars /\ UNCHANGED choiceVars
      /\ i = NumLayers /\ modules = LastModule + 1
  BY ScheduleAssumption DEF ForwardInv, ForwardTypeOK, BeginForward, Positions!BeginForward
<1>2. hop = 0
  BY <1>1 DEF ForwardInv, ChoosesAtCheck
<1>3. ScheduleInv'
  BY <1>1, ScheduleNext DEF ForwardInv
<1>4. SuffixInPlace' /\ RowsInOrder'
  BY <1>1, LaidOut DEF BeginForward
<1>5. ForwardTypeOK'
  BY <1>1, <1>2, RestStays DEF ForwardTypeOK
<1>6. ScheduledFirst'
  BY <1>1 DEF ScheduledFirst, vars
<1>7. KeptEnough'
  <2>1. ChecksPassed' = 0
    BY <1>1, PassedAtFirst DEF ForwardInv, vars
  <2>2. AskedBefore(ChecksPassed + 1)' = modules - 1
    BY <1>1, <2>1 DEF AskedBefore, vars
  <2>3. Cardinality(rows') = LastModule /\ LastModule \in Nat
    BY <1>1, ModulesFinite
  <2>4. QED
    BY <1>1, <2>2, <2>3 DEF KeptEnough
<1>8. QED
  BY <1>1, <1>2, <1>3, <1>4, <1>5, <1>6, <1>7, RestStays DEF ForwardInv

LEMMA UncheckedNextStep ==
  ASSUME ForwardInv, UncheckedNext
  PROVE  ForwardInv'
<1>1. /\ layer \in Nat /\ NumLayers \in Nat /\ layer < NumLayers /\ layer' = layer + 1
      /\ lengths' = lengths /\ rows' = rows /\ rowStart' = rowStart
      /\ suffixStart' = suffixStart
      /\ ~Checked(layer + 1)
      /\ UNCHANGED vars /\ UNCHANGED choiceVars /\ nanSeen' = nanSeen
  BY ScheduleAssumption
     DEF ForwardInv, ForwardTypeOK, UncheckedNext, Positions!PlainLayer
<1>2. hop = 0
  BY <1>1 DEF ForwardInv, ChoosesAtCheck
<1>3. ScheduleInv'
  BY <1>1, ScheduleNext DEF ForwardInv
<1>4. SuffixInPlace' /\ RowsInOrder'
  BY <1>1, PrefixLengthKept
     DEF ForwardInv, SuffixInPlace, Positions!SuffixInPlace, RowsInOrder,
         Positions!RowsInOrder
<1>5. ForwardTypeOK'
  BY <1>1, <1>2, RestStays DEF ForwardInv, ForwardTypeOK
<1>6. ScheduledFirst'
  BY <1>1 DEF ForwardInv, ScheduledFirst, vars
<1>7. KeptEnough'
  <2>1. ChecksPassed' = ChecksPassed
    BY <1>1, PassedNone DEF ForwardInv, vars
  <2>2. AskedBefore(ChecksPassed + 1)' = AskedBefore(ChecksPassed + 1)
    BY <1>1, <2>1 DEF AskedBefore, vars
  <2>3. QED
    BY <1>1, <2>2 DEF ForwardInv, KeptEnough
<1>8. QED
  BY <1>1, <1>2, <1>3, <1>4, <1>5, <1>6, <1>7, RestStays DEF ForwardInv

LEMMA CheckedNextStep ==
  ASSUME ForwardInv, CheckedNext
  PROVE  ForwardInv'
<1>1. /\ lengths \in [Positions!Module -> 1 .. MaxLength]
      /\ layer \in Nat /\ NumLayers \in Nat /\ layer < NumLayers /\ layer' = layer + 1
      /\ layer + 1 < NumLayers
      /\ lengths' = lengths /\ rows' = chosen /\ chosen \in SUBSET Positions!Dynamic
      /\ chosen \in SUBSET rows /\ rows \in SUBSET Positions!Dynamic
      /\ Checked(layer + 1) /\ done
      /\ UNCHANGED vars /\ nanSeen' = nanSeen
  BY ScheduleAssumption
     DEF ForwardInv, ForwardTypeOK, CheckedNext, Positions!CheckNext
<1>2. /\ hop' = 0 /\ chosen' = {} /\ chosenOld' = Choice!Module /\ done' = FALSE
      /\ lastScores' = [m \in Choice!Dynamic |-> 0] /\ lastNan' = {}
  BY DEF CheckedNext, Choice!Enter
<1>3. ScheduleInv'
  BY <1>1, ScheduleNext DEF ForwardInv
<1>4. SuffixInPlace' /\ RowsInOrder'
  BY <1>1, LaidOutAnew DEF CheckedNext
<1>5. ForwardTypeOK'
  <2>1. lastScores' \in Choice!Scores
    BY <1>2, ForwardAssumption DEF Choice!Scores
  <2>2. layer' \in 0 .. NumLayers /\ hop' \in Nat
    BY <1>1, <1>2
  <2>3. done' \in BOOLEAN
    BY <1>2, Zenon
  <2>4. QED
    BY <1>1, <1>2, <2>1, <2>2, <2>3 DEF ForwardTypeOK
<1>6. ScheduledFirst'
  BY <1>1 DEF ForwardInv, ScheduledFirst, vars
<1>7. ChoosesAtCheck' /\ NanIsSeen'
  BY <1>2 DEF ChoosesAtCheck, NanIsSeen, Choice!Module, Positions!Module
<1>8. EnoughChosen' /\ BestKept' /\ NanContained'
  BY <1>2 DEF EnoughChosen, BestKept, Choice!BestKept, NanContained, Choice!NanContained
<1>9. KeptEnough'
  <2> SUFFICES ASSUME ~nanSeen
               PROVE  Cardinality(rows') >= AskedBefore(ChecksPassed + 1)'
    BY <1>1 DEF KeptEnough
  <2>1. PICK k \in 1 .. Len(checkLayers) :
          /\ checkLayers[k] = layer + 1
          /\ Asked = recomputeNum[k]
          /\ Asked \in Nat /\ Asked >= 1 /\ Asked < AskedBefore(k)
    BY <1>1, AskedIs DEF ForwardInv
  <2>2. ChecksPassed = k - 1 /\ k \in Nat
    BY <1>1, <2>1, PassedBefore DEF ForwardInv
  <2>3. ChecksPassed' = k
    BY <1>1, <2>1, PassedWith DEF ForwardInv, vars
  <2>4. AskedBefore(ChecksPassed + 1)' = Asked
    <3>1. k + 1 # 1 /\ (k + 1) - 1 = k
      BY <2>1
    <3>2. QED
      BY <1>1, <2>1, <2>3, <3>1 DEF AskedBefore, vars
  <2>5. Cardinality(rows) >= AskedBefore(k)
    <3>1. (k - 1) + 1 = k
      BY <2>2
    <3>2. QED
      BY <1>1, <2>2, <3>1 DEF ForwardInv, KeptEnough
  <2>6. hop >= 1 /\ lastNan = {}
    BY <1>1 DEF ForwardInv, ForwardTypeOK, ChoosesAtCheck, NanIsSeen
  <2>7. Choice!AtLeastOne(Asked) = Asked
    BY <2>1 DEF Choice!AtLeastOne
  <2>8. Cardinality(rows) \in Nat /\ AskedBefore(k) \in Int
    <3>1. Cardinality(rows) \in Nat
      BY <1>1, ModulesFinite, FS_Subset, FS_CardinalityType
    <3>2. AskedBefore(k) \in Int
      <4>1. modules \in Int
        BY <1>1, ScheduleAssumption DEF ForwardInv, ScheduleInv, TypeOK
      <4>2. CASE k = 1
        BY <4>1, <4>2 DEF AskedBefore
      <4>3. CASE k # 1
        <5>1. k - 1 \in 1 .. Len(recomputeNum) /\ recomputeNum \in Seq(Nat)
          BY <2>1, <4>3 DEF ForwardInv, ScheduleInv, TypeOK, LayersInOrder
        <5>2. QED
          BY <4>3, <5>1 DEF AskedBefore
      <4>4. QED
        BY <4>2, <4>3
    <3>3. QED
      BY <3>1, <3>2
  <2>9. Cardinality(rows) >= Asked
    BY <2>1, <2>5, <2>8
  <2>10. Cardinality(chosen) >= Asked
    BY <2>6, <2>7, <2>9 DEF ForwardInv, EnoughChosen
  <2>11. QED
    BY <1>1, <2>4, <2>10
<1>10. QED
  BY <1>3, <1>4, <1>5, <1>6, <1>7, <1>8, <1>9 DEF ForwardInv

LEMMA AskedKept ==
  ASSUME UNCHANGED <<vars, positionVars>>
  PROVE  Asked' = Asked
<1>1. layer' = layer /\ checkLayers' = checkLayers /\ recomputeNum' = recomputeNum
  BY DEF vars, positionVars
<1>2. QED
  BY <1>1, Zenon DEF Asked, AskedAt, Checked

(* One hop: a new choice, by the new scores.                               *)
LEMMA HopStep ==
  ASSUME ForwardInv, layer < NumLayers, Checked(layer + 1), rows # {},
         UNCHANGED <<vars, positionVars>>,
         NEW scores \in Choice!Scores, NEW nan \in SUBSET rows, Choice!Hop(scores, nan),
         nanSeen' = (nanSeen \/ lastNan' # {})
  PROVE  /\ ForwardTypeOK' /\ ChoosesAtCheck' /\ NanIsSeen'
         /\ EnoughChosen' /\ BestKept' /\ NanContained'
<1> DEFINE k == Choice!AtLeastOne(Asked)
<1>1. /\ rows' = rows /\ layer' = layer /\ lengths' = lengths
      /\ checkLayers' = checkLayers /\ NumLayers \in Nat
      /\ rows \in SUBSET Positions!Dynamic
  BY ScheduleAssumption DEF vars, positionVars, ForwardInv, ForwardTypeOK
<1>2. /\ hop' = hop + 1 /\ hop \in Nat /\ chosen' = Choice!Best(scores, nan)
      /\ lastScores' = scores /\ lastNan' = nan /\ done' = done /\ done \in BOOLEAN
  BY DEF Choice!Hop, ForwardInv, ForwardTypeOK
<1>3. Asked \in Nat /\ Asked' = Asked
  BY AskedIs, AskedKept DEF ForwardInv
<1>4. PICK B : B = Choice!Best(scores, nan)
  OBVIOUS
<1>5. BestFits(scores, nan, B, k)
  BY <1>1, <1>3, <1>4, BestIs
<1>6. chosen' = B /\ Choice!AtLeastOne(Asked)' = k
  BY <1>2, <1>3, <1>4, Zenon DEF Choice!AtLeastOne
<1> HIDE DEF k
<1>7. ForwardTypeOK'
  BY <1>1, <1>2, <1>5, <1>6 DEF BestFits, ForwardTypeOK, ForwardInv, Choice!Scores
<1>8. hop' # 0 /\ Checked(layer + 1)'
  BY <1>1, <1>2 DEF Checked
<1>9. ChoosesAtCheck'
  BY <1>1, <1>8 DEF ChoosesAtCheck
<1>10. NanIsSeen'
  BY DEF NanIsSeen
<1>11. EnoughChosen'
  <2>1. nan = {} /\ Cardinality(rows) >= k => Cardinality(B) >= k
    BY <1>5, Zenon DEF BestFits
  <2>2. QED
    BY <1>1, <1>2, <1>6, <2>1 DEF EnoughChosen
<1>12. NanContained'
  BY <1>1, <1>2, <1>5, <1>6 DEF BestFits, NanContained, Choice!NanContained
<1>13. BestKept'
  <2>1. nan = {} => BestOf(scores, rows, B, k)
    BY <1>5, Zenon DEF BestFits
  <2>2. QED
    BY <1>1, <1>2, <1>6, <2>1, BestKeptIs
<1>14. QED
  BY <1>7, <1>9, <1>10, <1>11, <1>12, <1>13

LEMMA ChooseStep ==
  ASSUME ForwardInv, Choose
  PROVE  ForwardInv'
<1>1. /\ layer < NumLayers /\ Checked(layer + 1) /\ rows # {}
      /\ UNCHANGED <<vars, positionVars>>
      /\ Choice!Next /\ nanSeen' = (nanSeen \/ lastNan' # {})
  BY DEF Choose
<1>2. /\ rows' = rows /\ layer' = layer /\ lengths' = lengths /\ rowStart' = rowStart
      /\ suffixStart' = suffixStart /\ i' = i /\ modules' = modules
      /\ checkLayers' = checkLayers /\ recomputeNum' = recomputeNum /\ UNCHANGED vars
  BY <1>1 DEF vars, positionVars
<1>3. ScheduleInv' /\ ScheduledFirst'
  BY <1>2, ScheduleNext DEF ForwardInv, ScheduledFirst
<1>4. SuffixInPlace' /\ RowsInOrder'
  BY <1>2, PrefixLengthKept
     DEF ForwardInv, SuffixInPlace, Positions!SuffixInPlace, RowsInOrder,
         Positions!RowsInOrder
<1>5. KeptEnough'
  <2>1. ~nanSeen' => ~nanSeen
    BY <1>1
  <2>2. AskedBefore(ChecksPassed + 1)' = AskedBefore(ChecksPassed + 1)
    BY <1>2 DEF AskedBefore, ChecksPassed
  <2>3. QED
    BY <1>2, <2>1, <2>2 DEF ForwardInv, KeptEnough
<1>6. /\ ForwardTypeOK' /\ ChoosesAtCheck' /\ NanIsSeen'
      /\ EnoughChosen' /\ BestKept' /\ NanContained'
  <2>1. ASSUME NEW scores \in Choice!Scores, NEW nan \in SUBSET rows,
               Choice!Hop(scores, nan)
        PROVE  /\ ForwardTypeOK' /\ ChoosesAtCheck' /\ NanIsSeen'
               /\ EnoughChosen' /\ BestKept' /\ NanContained'
    BY <1>1, <2>1, HopStep
  <2>2. ASSUME UNCHANGED <<chosen, lastScores, lastNan>>,
               hop >= 1, hop' \in Nat, hop' >= 1, done' = TRUE
        PROVE  /\ ForwardTypeOK' /\ ChoosesAtCheck' /\ NanIsSeen'
               /\ EnoughChosen' /\ BestKept' /\ NanContained'
    <3>1. Asked' = Asked
      BY <1>1, AskedKept
    <3>2. ForwardTypeOK'
      <4>1. done' \in BOOLEAN
        BY <2>2, Zenon
      <4>2. QED
        BY <1>2, <2>2, <4>1 DEF ForwardTypeOK, ForwardInv, Choice!Scores
    <3>3. hop' # 0 /\ layer' < NumLayers /\ Checked(layer + 1)'
      BY <1>1, <1>2, <2>2 DEF Checked
    <3>4. ChoosesAtCheck' /\ NanIsSeen'
      BY <1>1, <2>2, <3>3 DEF ChoosesAtCheck, NanIsSeen, ForwardInv
    <3>5. Choice!AtLeastOne(Asked)' = Choice!AtLeastOne(Asked)
      BY <3>1 DEF Choice!AtLeastOne
    <3>6. EnoughChosen'
      BY <1>2, <2>2, <3>5 DEF EnoughChosen, ForwardInv
    <3>7. NanContained'
      BY <1>2, <2>2 DEF NanContained, Choice!NanContained, ForwardInv
    <3>8. BestKept'
      <4>1. BestKept
        BY DEF ForwardInv
      <4>2. QED
        BY <1>2, <2>2, <3>5, <4>1, BestKeptIs
    <3>9. QED
      BY <3>2, <3>4, <3>6, <3>7, <3>8
  <2>3. CASE Choice!Break
    <3>1. /\ UNCHANGED <<chosen, lastScores, lastNan>>
          /\ hop >= 1 /\ hop' \in Nat /\ hop' >= 1 /\ done' = TRUE
      BY <2>3 DEF Choice!Break, ForwardInv, ForwardTypeOK
    <3>2. QED
      BY <2>2, <3>1
  <2>4. CASE Choice!Settle
    <3>1. /\ UNCHANGED <<chosen, lastScores, lastNan>>
          /\ hop' = hop /\ hop \in Nat /\ done' = TRUE /\ chosen = chosenOld
      BY <2>4 DEF Choice!Settle, ForwardInv, ForwardTypeOK
    <3>2. hop # 0
      <4>1. Positions!Module # {}
        BY ModulesFinite DEF Positions!Module
      <4>2. QED
        BY <3>1, <4>1 DEF ForwardInv, ChoosesAtCheck
    <3>3. hop >= 1
      BY <3>1, <3>2
    <3>4. QED
      BY <2>2, <3>1, <3>3
  <2>5. QED
    BY <1>1, <2>1, <2>3, <2>4 DEF Choice!Next
<1>7. QED
  BY <1>3, <1>4, <1>5, <1>6 DEF ForwardInv

LEMMA ForwardUnchanged ==
  ASSUME ForwardInv, UNCHANGED forwardVars
  PROVE  ForwardInv'
<1>1. /\ UNCHANGED <<vars, positionVars>> /\ UNCHANGED choiceVars /\ nanSeen' = nanSeen
  BY DEF forwardVars
<1>2. /\ rows' = rows /\ layer' = layer /\ lengths' = lengths /\ rowStart' = rowStart
      /\ suffixStart' = suffixStart /\ i' = i /\ modules' = modules
      /\ checkLayers' = checkLayers /\ recomputeNum' = recomputeNum /\ UNCHANGED vars
  BY <1>1 DEF vars, positionVars
<1>3. /\ hop' = hop /\ chosen' = chosen /\ chosenOld' = chosenOld /\ done' = done
      /\ lastScores' = lastScores /\ lastNan' = lastNan
  BY <1>1 DEF choiceVars
<1>4. ScheduleInv' /\ ScheduledFirst'
  BY <1>2, ScheduleNext DEF ForwardInv, ScheduledFirst
<1>5. SuffixInPlace' /\ RowsInOrder'
  BY <1>2, PrefixLengthKept
     DEF ForwardInv, SuffixInPlace, Positions!SuffixInPlace, RowsInOrder,
         Positions!RowsInOrder
<1>6. ForwardTypeOK'
  BY <1>2, <1>3 DEF ForwardTypeOK, ForwardInv, Choice!Scores
<1>7. ChoosesAtCheck' /\ NanIsSeen' /\ KeptEnough'
  BY <1>1, <1>2, <1>3
     DEF ForwardInv, ChoosesAtCheck, NanIsSeen, Checked, KeptEnough, AskedBefore,
         ChecksPassed
<1>8. Choice!AtLeastOne(Asked)' = Choice!AtLeastOne(Asked)
  BY <1>1, AskedKept DEF Choice!AtLeastOne
<1>9. EnoughChosen' /\ NanContained'
  BY <1>2, <1>3, <1>8 DEF ForwardInv, EnoughChosen, NanContained, Choice!NanContained
<1>10. BestKept'
  <2>1. BestKept
    BY DEF ForwardInv
  <2>2. QED
    BY <1>2, <1>3, <1>8, <2>1, BestKeptIs
<1>11. QED
  BY <1>4, <1>5, <1>6, <1>7, <1>9, <1>10 DEF ForwardInv

LEMMA ForwardNextKeeps == ForwardInv /\ [ForwardNext]_forwardVars => ForwardInv'
<1> SUFFICES ASSUME ForwardInv, [ForwardNext]_forwardVars
             PROVE  ForwardInv'
  OBVIOUS
<1>1. CASE ScheduleLayer
  BY <1>1, ScheduleLayerStep
<1>2. CASE BeginForward
  BY <1>2, BeginForwardStep
<1>3. CASE UncheckedNext
  BY <1>3, UncheckedNextStep
<1>4. CASE Choose
  BY <1>4, ChooseStep
<1>5. CASE CheckedNext
  BY <1>5, CheckedNextStep
<1>6. CASE UNCHANGED forwardVars
  BY <1>6, ForwardUnchanged
<1>7. QED
  BY <1>1, <1>2, <1>3, <1>4, <1>5, <1>6 DEF ForwardNext

(* The invariant of a forward with checks.                                 *)
THEOREM ForwardInvariant == ForwardSpec => []ForwardInv
BY ForwardInitially, ForwardNextKeeps, PTL DEF ForwardSpec

(* Whatever modules the checked layers of Qwen2Model.forward drop, the       *)
(* instruction keeps the position the whole prompt gave it.                *)
THEOREM SuffixStaysInPlace == ForwardSpec => []SuffixInPlace
<1>1. ForwardInv => SuffixInPlace
  BY DEF ForwardInv
<1>2. QED
  BY <1>1, ForwardInvariant, PTL

(* The rows of hidden_states lie one behind the other, in the order of the   *)
(* modules, after every checked layer.                                     *)
THEOREM RowsStayInOrder == ForwardSpec => []RowsInOrder
<1>1. ForwardInv => RowsInOrder
  BY DEF ForwardInv
<1>2. QED
  BY <1>1, ForwardInvariant, PTL

(* Whatever the scores, as long as they are numbers, no layer recomputes     *)
(* fewer modules than the schedule asks for there.                         *)
THEOREM EnoughIsKept == ForwardSpec => []KeptEnough
<1>1. ForwardInv => KeptEnough
  BY DEF ForwardInv
<1>2. QED
  BY <1>1, ForwardInvariant, PTL

(* calculate_recomputation_modules keeps the best modules, and more than     *)
(* asked for only where they tie.                                          *)
THEOREM TheBestAreKept == ForwardSpec => []BestKept
<1>1. ForwardInv => BestKept
  BY DEF ForwardInv
<1>2. QED
  BY <1>1, ForwardInvariant, PTL

(* A module whose score is no number is never kept, and something is kept    *)
(* unless no score is a number.                                            *)
THEOREM NanIsContained == ForwardSpec => []NanContained
<1>1. ForwardInv => NanContained
  BY DEF ForwardInv
<1>2. QED
  BY <1>1, ForwardInvariant, PTL

(* The checks of a forward drop modules each time, whatever the layers keep. *)
THEOREM ForwardChecksDrop == ForwardSpec => []EveryCheckDrops
<1>1. ForwardInv => EveryCheckDrops
  BY DEF ForwardInv, ScheduleInv
<1>2. QED
  BY <1>1, ForwardInvariant, PTL

(* The schedule does not change once it is there.                          *)
LEMMA ScheduleAlone == [ForwardNext]_forwardVars => [Next]_vars
<1> SUFFICES ASSUME [ForwardNext]_forwardVars
             PROVE  Next \/ UNCHANGED vars
  OBVIOUS
<1>1. CASE ScheduleLayer
  BY <1>1 DEF ScheduleLayer, Next
<1>2. CASE BeginForward
  BY <1>2 DEF BeginForward
<1>3. CASE UncheckedNext
  BY <1>3 DEF UncheckedNext
<1>4. CASE Choose
  BY <1>4 DEF Choose
<1>5. CASE CheckedNext
  BY <1>5 DEF CheckedNext
<1>6. CASE UNCHANGED forwardVars
  BY <1>6 DEF forwardVars
<1>7. QED
  BY <1>1, <1>2, <1>3, <1>4, <1>5, <1>6 DEF ForwardNext

(* Each forward of a prompt with two modules beside the static one has a      *)
(* layer at which it checks, so the layer loop can look up the first.      *)
THEOREM ForwardHasCheck == ASSUME RatioFits PROVE ForwardSpec => []SomeLayerChecked
<1>1. ForwardInit => ScheduleInv /\ LossSoFar
  BY ScheduleInit, LossInit DEF ForwardInit
<1>2. ScheduleInv /\ LossSoFar /\ [ForwardNext]_forwardVars => (ScheduleInv /\ LossSoFar)'
  BY RatioFits, ScheduleAlone, ScheduleNext, LossNext
<1>3. ScheduleInv /\ LossSoFar => SomeLayerChecked
  BY RatioFits, CheckedAtLast
<1>4. QED
  BY <1>1, <1>2, <1>3, PTL DEF ForwardSpec
=============================================================================
