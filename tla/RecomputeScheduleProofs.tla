----------------------- MODULE RecomputeScheduleProofs -----------------------
(***************************************************************************)
(* The recomputation schedule is sound for every ratio, every number of     *)
(* layers and every number of modules.                                     *)
(***************************************************************************)
EXTENDS RecomputeSchedule, TLAPS

LEMMA FloorType ==
  ASSUME NEW x \in Nat
  PROVE  Floor(x) \in Nat /\ Floor(x) >= 1
BY ScheduleAssumption DEF Floor

LEMMA ShrunkType ==
  ASSUME NEW n \in Nat, number = n
  PROVE  Shrunk \in Nat
<1>1. number * RatioNum \in Nat
  BY ScheduleAssumption
<1>2. QED
  BY <1>1, ScheduleAssumption DEF Shrunk

LEMMA ScheduleInit == Init => ScheduleInv
<1> SUFFICES ASSUME Init
             PROVE  ScheduleInv
  OBVIOUS
<1>1. TypeOK
  <2>0. /\ modules \in 1 .. MaxModules /\ i = 1 /\ numberOld = modules
        /\ number = modules * Scale
        /\ flag = FALSE /\ checkLayers = << >> /\ recomputeNum = << >>
    BY DEF Init
  <2>1. MaxModules \in Nat /\ NumLayers \in Nat /\ NumLayers >= 1 /\ Scale \in Nat
    BY ScheduleAssumption
  <2>2. modules \in Nat
    BY <2>0, <2>1
  <2>3. number \in Nat
    BY <2>0, <2>1, <2>2
  <2>4. flag \in BOOLEAN
    BY <2>0, Zenon
  <2>5. checkLayers \in Seq(Nat) /\ recomputeNum \in Seq(Nat)
    BY <2>0
  <2>6. i \in Nat /\ 1 <= i /\ i <= NumLayers /\ numberOld \in Nat
    BY <2>0, <2>1, <2>2
  <2>7. QED
    BY <2>0, <2>3, <2>4, <2>5, <2>6, Zenon DEF TypeOK
<1>2. Len(recomputeNum) = 0 /\ Len(checkLayers) = 0 /\ 1 .. 0 = {}
  BY DEF Init
<1>3. Bookkeeping
  BY <1>1, <1>2 DEF Init, Bookkeeping, TypeOK
<1>4. EveryCheckDrops /\ LayersInOrder
  BY <1>2 DEF EveryCheckDrops, LayersInOrder
<1>5. QED
  BY <1>1, <1>3, <1>4 DEF ScheduleInv

(* One entry more: what was in order stays in order. *)
LEMMA ScheduleStep ==
  ASSUME ScheduleInv, i < NumLayers, i' = i + 1, modules' = modules,
         NEW f \in Nat, f >= 1, f < numberOld, numberOld' = f, flag, flag' = flag,
         recomputeNum' = Append(recomputeNum, f),
         checkLayers' = Append(checkLayers, i)
  PROVE  Bookkeeping' /\ EveryCheckDrops' /\ LayersInOrder'
<1> DEFINE n == Len(recomputeNum)
<1> USE DEF ScheduleInv
<1>0. /\ n \in Nat /\ Len(checkLayers) = n /\ i \in Nat /\ modules \in Nat
      /\ numberOld \in Nat /\ NumLayers \in Nat
      /\ recomputeNum \in Seq(Nat) /\ checkLayers \in Seq(Nat)
  BY ScheduleAssumption DEF TypeOK, LayersInOrder
<1>1. /\ Len(recomputeNum') = n + 1 /\ Len(checkLayers') = n + 1
      /\ recomputeNum'[n + 1] = f /\ checkLayers'[n + 1] = i
      /\ \A k \in 1 .. n : recomputeNum'[k] = recomputeNum[k]
                           /\ checkLayers'[k] = checkLayers[k]
  BY <1>0
<1>2. f < AskedBefore(n + 1)
  <2>1. CASE recomputeNum = << >>
    BY <1>0, <2>1 DEF AskedBefore, Bookkeeping
  <2>2. CASE recomputeNum # << >>
    BY <1>0, <2>2 DEF AskedBefore, Bookkeeping
  <2>3. QED
    BY <2>1, <2>2
<1>3. \A k \in 1 .. n + 1 : AskedBefore(k)' = AskedBefore(k)
  <2> TAKE k \in 1 .. n + 1
  <2>1. CASE k = 1
    BY <2>1 DEF AskedBefore
  <2>2. CASE k # 1
    <3>1. k - 1 \in 1 .. n
      BY <1>0, <2>2
    <3>2. QED
      BY <1>1, <2>2, <3>1 DEF AskedBefore
  <2>3. QED
    BY <2>1, <2>2
<1>4. EveryCheckDrops'
  <2>1. \A k \in 1 .. n + 1 :
          recomputeNum'[k] >= 1 /\ recomputeNum'[k] < AskedBefore(k)
    <3> TAKE k \in 1 .. n + 1
    <3>1. CASE k = n + 1
      BY <1>1, <1>2, <3>1
    <3>2. CASE k \in 1 .. n
      BY <1>1, <3>2 DEF EveryCheckDrops
    <3>3. QED
      BY <1>0, <3>1, <3>2
  <2>2. QED
    BY <1>1, <1>3, <2>1 DEF EveryCheckDrops
<1>5. LayersInOrder'
  <2>1. i \in 2 .. NumLayers - 1
    BY <1>0 DEF Bookkeeping
  <2>2. \A k \in 1 .. n + 1 : checkLayers'[k] \in 2 .. NumLayers - 1
    BY <1>0, <1>1, <2>1 DEF LayersInOrder
  <2>3. \A j, k \in 1 .. n + 1 : j < k => checkLayers'[j] < checkLayers'[k]
    <3> SUFFICES ASSUME NEW j \in 1 .. n + 1, NEW k \in 1 .. n + 1, j < k
                 PROVE  checkLayers'[j] < checkLayers'[k]
      OBVIOUS
    <3>1. CASE k = n + 1
      BY <1>0, <1>1, <3>1 DEF Bookkeeping
    <3>2. CASE k \in 1 .. n
      BY <1>0, <1>1, <3>2 DEF LayersInOrder
    <3>3. QED
      BY <1>0, <3>1, <3>2
  <2>4. QED
    BY <1>1, <2>2, <2>3 DEF LayersInOrder
<1>6. Bookkeeping'
  <2>1. \A k \in 1 .. n + 1 : checkLayers'[k] < i + 1
    <3> TAKE k \in 1 .. n + 1
    <3>1. CASE k = n + 1
      BY <1>0, <1>1, <3>1
    <3>2. CASE k \in 1 .. n
      <4>1. checkLayers[k] < i /\ checkLayers[k] \in Nat
        BY <1>0, <3>2 DEF Bookkeeping
      <4>2. QED
        BY <1>0, <1>1, <3>2, <4>1
    <3>3. QED
      BY <1>0, <3>1, <3>2
  <2>2. flag => i' >= 2 /\ f <= modules - 1
    BY <1>0 DEF Bookkeeping
  <2>3. QED
    BY <1>0, <1>1, <2>1, <2>2 DEF Bookkeeping
<1>7. QED
  BY <1>4, <1>5, <1>6

LEMMA ScheduleNext == ScheduleInv /\ [Next]_vars => ScheduleInv'
<1> SUFFICES ASSUME ScheduleInv, [Next]_vars
             PROVE  ScheduleInv'
  OBVIOUS
<1> USE DEF ScheduleInv
<1>1. CASE NextLayer
  <2>0. /\ i \in Nat /\ NumLayers \in Nat /\ modules \in Nat /\ numberOld \in Nat
        /\ i < NumLayers /\ i' = i + 1 /\ modules' = modules
    BY <1>1, ScheduleAssumption DEF NextLayer, TypeOK
  <2>1. Shrunk \in Nat /\ Floor(Shrunk) \in Nat /\ Floor(Shrunk) >= 1
    <3>1. Shrunk \in Nat
      BY ShrunkType DEF TypeOK
    <3>2. QED
      BY <3>1, FloorType
  <2>2. TypeOK'
    <3>1. CASE Floor(Shrunk) < numberOld /\ FirstDrop
      BY <1>1, <2>0, <2>1, <3>1 DEF NextLayer, FirstDrop, TypeOK
    <3>2. CASE Floor(Shrunk) < numberOld /\ Schedule
      BY <1>1, <2>0, <2>1, <3>2 DEF NextLayer, Schedule, TypeOK
    <3>3. CASE ~(Floor(Shrunk) < numberOld)
      BY <1>1, <2>0, <2>1, <3>3 DEF NextLayer, TypeOK
    <3>4. QED
      BY <1>1, <3>1, <3>2, <3>3 DEF NextLayer
  <2>3. Bookkeeping' /\ EveryCheckDrops' /\ LayersInOrder'
    <3>1. CASE Floor(Shrunk) < numberOld /\ FirstDrop
      <4>1. /\ numberOld' = Floor(Shrunk) /\ flag' = TRUE /\ ~flag
            /\ UNCHANGED <<checkLayers, recomputeNum>>
        BY <1>1, <3>1 DEF NextLayer, FirstDrop
      <4>2. numberOld = modules /\ recomputeNum = << >> /\ i >= 1
        BY <4>1 DEF Bookkeeping, TypeOK
      <4>3. checkLayers = << >>
        BY <4>2 DEF LayersInOrder, TypeOK
      <4>4. QED
        BY <2>0, <2>1, <3>1, <4>1, <4>2, <4>3
           DEF Bookkeeping, EveryCheckDrops, LayersInOrder
    <3>2. CASE Floor(Shrunk) < numberOld /\ Schedule
      BY <1>1, <2>0, <2>1, <3>2, ScheduleStep DEF NextLayer, Schedule
    <3>3. CASE ~(Floor(Shrunk) < numberOld)
      <4>1. UNCHANGED <<modules, numberOld, flag, checkLayers, recomputeNum>>
        BY <1>1, <3>3 DEF NextLayer
      <4>2. \A k \in 1 .. Len(checkLayers) : checkLayers[k] < i + 1
        BY <2>0 DEF Bookkeeping, TypeOK
      <4>3. QED
        BY <2>0, <4>1, <4>2
           DEF Bookkeeping, EveryCheckDrops, LayersInOrder, AskedBefore
    <3>4. QED
      BY <1>1, <3>1, <3>2, <3>3 DEF NextLayer
  <2>4. QED
    BY <2>2, <2>3
<1>2. CASE UNCHANGED vars
  BY <1>2 DEF vars, TypeOK, Bookkeeping, EveryCheckDrops, LayersInOrder, AskedBefore
<1>3. QED
  BY <1>1, <1>2 DEF Next

(* Whatever the ratio, the number of layers and the number of modules, every *)
(* check of Qwen2Model.forward's schedule drops at least one module and     *)
(* keeps at least one.                                                     *)
THEOREM ChecksAlwaysDrop == Spec => []EveryCheckDrops
<1>1. ScheduleInv => EveryCheckDrops
  BY DEF ScheduleInv
<1>2. QED
  BY <1>1, ScheduleInit, ScheduleNext, PTL DEF Spec

(* The two lists of the schedule run in parallel, and the layers to check    *)
(* come in the order the layer loop meets them.                            *)
THEOREM LayersAlwaysInOrder == Spec => []LayersInOrder
<1>1. ScheduleInv => LayersInOrder
  BY DEF ScheduleInv
<1>2. QED
  BY <1>1, ScheduleInit, ScheduleNext, PTL DEF Spec

-----------------------------------------------------------------------------
(* What the integer quotients of a layer are.                              *)
LEMMA Quotient ==
  ASSUME NEW x \in Nat, NEW d \in Nat \ {0}
  PROVE  /\ x \div d \in Nat
         /\ (x \div d) * d <= x
         /\ x < (x \div d + 1) * d
OBVIOUS

LEMMA QuotientAtLeast ==
  ASSUME NEW x \in Nat, NEW d \in Nat \ {0}, NEW k \in Nat, k * d <= x
  PROVE  k <= x \div d
<1> DEFINE q == x \div d
<1>1. q \in Nat /\ x < (q + 1) * d
  BY Quotient
<1>2. k * d < (q + 1) * d
  BY <1>1
<1> HIDE DEF q
<1>3. ~(q + 1 <= k)
  <2> SUFFICES ASSUME q + 1 <= k
               PROVE  FALSE
    OBVIOUS
  <2>1. (q + 1) * d <= k * d
    BY <1>1
  <2>2. QED
    BY <1>1, <1>2, <2>1
<1>4. QED
  BY <1>1, <1>3 DEF q

LEMMA QuotientBelow ==
  ASSUME NEW x \in Nat, NEW d \in Nat \ {0}, NEW k \in Nat, x < k * d
  PROVE  x \div d < k
<1> DEFINE q == x \div d
<1>1. q \in Nat /\ q * d <= x
  BY Quotient
<1> HIDE DEF q
<1>2. ~(k <= q)
  <2> SUFFICES ASSUME k <= q
               PROVE  FALSE
    OBVIOUS
  <2>1. k * d <= q * d
    BY <1>1
  <2>2. QED
    BY <1>1, <2>1
<1>3. QED
  BY <1>1, <1>2 DEF q

(* The first layer: the number falls, and at least two modules are left.     *)
LEMMA FirstLoss ==
  ASSUME RatioFits, modules \in Nat, modules >= 3, number = modules * Scale
  PROVE  /\ Shrunk \in Nat
         /\ Floor(Shrunk) = Shrunk \div Scale
         /\ Floor(Shrunk) >= 2 /\ Floor(Shrunk) < modules
         /\ Floor(Shrunk) * Scale <= Shrunk
         /\ Shrunk < (Floor(Shrunk) + 1) * Scale
<1> DEFINE x == modules * Scale
<1>0. /\ RatioNum \in Nat /\ RatioDen \in Nat \ {0} /\ Scale \in Nat \ {0}
      /\ RatioNum < RatioDen /\ 2 * RatioDen <= 3 * RatioNum
  BY ScheduleAssumption DEF RatioFits
<1>1. x \in Nat /\ x >= 3 * Scale /\ x * RatioNum \in Nat
  BY <1>0
<1>2. x * RatioNum < x * RatioDen
  BY <1>0, <1>1
<1>3. (2 * Scale) * RatioDen <= x * RatioNum
  <2>1. Scale * (2 * RatioDen) <= Scale * (3 * RatioNum)
    BY <1>0
  <2>2. (3 * Scale) * RatioNum <= x * RatioNum
    BY <1>0, <1>1
  <2>3. QED
    BY <1>0, <1>1, <2>1, <2>2
<1> HIDE DEF x
<1>4. Shrunk \in Nat /\ 2 * Scale <= Shrunk /\ Shrunk < x
  <2>1. Shrunk = (x * RatioNum) \div RatioDen
    BY DEF Shrunk, x
  <2>2. 2 * Scale \in Nat
    BY <1>0
  <2>3. QED
    BY <1>0, <1>1, <1>2, <1>3, <2>1, <2>2, Quotient, QuotientAtLeast, QuotientBelow
<1>5. Shrunk \div Scale >= 2 /\ Shrunk \div Scale < modules
  BY <1>0, <1>4, QuotientAtLeast, QuotientBelow DEF x
<1>6. Floor(Shrunk) = Shrunk \div Scale
  BY <1>0, <1>4, <1>5 DEF Floor
<1>7. QED
  BY <1>0, <1>4, <1>5, <1>6, Quotient

(* A layer without a check takes its share of what is left.                *)
LEMMA Loss ==
  ASSUME NEW k \in Nat, NEW x \in Nat, NEW y \in Nat, NEW n \in Nat, NEW d \in Nat,
         NEW s \in Nat, NEW j \in Nat,
         n <= d, k * s <= x, y * d <= x * n,
         x * d < ((k + 1) * d - j * k * (d - n)) * s
  PROVE  y * d < ((k + 1) * d - (j + 1) * k * (d - n)) * s
<1>1. (k * s) * (d - n) <= x * (d - n)
  BY n <= d
<1>2. x * n = x * d - x * (d - n)
  OBVIOUS
<1>3. ((k + 1) * d - (j + 1) * k * (d - n)) * s
        = ((k + 1) * d - j * k * (d - n)) * s - (k * s) * (d - n)
  OBVIOUS
<1>4. QED
  BY <1>1, <1>2, <1>3

LEMMA AppendNonempty ==
  ASSUME NEW list \in Seq(Nat), NEW x \in Nat
  PROVE  Append(list, x) # << >>
<1>1. Len(Append(list, x)) = Len(list) + 1 /\ Len(list) \in Nat /\ Len(<< >>) = 0
  OBVIOUS
<1>2. QED
  BY <1>1

LEMMA LossInit == Init => LossSoFar
BY DEF Init, LossSoFar

LEMMA LossNext ==
  RatioFits /\ ScheduleInv /\ LossSoFar /\ [Next]_vars => LossSoFar'
<1> SUFFICES ASSUME RatioFits, ScheduleInv, LossSoFar, [Next]_vars, modules' >= 3
             PROVE  /\ ~flag' => i' = 1 /\ number' = modules' * Scale
                    /\ flag' /\ checkLayers' = << >> =>
                         /\ numberOld' >= 2
                         /\ numberOld' * Scale <= number'
                         /\ number' * RatioDen
                              < ((numberOld' + 1) * RatioDen
                                  - (i' - 2) * numberOld' * (RatioDen - RatioNum)) * Scale
  BY DEF LossSoFar
<1>0. /\ RatioNum \in Nat /\ RatioDen \in Nat \ {0} /\ Scale \in Nat \ {0}
      /\ RatioNum < RatioDen /\ modules \in Nat /\ i \in Nat /\ i >= 1
      /\ number \in Nat /\ numberOld \in Nat /\ flag \in BOOLEAN
  BY ScheduleAssumption DEF RatioFits, ScheduleInv, TypeOK
<1>1. CASE NextLayer
  <2>0. /\ modules' = modules /\ modules >= 3 /\ i' = i + 1 /\ number' = Shrunk
    BY <1>1 DEF NextLayer
  <2>1. CASE ~flag
    <3>1. i = 1 /\ numberOld = modules /\ number = modules * Scale
      BY <2>0, <2>1 DEF LossSoFar, ScheduleInv, Bookkeeping
    <3> DEFINE k == Floor(Shrunk)
    <3>2. /\ Shrunk \in Nat /\ k = Shrunk \div Scale /\ k >= 2 /\ k < modules
          /\ k * Scale <= Shrunk /\ Shrunk < (k + 1) * Scale
      BY <1>0, <2>0, <3>1, FirstLoss
    <3>3. flag' = TRUE /\ numberOld' = k /\ number' = Shrunk
      BY <1>1, <2>1, <3>1, <3>2 DEF NextLayer, FirstDrop, Schedule
    <3>4. k \in Nat
      BY <1>0, <3>2
    <3> HIDE DEF k
    <3>5. i' - 2 = 0
      BY <2>0, <3>1
    <3>6. number' * RatioDen < ((k + 1) * Scale) * RatioDen
      BY <1>0, <3>2, <3>3, <3>4
    <3>7. (i' - 2) * k * (RatioDen - RatioNum) = 0
      BY <1>0, <3>4, <3>5
    <3>8. ((k + 1) * Scale) * RatioDen
            = ((k + 1) * RatioDen - (i' - 2) * k * (RatioDen - RatioNum)) * Scale
      BY <1>0, <3>4, <3>7
    <3>9. QED
      BY <3>2, <3>3, <3>6, <3>8
  <2>2. CASE flag /\ checkLayers # << >>
    <3>1. flag' = flag /\ (checkLayers' = checkLayers \/ checkLayers' = Append(checkLayers, i))
      BY <1>1, <2>2 DEF NextLayer, FirstDrop, Schedule
    <3>2. flag' /\ checkLayers' # << >>
      BY <2>2, <3>1, AppendNonempty DEF ScheduleInv, TypeOK
    <3>3. QED
      BY <3>2
  <2>3. CASE flag /\ checkLayers = << >>
    <3>1. CASE Floor(Shrunk) < numberOld
      <4>1. checkLayers' = Append(checkLayers, i)
        BY <1>1, <2>3, <3>1 DEF NextLayer, FirstDrop, Schedule
      <4>2. flag' /\ checkLayers' # << >>
        BY <1>1, <2>3, <3>1, <4>1, AppendNonempty
           DEF NextLayer, FirstDrop, Schedule, ScheduleInv, TypeOK
      <4>3. QED
        BY <4>2
    <3>2. CASE ~(Floor(Shrunk) < numberOld)
      <4>1. UNCHANGED <<numberOld, flag, checkLayers>>
        BY <1>1, <3>2 DEF NextLayer
      <4>2. /\ numberOld >= 2 /\ numberOld * Scale <= number /\ i - 2 \in Nat
            /\ number * RatioDen
                 < ((numberOld + 1) * RatioDen
                     - (i - 2) * numberOld * (RatioDen - RatioNum)) * Scale
        BY <1>0, <2>0, <2>3 DEF LossSoFar, ScheduleInv, Bookkeeping
      <4>3. Shrunk \in Nat /\ Shrunk * RatioDen <= number * RatioNum
        <5>1. number * RatioNum \in Nat
          BY <1>0
        <5>2. QED
          BY <1>0, <5>1, Quotient DEF Shrunk
      <4>4. numberOld * Scale <= Shrunk
        <5>1. Floor(Shrunk) \in Nat /\ Floor(Shrunk) >= 2
          BY <1>0, <3>2, <4>2, <4>3, FloorType
        <5>2. Floor(Shrunk) = Shrunk \div Scale
          BY <5>1 DEF Floor
        <5>3. (Shrunk \div Scale) \in Nat /\ (Shrunk \div Scale) * Scale <= Shrunk
          BY <1>0, <4>3, Quotient
        <5>4. numberOld * Scale <= (Shrunk \div Scale) * Scale
          BY <1>0, <3>2, <5>1, <5>2
        <5>5. QED
          BY <1>0, <4>3, <5>3, <5>4
      <4>5. Shrunk * RatioDen
              < ((numberOld + 1) * RatioDen
                  - ((i - 2) + 1) * numberOld * (RatioDen - RatioNum)) * Scale
        BY <1>0, <4>2, <4>3, Loss
      <4>6. i' - 2 = (i - 2) + 1
        BY <1>0, <2>0
      <4>7. /\ numberOld' * Scale <= number'
            /\ number' * RatioDen
                 < ((numberOld' + 1) * RatioDen
                     - (i' - 2) * numberOld' * (RatioDen - RatioNum)) * Scale
        BY <2>0, <4>1, <4>4, <4>5, <4>6
      <4>8. QED
        BY <2>3, <4>1, <4>2, <4>7
    <3>3. QED
      BY <3>1, <3>2
  <2>4. QED
    BY <1>0, <2>1, <2>2, <2>3
<1>2. CASE UNCHANGED vars
  BY <1>2 DEF vars, LossSoFar
<1>3. QED
  BY <1>1, <1>2 DEF Next

LEMMA CheckedAtLast == RatioFits /\ ScheduleInv /\ LossSoFar => SomeLayerChecked
<1> SUFFICES ASSUME RatioFits, ScheduleInv, LossSoFar, i = NumLayers, modules >= 3,
                    checkLayers = << >>
             PROVE  FALSE
  BY DEF SomeLayerChecked
<1> DEFINE k == numberOld
           loss == RatioDen - RatioNum
<1>1. /\ RatioNum \in Nat /\ RatioDen \in Nat \ {0} /\ Scale \in Nat \ {0}
      /\ RatioNum < RatioDen /\ NumLayers \in Nat \ {0} /\ k \in Nat
      /\ number \in Nat /\ loss \in Nat \ {0}
      /\ RatioDen <= 2 * (NumLayers - 2) * loss
  BY ScheduleAssumption DEF RatioFits, ScheduleInv, TypeOK
<1>2. NumLayers - 2 \in Nat
  <2> SUFFICES ASSUME NumLayers = 1
               PROVE  FALSE
    BY <1>1
  <2>1. 2 * (NumLayers - 2) * loss = - (2 * loss)
    BY <1>1
  <2>2. QED
    BY <1>1, <2>1
<1>3. flag
  BY <1>1, <1>2 DEF LossSoFar
<1>4. /\ k >= 2 /\ k * Scale <= number
      /\ number * RatioDen < ((k + 1) * RatioDen - (NumLayers - 2) * k * loss) * Scale
  BY <1>3 DEF LossSoFar
<1> DEFINE left == NumLayers - 2
<1> HIDE DEF k, loss, left
<1>5. left \in Nat
  BY <1>2 DEF left
<1>6. RatioDen <= left * k * loss
  <2>1. left * loss \in Nat
    BY <1>1, <1>5
  <2>2. 2 * (left * loss) <= k * (left * loss)
    BY <1>1, <1>4, <2>1
  <2>3. RatioDen <= 2 * (left * loss)
    BY <1>1, <1>5 DEF left
  <2>4. QED
    BY <1>1, <1>5, <2>1, <2>2, <2>3
<1>7. (k + 1) * RatioDen - left * k * loss <= k * RatioDen
  BY <1>1, <1>5, <1>6
<1>8. ((k + 1) * RatioDen - left * k * loss) * Scale <= (k * RatioDen) * Scale
  BY <1>1, <1>5, <1>7
<1>9. (k * Scale) * RatioDen <= number * RatioDen
  BY <1>1, <1>4
<1>10. (k * RatioDen) * Scale = (k * Scale) * RatioDen
  BY <1>1
<1>11. number * RatioDen < ((k + 1) * RatioDen - left * k * loss) * Scale
  BY <1>4 DEF left
<1>12. QED
  BY <1>1, <1>5, <1>8, <1>9, <1>10, <1>11

(* A prompt with two modules beside the static one has a layer to check, for  *)
(* any ratio, number of layers and resolution that fit together: the layer   *)
(* loop of Qwen2Model.forward can read check_layers[0].                     *)
THEOREM SomeLayerAlwaysChecked == ASSUME RatioFits PROVE Spec => []SomeLayerChecked
<1>1. Init => ScheduleInv /\ LossSoFar
  BY ScheduleInit, LossInit
<1>2. ScheduleInv /\ LossSoFar /\ [Next]_vars => (ScheduleInv /\ LossSoFar)'
  BY RatioFits, ScheduleNext, LossNext
<1>3. ScheduleInv /\ LossSoFar => SomeLayerChecked
  BY RatioFits, CheckedAtLast
<1>4. QED
  BY <1>1, <1>2, <1>3, PTL DEF Spec
=============================================================================
