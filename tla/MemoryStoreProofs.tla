-------------------------- MODULE MemoryStoreProofs --------------------------
(***************************************************************************)
(* The object memory keeps its promises for any objects, contents, lengths, *)
(* similarities, bounds and failed collections.                            *)
(***************************************************************************)
EXTENDS MemoryStore, SequenceTheorems, FiniteSetTheorems, FunctionTheorems,
        WellFoundedInduction, TLAPS

-----------------------------------------------------------------------------
(* The invariant speaks of three lists that are handed on: those of the      *)
(* memory, or those a refresh has just taken an object out of, before it is *)
(* added again.  gone holds that object.                                   *)
MessageType ==
  [id : ObjId \union {NoId}, content : Content, place : Span \union {NoPlace}]

Named(m) == {i \in DOMAIN m : m[i].id # NoId}
Unnamed(m) == DOMAIN m \ Named(m)

Typed(m, s, p) == m \in Seq(MessageType) /\ s \in Seq(Nat) /\ p \in Seq(Span)

(* One message of an object, saying what was last reported of it. *)
Told(m, gone, rep) ==
  /\ \A i, j \in Named(m) : m[i].id = m[j].id => i = j
  /\ \A i \in Named(m) : m[i].id \notin gone /\ m[i].content = rep[m[i].id]

(* Places are handed out in order, so no two messages share one, and each is *)
(* found in the list of places.                                            *)
Placed(m, p, at) ==
  /\ \A i \in Named(m) : /\ m[i].place \in Span
                         /\ m[i].place[1] < m[i].place[2]
                         /\ m[i].place[2] <= at
                         /\ \E n \in DOMAIN p : p[n] = m[i].place
  /\ \A i, j \in Named(m) : m[i].place = m[j].place => i = j

(* What holds only until a collection fails. *)
Parallel(m, s, p, gone, q, rep) ==
  /\ Len(s) = Len(m) /\ Len(p) = Len(m)
  /\ \A i \in DOMAIN m : /\ m[i].id # NoId
                         /\ s[i] = Similarity[q][m[i].content]
                         /\ p[i] = m[i].place
  /\ \A o \in ObjId \ gone : rep[o] # NoContent => \E i \in DOMAIN m : m[i].id = o

(* What failed collections left. *)
Counted(m, s, p, fails) ==
  /\ Cardinality(Unnamed(m)) = fails
  /\ Len(p) + fails = Len(m)
  /\ Len(m) <= Len(s) + fails

Sound(m, s, p, gone, at, q, rep, fails) ==
  /\ Typed(m, s, p)
  /\ Len(s) <= Len(m)
  /\ Counted(m, s, p, fails)
  /\ Told(m, gone, rep)
  /\ Placed(m, p, at)
  /\ fails = 0 => Parallel(m, s, p, gone, q, rep)

Rest ==
  /\ place \in Nat
  /\ query \in Query
  /\ memoryChange \in {"none", "no", "yes"}
  /\ tablesBuilt \in BOOLEAN
  /\ alive \in BOOLEAN
  /\ reported \in [ObjId -> Content \union {NoContent}]
  /\ failures \in 0 .. MaxFailures

StoreInv ==
  Rest /\ Sound(messages, similarity, kvPlaces, {}, place, query, reported, failures)

-----------------------------------------------------------------------------
LEMMA NamedHaveIds ==
  ASSUME NEW m \in Seq(MessageType), NEW i \in Named(m)
  PROVE  i \in DOMAIN m /\ m[i].id \in ObjId
<1>1. i \in DOMAIN m /\ m[i].id # NoId
  BY DEF Named
<1>2. m[i] \in MessageType
  BY <1>1
<1>3. QED
  BY <1>1, <1>2 DEF MessageType

(* What is left of a list when one entry is deleted. *)
LEMMA RemoveAtFacts ==
  ASSUME NEW S, NEW s \in Seq(S), NEW i \in 1 .. Len(s)
  PROVE  /\ RemoveAt(s, i) \in Seq(S)
         /\ Len(RemoveAt(s, i)) = Len(s) - 1
         /\ \A k \in 1 .. i - 1 : RemoveAt(s, i)[k] = s[k]
         /\ \A k \in i .. Len(s) - 1 : RemoveAt(s, i)[k] = s[k + 1]
<1> DEFINE a == SubSeq(s, 1, i - 1)
           b == SubSeq(s, i + 1, Len(s))
<1>1. /\ a \in Seq(S) /\ Len(a) = i - 1
      /\ \A k \in 1 .. i - 1 : a[k] = s[k]
  OBVIOUS
<1>2. /\ b \in Seq(S) /\ Len(b) = Len(s) - i
      /\ \A k \in 1 .. Len(s) - i : b[k] = s[k + i]
  OBVIOUS
<1>3. RemoveAt(s, i) = a \o b
  BY DEF RemoveAt
<1> HIDE DEF a, b
<1>4. /\ a \o b \in Seq(S) /\ Len(a \o b) = Len(a) + Len(b)
      /\ \A k \in 1 .. Len(a) + Len(b) :
           (a \o b)[k] = IF k <= Len(a) THEN a[k] ELSE b[k - Len(a)]
  BY <1>1, <1>2, ConcatProperties, Zenon
<1>5. QED
  BY <1>1, <1>2, <1>3, <1>4, SMTT(30)

LEMMA Dropped ==
  \A S : \A s \in Seq(S) : \A i \in 1 .. Len(s) :
    /\ RemoveAt(s, i) \in Seq(S)
    /\ Len(RemoveAt(s, i)) = Len(s) - 1
    /\ \A k \in 1 .. i - 1 : RemoveAt(s, i)[k] = s[k]
    /\ \A k \in i .. Len(s) - 1 : RemoveAt(s, i)[k] = s[k + 1]
BY RemoveAtFacts

LEMMA UnnamedFinite ==
  ASSUME NEW m \in Seq(MessageType)
  PROVE  IsFiniteSet(Unnamed(m))
<1>1. DOMAIN m = 1 .. Len(m) /\ Len(m) \in Nat
  OBVIOUS
<1>2. IsFiniteSet(1 .. Len(m))
  BY <1>1, FS_Interval
<1>3. Unnamed(m) \subseteq 1 .. Len(m)
  BY <1>1 DEF Unnamed
<1>4. QED
  BY <1>2, <1>3, FS_Subset, Zenon

(* Two lists that hold each other's messages without an id have as many. *)
LEMMA AsManyUnnamed ==
  ASSUME NEW m \in Seq(MessageType), NEW m2 \in Seq(MessageType),
         NEW f \in [Unnamed(m2) -> Unnamed(m)],
         \A j, k \in Unnamed(m2) : f[j] = f[k] => j = k,
         \A j \in Unnamed(m) : \E k \in Unnamed(m2) : f[k] = j
  PROVE  Cardinality(Unnamed(m2)) = Cardinality(Unnamed(m))
<1>1. f \in Injection(Unnamed(m2), Unnamed(m))
  BY Fun_IsInj
<1>2. f \in Surjection(Unnamed(m2), Unnamed(m))
  BY Fun_IsSurj
<1>3. f \in Bijection(Unnamed(m2), Unnamed(m))
  BY <1>1, <1>2 DEF Bijection
<1>4. ExistsBijection(Unnamed(m2), Unnamed(m))
  BY <1>3 DEF ExistsBijection
<1>5. QED
  BY <1>4, UnnamedFinite, FS_Bijection

(* Taking out the message of an object leaves the others as they were. *)
LEMMA TakeOut ==
  ASSUME NEW m, NEW s, NEW p, NEW at \in Nat, NEW q \in Query,
         NEW rep \in [ObjId -> Content \union {NoContent}], NEW fails \in Nat,
         Sound(m, s, p, {}, at, q, rep, fails),
         NEW i \in DOMAIN m, NEW o \in ObjId, m[i].id = o,
         NEW n \in DOMAIN p, p[n] = m[i].place
  PROVE  /\ i \in DOMAIN s =>
              Sound(RemoveAt(m, i), RemoveAt(s, i), RemoveAt(p, n), {o}, at, q, rep, fails)
         /\ i \notin DOMAIN s =>
              /\ fails # 0
              /\ Sound(RemoveAt(m, i), s, RemoveAt(p, n), {o}, at, q, rep, fails)
<1> DEFINE m2 == RemoveAt(m, i)
           p2 == RemoveAt(p, n)
<1>0. m \in Seq(MessageType) /\ s \in Seq(Nat) /\ p \in Seq(Span) /\ Len(s) <= Len(m)
  BY DEF Sound, Typed
<1>1. /\ Len(m) \in Nat /\ Len(s) \in Nat /\ Len(p) \in Nat /\ Len(s) <= Len(m)
      /\ DOMAIN m = 1 .. Len(m) /\ DOMAIN s = 1 .. Len(s) /\ DOMAIN p = 1 .. Len(p)
      /\ i \in 1 .. Len(m) /\ n \in 1 .. Len(p)
  BY <1>0
<1>c. /\ Cardinality(Unnamed(m)) = fails
      /\ Len(p) + fails = Len(m) /\ Len(m) <= Len(s) + fails
  BY DEF Sound, Counted
<1>d. /\ m \in Seq(MessageType) /\ i \in 1 .. Len(m)
      /\ p \in Seq(Span) /\ n \in 1 .. Len(p)
  BY <1>0, <1>1
<1>2. /\ m2 \in Seq(MessageType) /\ Len(m2) = Len(m) - 1
      /\ \A k \in 1 .. i - 1 : m2[k] = m[k]
      /\ \A k \in i .. Len(m) - 1 : m2[k] = m[k + 1]
  BY <1>d, Dropped, Zenon DEF m2, p2
<1>3. /\ p2 \in Seq(Span) /\ Len(p2) = Len(p) - 1
      /\ \A k \in 1 .. n - 1 : p2[k] = p[k]
      /\ \A k \in n .. Len(p) - 1 : p2[k] = p[k + 1]
  BY <1>d, Dropped, Zenon DEF m2, p2
<1> HIDE DEF m2, p2
<1>a. DOMAIN m2 = 1 .. Len(m) - 1 /\ DOMAIN p2 = 1 .. Len(p) - 1
  BY <1>1, <1>2, <1>3
<1> DEFINE Old(k) == IF k < i THEN k ELSE k + 1
<1>4. \A k \in DOMAIN m2 : Old(k) \in DOMAIN m /\ Old(k) # i /\ m2[k] = m[Old(k)]
  <2> TAKE k \in DOMAIN m2
  <2>1. k \in Int /\ k >= 1 /\ k <= Len(m) - 1 /\ i \in Int
    BY <1>1, <1>a
  <2>2. CASE k < i
    <3>1. Old(k) = k /\ k \in 1 .. i - 1 /\ k \in 1 .. Len(m)
      BY <1>1, <2>1, <2>2
    <3>2. QED
      BY <1>1, <1>2, <2>2, <3>1
  <2>3. CASE ~(k < i)
    <3>1. Old(k) = k + 1 /\ k \in i .. Len(m) - 1 /\ k + 1 \in 1 .. Len(m) /\ k + 1 # i
      BY <1>1, <2>1, <2>3
    <3>2. QED
      BY <1>1, <1>2, <3>1
  <2>4. QED
    BY <2>2, <2>3
<1>5. \A j, k \in DOMAIN m2 : Old(j) = Old(k) => j = k
  BY <1>1, <1>a, SMTT(30)
<1>5a. \A j \in DOMAIN m : j # i => \E k \in DOMAIN m2 : Old(k) = j
  <2> SUFFICES ASSUME NEW j \in DOMAIN m, j # i
               PROVE  \E k \in DOMAIN m2 : Old(k) = j
    OBVIOUS
  <2>1. j \in Nat /\ i \in Nat /\ j >= 1 /\ j <= Len(m) /\ i >= 1 /\ i <= Len(m)
    BY <1>1
  <2>2. CASE j < i
    <3>1. j \in DOMAIN m2 /\ Old(j) = j
      BY <1>1, <1>a, <2>1, <2>2
    <3>2. QED
      BY <3>1
  <2>3. CASE j > i
    <3>1. j - 1 \in DOMAIN m2 /\ Old(j - 1) = j
      BY <1>1, <1>a, <2>1, <2>3
    <3>2. QED
      BY <3>1
  <2>4. QED
    BY <2>1, <2>2, <2>3
<1> HIDE DEF Old
<1>6. i \in Named(m) /\ \A k \in Named(m2) : Old(k) \in Named(m) /\ Old(k) # i
  BY <1>4, StoreAssumption DEF Named
<1>6a. Cardinality(Unnamed(m2)) = fails
  <2> DEFINE f == [k \in Unnamed(m2) |-> Old(k)]
  <2>1. \A k \in Unnamed(m2) : Old(k) \in Unnamed(m)
    BY <1>4 DEF Unnamed, Named
  <2>2. f \in [Unnamed(m2) -> Unnamed(m)]
    BY <2>1
  <2>3. \A j, k \in Unnamed(m2) : f[j] = f[k] => j = k
    BY <1>5 DEF Unnamed
  <2>4. \A j \in Unnamed(m) : \E k \in Unnamed(m2) : f[k] = j
    <3> TAKE j \in Unnamed(m)
    <3>1. j \in DOMAIN m /\ j # i /\ m[j].id = NoId
      BY <1>6 DEF Unnamed, Named
    <3>2. PICK k \in DOMAIN m2 : Old(k) = j
      BY <1>5a, <3>1
    <3>3. k \in Unnamed(m2)
      BY <1>4, <3>1, <3>2 DEF Unnamed, Named
    <3>4. QED
      BY <3>2, <3>3
  <2> HIDE DEF f
  <2>5. Cardinality(Unnamed(m2)) = Cardinality(Unnamed(m))
    BY <1>0, <1>2, <2>2, <2>3, <2>4, AsManyUnnamed
  <2>6. QED
    BY <1>c, <2>5
<1>7. Told(m2, {o}, rep)
  <2>1. \A k \in Named(m2) : m2[k] = m[Old(k)] /\ k \in DOMAIN m2
    BY <1>4 DEF Named
  <2>2. Told(m, {}, rep)
    BY DEF Sound
  <2>3. QED
    BY <1>5, <1>6, <2>1, <2>2 DEF Told
<1>8. Placed(m2, p2, at)
  <2>1. \A k \in Named(m2) : m2[k] = m[Old(k)] /\ k \in DOMAIN m2
    BY <1>4 DEF Named
  <2>2. Placed(m, p, at)
    BY DEF Sound
  <2>3. \A x \in DOMAIN p : p[x] # m[i].place => \E y \in DOMAIN p2 : p2[y] = p[x]
    <3> TAKE x \in DOMAIN p
    <3> HAVE p[x] # m[i].place
    <3>1. CASE x < n
      <4>1. x \in DOMAIN p2 /\ x \in 1 .. n - 1
        BY <1>1, <1>a, <3>1
      <4>2. QED
        BY <1>3, <4>1, Zenon
    <3>2. CASE x > n
      <4>1. x - 1 \in n .. Len(p) - 1 /\ x - 1 \in DOMAIN p2 /\ (x - 1) + 1 = x
        BY <1>1, <1>a, <3>2
      <4>2. QED
        BY <1>3, <4>1
    <3>3. QED
      BY <1>1, <3>1, <3>2
  <2>4. \A k \in Named(m2) : m2[k].place # m[i].place
    BY <1>6, <2>1, <2>2 DEF Placed
  <2>5. \A k \in Named(m2) : \E y \in DOMAIN p2 : p2[y] = m2[k].place
    BY <1>6, <2>1, <2>2, <2>3, <2>4 DEF Placed
  <2>6. QED
    BY <1>5, <1>6, <2>1, <2>2, <2>5 DEF Placed
<1>9. CASE i \in DOMAIN s
  <2> DEFINE s2 == RemoveAt(s, i)
  <2>0. s \in Seq(Nat) /\ i \in 1 .. Len(s)
    BY <1>0, <1>1, <1>9
  <2>1. /\ s2 \in Seq(Nat) /\ Len(s2) = Len(s) - 1
        /\ \A k \in 1 .. i - 1 : s2[k] = s[k]
        /\ \A k \in i .. Len(s) - 1 : s2[k] = s[k + 1]
    BY <2>0, Dropped, Zenon DEF s2
  <2> HIDE DEF s2
  <2>2. ASSUME fails = 0
        PROVE  Parallel(m2, s2, p2, {o}, q, rep)
    <3>1. Parallel(m, s, p, {}, q, rep)
      BY <2>2 DEF Sound
    <3>2. n = i
      <4>1. i \in DOMAIN p /\ p[i] = m[i].place
        BY <1>1, <3>1 DEF Parallel
      <4>2. n \in DOMAIN m /\ m[n].place = p[n] /\ n \in Named(m)
        BY <1>1, <3>1 DEF Parallel, Named
      <4>3. Placed(m, p, at)
        BY DEF Sound
      <4>4. QED
        BY <1>6, <4>2, <4>3 DEF Placed
    <3>3. \A k \in DOMAIN m2 : s2[k] = s[Old(k)] /\ p2[k] = p[Old(k)]
      <4> TAKE k \in DOMAIN m2
      <4>1. Len(s) = Len(m) /\ Len(p) = Len(m)
        BY <3>1 DEF Parallel
      <4>2. CASE k < i
        <5>1. Old(k) = k /\ k \in 1 .. i - 1
          BY <1>1, <1>a, <4>2 DEF Old
        <5>2. QED
          BY <1>3, <2>1, <3>2, <5>1
      <4>3. CASE ~(k < i)
        <5>1. Old(k) = k + 1 /\ k \in i .. Len(m) - 1
          BY <1>1, <1>a, <4>3 DEF Old
        <5>2. QED
          BY <1>3, <2>1, <3>2, <4>1, <5>1
      <4>4. QED
        BY <4>2, <4>3
    <3>4. \A k \in DOMAIN m2 : /\ m2[k].id # NoId
                               /\ s2[k] = Similarity[q][m2[k].content]
                               /\ p2[k] = m2[k].place
      BY <1>4, <3>1, <3>3 DEF Parallel
    <3>5. \A x \in ObjId \ {o} : rep[x] # NoContent => \E k \in DOMAIN m2 : m2[k].id = x
      <4> TAKE x \in ObjId \ {o}
      <4> HAVE rep[x] # NoContent
      <4>1. PICK j \in DOMAIN m : m[j].id = x
        BY <3>1 DEF Parallel
      <4>2. j # i
        BY <4>1
      <4>3. CASE j < i
        <5>1. j \in 1 .. i - 1 /\ j \in DOMAIN m2
          BY <1>1, <1>a, <4>3
        <5>2. QED
          BY <1>2, <4>1, <5>1
      <4>4. CASE j > i
        <5>1. j - 1 \in i .. Len(m) - 1 /\ j - 1 \in DOMAIN m2 /\ (j - 1) + 1 = j
          BY <1>1, <1>a, <4>4
        <5>2. QED
          BY <1>2, <4>1, <5>1
      <4>5. QED
        BY <1>1, <4>2, <4>3, <4>4
    <3>6. Len(s2) = Len(m2) /\ Len(p2) = Len(m2)
      BY <1>1, <1>2, <1>3, <2>1, <3>1 DEF Parallel
    <3>7. QED
      BY <3>4, <3>5, <3>6 DEF Parallel
  <2>3. Len(s2) <= Len(m2)
    <3>1. /\ Len(m2) = Len(m) - 1 /\ Len(s2) = Len(s) - 1
          /\ Len(m) \in Nat /\ Len(s) \in Nat /\ Len(s) <= Len(m)
      BY <1>1, <1>2, <2>1, Zenon
    <3>2. QED
      BY <3>1
  <2>3a. Counted(m2, s2, p2, fails)
    <3>1. Len(m2) = Len(m) - 1 /\ Len(p2) = Len(p) - 1 /\ Len(s2) = Len(s) - 1
      BY <1>2, <1>3, <2>1, Zenon
    <3>2. Len(m) \in Nat /\ Len(s) \in Nat /\ Len(p) \in Nat
      BY <1>1, Zenon
    <3>3. Len(p2) + fails = Len(m2)
      BY <1>c, <3>1, <3>2
    <3>4. Len(m2) <= Len(s2) + fails
      BY <1>c, <3>1, <3>2
    <3>5. QED
      BY <1>6a, <3>3, <3>4, Zenon DEF Counted
  <2>4. Sound(m2, s2, p2, {o}, at, q, rep, fails)
    <3>1. Typed(m2, s2, p2)
      BY <1>2, <1>3, <2>1, Zenon DEF Typed
    <3>2. QED
      BY <1>7, <1>8, <2>2, <2>3, <2>3a, <3>1, Zenon DEF Sound
  <2>5. QED
    BY <1>9, <2>4 DEF m2, s2, p2
<1>10. CASE i \notin DOMAIN s
  <2>1. fails # 0
    <3>1. Len(s) < Len(m)
      BY <1>1, <1>10
    <3>2. fails = 0 => Len(s) = Len(m)
      BY Zenon DEF Sound, Parallel
    <3>3. Len(s) \in Nat /\ Len(m) \in Nat
      BY <1>1, Zenon
    <3>4. Len(s) # Len(m)
      BY <3>1, <3>3
    <3>5. QED
      BY <3>2, <3>4, Zenon
  <2>2. Len(s) <= Len(m2)
    <3>1. Len(s) < Len(m)
      BY <1>1, <1>10
    <3>2. Len(m2) = Len(m) - 1 /\ Len(s) \in Nat /\ Len(m) \in Nat
      BY <1>1, <1>2, Zenon
    <3>3. QED
      BY <3>1, <3>2
  <2>2a. Counted(m2, s, p2, fails)
    <3>1. Len(m2) = Len(m) - 1 /\ Len(p2) = Len(p) - 1
      BY <1>2, <1>3, Zenon
    <3>2. Len(m) \in Nat /\ Len(s) \in Nat /\ Len(p) \in Nat
      BY <1>1, Zenon
    <3>3. Len(p2) + fails = Len(m2)
      BY <1>c, <3>1, <3>2
    <3>4. Len(m2) <= Len(s) + fails
      BY <1>c, <3>1, <3>2
    <3>5. QED
      BY <1>6a, <3>3, <3>4, Zenon DEF Counted
  <2>3. Sound(m2, s, p2, {o}, at, q, rep, fails)
    <3>1. Typed(m2, s, p2)
      BY <1>0, <1>2, <1>3, Zenon DEF Typed
    <3>2. QED
      BY <1>7, <1>8, <2>1, <2>2, <2>2a, <3>1, Zenon DEF Sound
  <2>4. QED
    BY <1>10, <2>1, <2>3, Zenon DEF m2, p2
<1>11. QED
  BY <1>9, <1>10

(* Nothing is taken out when no message has the object's id. *)
LEMMA NoneToTake ==
  ASSUME NEW m, NEW s, NEW p, NEW at, NEW q, NEW rep, NEW fails, NEW o,
         Sound(m, s, p, {}, at, q, rep, fails),
         \A i \in DOMAIN m : m[i].id # o
  PROVE  Sound(m, s, p, {o}, at, q, rep, fails)
<1>1. Told(m, {o}, rep)
  BY DEF Sound, Told, Named
<1>2. fails = 0 => Parallel(m, s, p, {o}, q, rep)
  BY DEF Sound, Parallel
<1>3. QED
  BY <1>1, <1>2 DEF Sound

(* The entries of a list after an append. *)
LEMMA AppendFacts ==
  ASSUME NEW S, NEW s \in Seq(S), NEW x \in S
  PROVE  /\ Append(s, x) \in Seq(S)
         /\ DOMAIN Append(s, x) = (DOMAIN s) \union {Len(s) + 1}
         /\ Len(s) + 1 \notin DOMAIN s
         /\ Len(Append(s, x)) = Len(s) + 1
         /\ Append(s, x)[Len(s) + 1] = x
         /\ \A i \in DOMAIN s : Append(s, x)[i] = s[i]
OBVIOUS

(* A message and its keys are added at the end of the three lists. *)
LEMMA AddAtEnd ==
  ASSUME NEW m, NEW s, NEW p, NEW at \in Nat, NEW q \in Query,
         NEW rep \in [ObjId -> Content \union {NoContent}], NEW fails \in Nat,
         NEW o \in ObjId, NEW c \in Content,
         Sound(m, s, p, {o}, at, q, rep, fails),
         at + Length[c] <= MaxPlace
  PROVE  Sound(Append(m, Message(o, c, <<at, at + Length[c]>>)),
               Append(s, Similarity[q][c]),
               Append(p, <<at, at + Length[c]>>),
               {}, at + Length[c], q, [rep EXCEPT ![o] = c], fails)
<1> DEFINE span == <<at, at + Length[c]>>
           x == Message(o, c, span)
           m2 == Append(m, x)
           s2 == Append(s, Similarity[q][c])
           p2 == Append(p, span)
           rep2 == [rep EXCEPT ![o] = c]
           at2 == at + Length[c]
<1>1. /\ m \in Seq(MessageType) /\ s \in Seq(Nat) /\ p \in Seq(Span)
      /\ Len(s) <= Len(m) /\ Told(m, {o}, rep) /\ Placed(m, p, at)
      /\ fails = 0 => Parallel(m, s, p, {o}, q, rep)
  BY DEF Sound, Typed
<1>2. Length[c] \in Nat \ {0} /\ Similarity[q][c] \in Nat /\ MaxPlace \in Nat /\ o # NoId
  BY StoreAssumption
<1>3. /\ span \in Span /\ span[1] = at /\ span[2] = at2 /\ at < at2
      /\ x.id = o /\ x.content = c /\ x.place = span
      /\ at2 \in Nat
  BY <1>2 DEF Span, Message
<1>4. x \in MessageType
  BY <1>3 DEF MessageType, Message
<1> HIDE DEF span, x, at2
<1>5. /\ m2 \in Seq(MessageType) /\ Len(m2) = Len(m) + 1
      /\ DOMAIN m2 = (DOMAIN m) \union {Len(m) + 1} /\ Len(m) + 1 \notin DOMAIN m
      /\ m2[Len(m) + 1] = x /\ \A i \in DOMAIN m : m2[i] = m[i]
  BY <1>1, <1>4, AppendFacts
<1>6. /\ s2 \in Seq(Nat) /\ Len(s2) = Len(s) + 1
      /\ DOMAIN s2 = (DOMAIN s) \union {Len(s) + 1}
      /\ s2[Len(s) + 1] = Similarity[q][c] /\ \A i \in DOMAIN s : s2[i] = s[i]
  BY <1>1, <1>2, AppendFacts, SMTT(30)
<1>7. /\ p2 \in Seq(Span) /\ Len(p2) = Len(p) + 1
      /\ DOMAIN p2 = (DOMAIN p) \union {Len(p) + 1}
      /\ p2[Len(p) + 1] = span /\ \A i \in DOMAIN p : p2[i] = p[i]
  BY <1>1, <1>3, AppendFacts
<1>8. Len(m) \in Nat /\ Len(s) \in Nat /\ Len(p) \in Nat
      /\ DOMAIN m = 1 .. Len(m) /\ DOMAIN s = 1 .. Len(s) /\ DOMAIN p = 1 .. Len(p)
  BY <1>1
<1>9. rep2[o] = c /\ \A y \in ObjId \ {o} : rep2[y] = rep[y]
  OBVIOUS
<1> HIDE DEF m2, s2, p2, rep2
<1>10. \A i \in Named(m2) : i = Len(m) + 1 \/ (i \in Named(m) /\ m2[i] = m[i])
  BY <1>5 DEF Named
<1>10a. \A i \in Named(m) : i \in DOMAIN m /\ m[i].id \in ObjId
  BY <1>1, NamedHaveIds
<1>11. Told(m2, {}, rep2)
  <2>1. \A i \in Named(m) : m[i].id # o /\ m[i].content = rep2[m[i].id]
    BY <1>1, <1>9, <1>10a DEF Told
  <2>2. \A i, j \in Named(m2) : m2[i].id = m2[j].id => i = j
    <3>1. m2[Len(m) + 1].id = o
      BY <1>3, <1>5
    <3>2. \A i, j \in Named(m) : m[i].id = m[j].id => i = j
      BY <1>1 DEF Told
    <3>3. QED
      BY <1>10, <2>1, <3>1, <3>2
  <2>3. \A i \in Named(m2) : m2[i].content = rep2[m2[i].id]
    BY <1>3, <1>5, <1>9, <1>10, <2>1
  <2>4. QED
    BY <2>2, <2>3 DEF Told
<1>12. Placed(m2, p2, at2)
  <2>1. \A i \in Named(m) :
          /\ m[i].place \in Span /\ m[i].place[1] < m[i].place[2]
          /\ m[i].place[2] <= at /\ m[i].place # span
    <3> TAKE i \in Named(m)
    <3>1. m[i].place \in Span /\ m[i].place[1] < m[i].place[2] /\ m[i].place[2] <= at
      BY <1>1 DEF Placed
    <3>2. m[i].place[1] \in Nat /\ m[i].place[2] \in Nat
      BY <1>2, <3>1 DEF Span
    <3>3. QED
      BY <1>3, <3>1, <3>2
  <2>2. \A i \in Named(m2) : /\ m2[i].place \in Span
                             /\ m2[i].place[1] < m2[i].place[2]
                             /\ m2[i].place[2] <= at2
    <3> TAKE i \in Named(m2)
    <3>1. CASE i = Len(m) + 1
      <4>1. m2[i].place = span
        BY <1>3, <1>5, <3>1
      <4>2. QED
        BY <1>3, <4>1
    <3>2. CASE i \in Named(m) /\ m2[i] = m[i]
      <4>1. m[i].place[2] \in Nat
        BY <1>2, <2>1, <3>2 DEF Span
      <4>2. QED
        BY <1>3, <2>1, <3>2, <4>1
    <3>3. QED
      BY <1>10, <3>1, <3>2
  <2>3. \A i \in Named(m2) : \E n \in DOMAIN p2 : p2[n] = m2[i].place
    <3> TAKE i \in Named(m2)
    <3>1. CASE i = Len(m) + 1
      BY <1>3, <1>5, <1>7, <3>1
    <3>2. CASE i \in Named(m) /\ m2[i] = m[i]
      <4>1. PICK n \in DOMAIN p : p[n] = m[i].place
        BY <1>1, <3>2 DEF Placed
      <4>2. n \in DOMAIN p2 /\ p2[n] = m2[i].place
        BY <1>7, <3>2, <4>1
      <4>3. QED
        BY <4>2
    <3>3. QED
      BY <1>10, <3>1, <3>2
  <2>4. \A i, j \in Named(m2) : m2[i].place = m2[j].place => i = j
    <3>1. m2[Len(m) + 1].place = span
      BY <1>3, <1>5
    <3>2. \A i, j \in Named(m) : m[i].place = m[j].place => i = j
      BY <1>1 DEF Placed
    <3>3. QED
      BY <1>10, <2>1, <3>1, <3>2
  <2>5. QED
    BY <2>2, <2>3, <2>4 DEF Placed
<1>13. ASSUME fails = 0
       PROVE  Parallel(m2, s2, p2, {}, q, rep2)
  <2>1. Parallel(m, s, p, {o}, q, rep)
    BY <1>1, <1>13
  <2>2. Len(s2) = Len(m2) /\ Len(p2) = Len(m2) /\ Len(s) = Len(m) /\ Len(p) = Len(m)
    BY <1>5, <1>6, <1>7, <2>1 DEF Parallel
  <2>3. \A i \in DOMAIN m2 : /\ m2[i].id # NoId
                             /\ s2[i] = Similarity[q][m2[i].content]
                             /\ p2[i] = m2[i].place
    <3> TAKE i \in DOMAIN m2
    <3>1. CASE i = Len(m) + 1
      BY <1>2, <1>3, <1>5, <1>6, <1>7, <2>2, <3>1
    <3>2. CASE i \in DOMAIN m
      BY <1>5, <1>6, <1>7, <1>8, <2>1, <2>2, <3>2 DEF Parallel
    <3>3. QED
      BY <1>5, <3>1, <3>2
  <2>4. \A y \in ObjId : rep2[y] # NoContent => \E i \in DOMAIN m2 : m2[i].id = y
    <3>1. \E i \in DOMAIN m2 : m2[i].id = o
      BY <1>3, <1>5
    <3>2. \A y \in ObjId \ {o} : rep2[y] # NoContent => \E i \in DOMAIN m2 : m2[i].id = y
      BY <1>5, <1>9, <2>1 DEF Parallel
    <3>3. QED
      BY <3>1, <3>2
  <2>5. QED
    BY <2>2, <2>3, <2>4 DEF Parallel
<1>14. Len(s2) <= Len(m2)
  BY <1>1, <1>5, <1>6, <1>8
<1>14a. Counted(m2, s2, p2, fails)
  <2>1. Counted(m, s, p, fails)
    BY DEF Sound
  <2>2. m2[Len(m) + 1].id # NoId
    BY <1>2, <1>3, <1>5
  <2>3. Unnamed(m2) = Unnamed(m)
    BY <1>5, <2>2 DEF Unnamed, Named
  <2>4. /\ Cardinality(Unnamed(m2)) = fails
        /\ Len(p) + fails = Len(m) /\ Len(m) <= Len(s) + fails
    BY <2>1, <2>3 DEF Counted
  <2>5. /\ Len(m2) = Len(m) + 1 /\ Len(s2) = Len(s) + 1 /\ Len(p2) = Len(p) + 1
        /\ Len(m) \in Nat /\ Len(s) \in Nat /\ Len(p) \in Nat
    BY <1>5, <1>6, <1>7, <1>8, Zenon
  <2>5a. Len(p2) + fails = Len(m2) /\ Len(m2) <= Len(s2) + fails
    BY <2>4, <2>5
  <2>6. QED
    BY <2>4, <2>5a, Zenon DEF Counted
<1>15. Sound(m2, s2, p2, {}, at2, q, rep2, fails)
  <2>1. Typed(m2, s2, p2)
    BY <1>5, <1>6, <1>7 DEF Typed
  <2>2. QED
    BY <1>11, <1>12, <1>13, <1>14, <1>14a, <2>1, Zenon DEF Sound
<1>16. QED
  BY <1>15 DEF m2, s2, p2, rep2, at2, x, span

(* A message is left without id and keys when its collection raises. *)
LEMMA RaiseAtEnd ==
  ASSUME NEW m, NEW s, NEW p, NEW at \in Nat, NEW q \in Query,
         NEW rep \in [ObjId -> Content \union {NoContent}], NEW fails \in Nat,
         NEW o \in ObjId, NEW c \in Content,
         Sound(m, s, p, {o}, at, q, rep, fails)
  PROVE  Sound(Append(m, Message(NoId, c, NoPlace)), s, p,
               {}, at, q, [rep EXCEPT ![o] = c], fails + 1)
<1> DEFINE x == Message(NoId, c, NoPlace)
           m2 == Append(m, x)
           rep2 == [rep EXCEPT ![o] = c]
<1>1. /\ m \in Seq(MessageType) /\ s \in Seq(Nat) /\ p \in Seq(Span)
      /\ Len(s) <= Len(m) /\ Told(m, {o}, rep) /\ Placed(m, p, at)
  BY DEF Sound, Typed
<1>2. x \in MessageType /\ x.id = NoId
  BY DEF MessageType, Message
<1> HIDE DEF x
<1>3. /\ m2 \in Seq(MessageType) /\ Len(m2) = Len(m) + 1
      /\ DOMAIN m2 = (DOMAIN m) \union {Len(m) + 1}
      /\ m2[Len(m) + 1] = x /\ \A i \in DOMAIN m : m2[i] = m[i]
  BY <1>1, <1>2, AppendFacts
<1>4. \A y \in ObjId \ {o} : rep2[y] = rep[y]
  OBVIOUS
<1> HIDE DEF m2, rep2
<1>5. \A i \in Named(m2) : i \in Named(m) /\ m2[i] = m[i] /\ m[i].id \in ObjId
  <2>1. \A i \in Named(m2) : i \in Named(m) /\ m2[i] = m[i]
    BY <1>2, <1>3 DEF Named
  <2>2. QED
    BY <1>1, <2>1, NamedHaveIds
<1>6. Told(m2, {}, rep2)
  BY <1>1, <1>4, <1>5, SMTT(30) DEF Told
<1>7. Placed(m2, p, at)
  BY <1>1, <1>5 DEF Placed
<1>8. Len(s) <= Len(m2) /\ fails + 1 # 0
  BY <1>1, <1>3
<1>8a. Counted(m2, s, p, fails + 1)
  <2>1. Counted(m, s, p, fails)
    BY DEF Sound
  <2>2. Unnamed(m2) = Unnamed(m) \union {Len(m) + 1} /\ Len(m) + 1 \notin Unnamed(m)
    <3>1. Len(m) + 1 \notin DOMAIN m
      BY <1>1
    <3>2. QED
      BY <1>2, <1>3, <3>1 DEF Unnamed, Named
  <2>3. Cardinality(Unnamed(m2)) = Cardinality(Unnamed(m)) + 1
    BY <1>1, <2>2, UnnamedFinite, FS_AddElement
  <2>4. Len(m) \in Nat /\ Len(s) \in Nat /\ Len(p) \in Nat
    BY <1>1
  <2>5. QED
    BY <1>3, <2>1, <2>3, <2>4 DEF Counted
<1>9. Sound(m2, s, p, {}, at, q, rep2, fails + 1)
  BY <1>1, <1>3, <1>6, <1>7, <1>8, <1>8a DEF Sound, Typed
<1>10. QED
  BY <1>9 DEF m2, rep2, x

(* A refresh that stops half way forgets the object and nothing else. *)
LEMMA StopHalfWay ==
  ASSUME NEW m, NEW s, NEW p, NEW at \in Nat, NEW q \in Query,
         NEW rep \in [ObjId -> Content \union {NoContent}], NEW fails \in Nat,
         NEW o \in ObjId, NEW c \in Content, fails # 0,
         Sound(m, s, p, {o}, at, q, rep, fails)
  PROVE  Sound(m, s, p, {}, at, q, [rep EXCEPT ![o] = c], fails)
<1>1. \A i \in Named(m) : m[i].id \in ObjId
  BY NamedHaveIds DEF Sound, Typed
<1>2. Told(m, {}, [rep EXCEPT ![o] = c])
  BY <1>1 DEF Sound, Told
<1>3. QED
  BY <1>2 DEF Sound

(* index finds the first of the places that are there. *)
LEMMA LeastIndex ==
  ASSUME NEW T \in SUBSET Nat, NEW y \in T
  PROVE  \E n \in T : \A k \in T : n <= k
<1>1. IsWellFoundedOn(OpToRel(<, Nat), Nat)
  BY NatLessThanWellFounded, Zenon
<1>2. PICK n \in T : \A k \in T : ~(<<k, n>> \in OpToRel(<, Nat))
  BY <1>1, WFMin, Zenon
<1>3. \A k \in T : ~(k < n)
  BY <1>2, Zenon DEF OpToRel
<1>4. QED
  BY <1>3

LEMMA PlaceFound ==
  ASSUME kvPlaces \in Seq(Span), NEW x, NEW y \in DOMAIN kvPlaces, kvPlaces[y] = x
  PROVE  PlaceIndex(x) \in DOMAIN kvPlaces /\ kvPlaces[PlaceIndex(x)] = x
<1> DEFINE T == {n \in DOMAIN kvPlaces : kvPlaces[n] = x}
<1>1. T \in SUBSET Nat /\ y \in T
  OBVIOUS
<1>2. PICK n \in T : \A k \in T : n <= k
  BY <1>1, LeastIndex
<1>3. /\ n \in DOMAIN kvPlaces /\ kvPlaces[n] = x
      /\ \A k \in DOMAIN kvPlaces : kvPlaces[k] = x => n <= k
  BY <1>2
<1>4. QED
  BY <1>3, Zenon DEF PlaceIndex

-----------------------------------------------------------------------------
LEMMA EmptySound ==
  ASSUME NEW at \in Nat, NEW q \in Query
  PROVE  Sound(<< >>, << >>, << >>, {}, at, q, [o \in ObjId |-> NoContent], 0)
<1>1. Cardinality(Unnamed(<< >>)) = 0
  BY FS_EmptySet DEF Unnamed
<1>2. Counted(<< >>, << >>, << >>, 0)
  BY <1>1 DEF Counted
<1>3. QED
  BY <1>2 DEF Sound, Typed, Told, Placed, Parallel, Named

LEMMA StoreInitially == Init => StoreInv
<1> SUFFICES ASSUME Init PROVE StoreInv
  OBVIOUS
<1>0. [o \in ObjId |-> NoContent] \in [ObjId -> Content \union {NoContent}]
      /\ 0 \in 0 .. MaxFailures /\ StaticLength \in Nat
  BY StoreAssumption
<1>1. Rest
  BY <1>0, Zenon DEF Init, Rest
<1>2. Sound(<< >>, << >>, << >>, {}, StaticLength, query, [o \in ObjId |-> NoContent], 0)
  BY EmptySound, StoreAssumption DEF Init
<1>3. QED
  BY <1>1, <1>2, Zenon DEF Init, StoreInv

LEMMA NewEpisodeStep ==
  ASSUME StoreInv, NEW q \in Query, NewEpisode(q)
  PROVE  StoreInv'
<1>0. [o \in ObjId |-> NoContent] \in [ObjId -> Content \union {NoContent}]
      /\ 0 \in 0 .. MaxFailures /\ StaticLength \in Nat
  BY StoreAssumption
<1>1. Rest'
  BY <1>0, Zenon DEF StoreInv, Rest, NewEpisode
<1>2. Sound(<< >>, << >>, << >>, {}, StaticLength, q, [o \in ObjId |-> NoContent], 0)
  BY EmptySound, StoreAssumption
<1>3. QED
  BY <1>1, <1>2, Zenon DEF NewEpisode, StoreInv

LEMMA ForwardStep ==
  ASSUME StoreInv, Forward
  PROVE  StoreInv'
<1>1. alive' \in BOOLEAN
  BY Zenon DEF Forward
<1>2. Rest'
  BY <1>1 DEF StoreInv, Rest, Forward, FlagAfterReset
<1>3. QED
  BY <1>2, Zenon DEF StoreInv, Forward

(* The lists an object was taken out of, or never in, get its message or     *)
(* what a failed collection leaves.                                        *)
LEMMA CollectedStep ==
  ASSUME Rest, NEW o \in ObjId, NEW c \in Content, NEW m, NEW s, NEW p,
         Sound(m, s, p, {o}, place, query, reported, failures),
         Collected(o, c, m, s, p),
         reported' = [reported EXCEPT ![o] = c], UNCHANGED <<query, tablesBuilt>>
  PROVE  StoreInv'
<1>1. Length[c] \in Nat /\ place + Length[c] <= MaxPlace /\ failures \in Nat
  BY StoreAssumption DEF Rest, Collected
<1>2. Rest'
  BY <1>1 DEF Rest, Collected
<1>3. Sound(Append(m, Message(o, c, <<place, place + Length[c]>>)),
            Append(s, Similarity[query][c]), Append(p, <<place, place + Length[c]>>),
            {}, place + Length[c], query, [reported EXCEPT ![o] = c], failures)
  BY <1>1, AddAtEnd DEF Rest
<1>4. place' = place + Length[c]
  BY DEF Collected
<1>5. QED
  BY <1>2, <1>3, <1>4, Zenon DEF Collected, StoreInv

LEMMA RaisesStep ==
  ASSUME Rest, NEW o \in ObjId, NEW c \in Content, NEW m, NEW s, NEW p,
         NEW survives \in BOOLEAN,
         Sound(m, s, p, {o}, place, query, reported, failures),
         CollectionRaises(c, m, s, p), alive' = survives,
         reported' = [reported EXCEPT ![o] = c], UNCHANGED <<query, tablesBuilt>>
  PROVE  StoreInv'
<1>1. failures \in Nat /\ failures' = failures + 1 /\ failures' \in 0 .. MaxFailures
  BY StoreAssumption DEF Rest, CollectionRaises
<1>2. Rest'
  BY <1>1 DEF Rest, CollectionRaises
<1>3. Sound(Append(m, Message(NoId, c, NoPlace)), s, p, {}, place, query,
            [reported EXCEPT ![o] = c], failures + 1)
  BY <1>1, RaiseAtEnd DEF Rest
<1>4. QED
  BY <1>1, <1>2, <1>3, Zenon DEF CollectionRaises, StoreInv

LEMMA AddStep ==
  ASSUME StoreInv, NEW o \in ObjId, NEW c \in Content, NEW survives \in BOOLEAN,
         Add(o, c, survives),
         reported' = [reported EXCEPT ![o] = c], UNCHANGED <<query, tablesBuilt>>
  PROVE  StoreInv'
<1>1. Rest /\ Sound(messages, similarity, kvPlaces, {}, place, query, reported, failures)
  BY DEF StoreInv
<1>2. \A i \in DOMAIN messages : messages[i].id # o
  BY DEF Add, IndexOf
<1>3. Sound(messages, similarity, kvPlaces, {o}, place, query, reported, failures)
  BY <1>1, <1>2, NoneToTake, Zenon
<1>4. CASE Collected(o, c, messages, similarity, kvPlaces)
  BY <1>1, <1>3, <1>4, CollectedStep
<1>5. CASE CollectionRaises(c, messages, similarity, kvPlaces) /\ alive' = survives
  BY <1>1, <1>3, <1>5, RaisesStep
<1>6. QED
  BY <1>4, <1>5 DEF Add

LEMMA RefreshStep ==
  ASSUME StoreInv, NEW o \in ObjId, NEW c \in Content, NEW survives \in BOOLEAN,
         Refresh(o, c, survives),
         reported' = [reported EXCEPT ![o] = c], UNCHANGED <<query, tablesBuilt>>
  PROVE  StoreInv'
<1>1. Rest /\ Sound(messages, similarity, kvPlaces, {}, place, query, reported, failures)
  BY DEF StoreInv
<1>2. /\ messages \in Seq(MessageType) /\ kvPlaces \in Seq(Span)
      /\ Placed(messages, kvPlaces, place) /\ place \in Nat /\ query \in Query
      /\ reported \in [ObjId -> Content \union {NoContent}] /\ failures \in Nat
  BY <1>1, StoreAssumption DEF Sound, Typed, Rest
<1> DEFINE places(i) == RemoveAt(kvPlaces, PlaceIndex(messages[i].place))
           msgs(i) == RemoveAt(messages, i)
<1>3. PICK i \in IndexOf(o) :
        \/ /\ i \in DOMAIN similarity
           /\ \/ Collected(o, c, msgs(i), RemoveAt(similarity, i), places(i))
              \/ /\ CollectionRaises(c, msgs(i), RemoveAt(similarity, i), places(i))
                 /\ alive' = survives
        \/ /\ i \notin DOMAIN similarity
           /\ messages' = msgs(i) /\ kvPlaces' = places(i) /\ alive' = survives
           /\ UNCHANGED <<similarity, place, memoryChange, failures>>
  BY Zenon DEF Refresh
<1> DEFINE n == PlaceIndex(messages[i].place)
<1>4. i \in DOMAIN messages /\ messages[i].id = o /\ i \in Named(messages)
  BY StoreAssumption DEF IndexOf, Named
<1>5. n \in DOMAIN kvPlaces /\ kvPlaces[n] = messages[i].place
  <2>1. PICK y \in DOMAIN kvPlaces : kvPlaces[y] = messages[i].place
    BY <1>2, <1>4 DEF Placed
  <2>2. QED
    BY <1>2, <2>1, PlaceFound
<1> HIDE DEF n
<1>6. /\ i \in DOMAIN similarity =>
            Sound(msgs(i), RemoveAt(similarity, i), places(i), {o}, place, query,
                  reported, failures)
      /\ i \notin DOMAIN similarity =>
            /\ failures # 0
            /\ Sound(msgs(i), similarity, places(i), {o}, place, query, reported, failures)
  <2> HIDE DEF msgs, places
  <2>1. /\ msgs(i) = RemoveAt(messages, i)
        /\ places(i) = RemoveAt(kvPlaces, n)
    BY Zenon DEF msgs, places, n
  <2>2. QED
    <3>1. /\ i \in DOMAIN similarity =>
                Sound(RemoveAt(messages, i), RemoveAt(similarity, i), RemoveAt(kvPlaces, n),
                      {o}, place, query, reported, failures)
          /\ i \notin DOMAIN similarity =>
                /\ failures # 0
                /\ Sound(RemoveAt(messages, i), similarity, RemoveAt(kvPlaces, n),
                         {o}, place, query, reported, failures)
      <4>1. /\ place \in Nat /\ query \in Query
            /\ reported \in [ObjId -> Content \union {NoContent}] /\ failures \in Nat
            /\ Sound(messages, similarity, kvPlaces, {}, place, query, reported, failures)
            /\ i \in DOMAIN messages /\ messages[i].id = o
            /\ n \in DOMAIN kvPlaces /\ kvPlaces[n] = messages[i].place
        BY <1>1, <1>2, <1>4, <1>5
      <4>2. QED
        BY <4>1, TakeOut, SMTT(30)
    <3>2. QED
      BY <2>1, <3>1, Zenon
<1> HIDE DEF msgs, places
<1>7. CASE i \in DOMAIN similarity /\ Collected(o, c, msgs(i), RemoveAt(similarity, i), places(i))
  BY <1>1, <1>6, <1>7, CollectedStep
<1>8. CASE /\ i \in DOMAIN similarity
           /\ CollectionRaises(c, msgs(i), RemoveAt(similarity, i), places(i))
           /\ alive' = survives
  BY <1>1, <1>6, <1>8, RaisesStep
<1>9. CASE /\ i \notin DOMAIN similarity
           /\ messages' = msgs(i) /\ kvPlaces' = places(i) /\ alive' = survives
           /\ UNCHANGED <<similarity, place, memoryChange, failures>>
  <2>1. Sound(msgs(i), similarity, places(i), {}, place, query,
              [reported EXCEPT ![o] = c], failures)
    BY <1>2, <1>6, <1>9, StopHalfWay
  <2>2. Rest'
    BY <1>1, <1>9 DEF Rest
  <2>3. QED
    BY <1>9, <2>1, <2>2, Zenon DEF StoreInv
<1>10. QED
  BY <1>3, <1>7, <1>8, <1>9

LEMMA KeepStep ==
  ASSUME StoreInv, NEW o \in ObjId, NEW c \in Content, Keep(o, c),
         reported' = [reported EXCEPT ![o] = c], UNCHANGED <<query, tablesBuilt>>
  PROVE  StoreInv'
<1>1. PICK i \in DOMAIN messages : messages[i].id = o /\ messages[i].content = c
  BY DEF Keep, IndexOf
<1>2. i \in Named(messages)
  BY <1>1, StoreAssumption DEF Named
<1>3. reported[o] = c
  BY <1>1, <1>2 DEF StoreInv, Sound, Told
<1>4. reported' = reported
  BY <1>3 DEF StoreInv, Rest
<1>5. Rest'
  BY <1>4 DEF StoreInv, Rest, Keep
<1>6. QED
  BY <1>4, <1>5, Zenon DEF StoreInv, Keep

LEMMA StoreStep == StoreInv /\ [Next]_vars => StoreInv'
<1> SUFFICES ASSUME StoreInv, [Next]_vars PROVE StoreInv'
  OBVIOUS
<1>1. ASSUME NEW q \in Query, NewEpisode(q) PROVE StoreInv'
  BY <1>1, NewEpisodeStep
<1>2. ASSUME NEW o \in ObjId, NEW c \in Content, NEW survives \in BOOLEAN,
             Report(o, c, survives)
      PROVE  StoreInv'
  BY <1>2, AddStep, RefreshStep, KeepStep DEF Report
<1>3. CASE Forward
  BY <1>3, ForwardStep
<1>4. CASE UNCHANGED vars
  <2>1. Rest'
    BY <1>4 DEF StoreInv, Rest, vars
  <2>2. QED
    BY <1>4, <2>1, Zenon DEF StoreInv, vars
<1>5. QED
  BY <1>1, <1>2, <1>3, <1>4 DEF Next, Observe, RecordAction

-----------------------------------------------------------------------------
(* The memory satisfies its invariant in every state. *)
THEOREM StoreInvariant == Spec => []StoreInv
<1>1. Init => StoreInv
  BY StoreInitially
<1>2. StoreInv /\ [Next]_vars => StoreInv'
  BY StoreStep
<1>3. QED
  BY <1>1, <1>2, PTL DEF Spec

(* The lists, the counter and the flags keep their types. *)
THEOREM TypeCorrect == Spec => []TypeOK
<1>1. StoreInv => TypeOK
  BY DEF StoreInv, Rest, Sound, Typed, TypeOK, MessageType
<1>2. QED
  BY <1>1, StoreInvariant, PTL

(* However reports, refreshes and failed collections alternate, no id is on  *)
(* two messages, and the memory holds one message without an id for every   *)
(* collection that failed (add_message_objects_by_observation, _by_action). *)
THEOREM MessagesAlwaysCounted == Spec => []MessagesCounted
<1>1. StoreInv => MessagesCounted
  <2> SUFFICES ASSUME StoreInv PROVE MessagesCounted
    OBVIOUS
  <2>1. Identified = Named(messages) /\ DOMAIN messages \ Identified = Unnamed(messages)
    BY DEF Identified, Named, Unnamed
  <2>2. QED
    BY <2>1, Zenon DEF StoreInv, Sound, Told, Counted, MessagesCounted
<1>2. QED
  BY <1>1, StoreInvariant, PTL

(* A message with an id says what was last reported, also after a refresh    *)
(* that stopped between its deletions.                                     *)
THEOREM NeverStaleAlways == Spec => []NeverStale
<1>1. StoreInv => NeverStale
  BY DEF StoreInv, Sound, Told, Named, NeverStale, Identified
<1>2. QED
  BY <1>1, StoreInvariant, PTL

(* Unless a collection failed, deleting and adding again loses no object. *)
THEOREM NothingForgottenEver == Spec => []NothingForgotten
<1>1. StoreInv => NothingForgotten
  BY DEF StoreInv, Sound, Parallel, NothingForgotten, IndexOf
<1>2. QED
  BY <1>1, StoreInvariant, PTL

-----------------------------------------------------------------------------
(* What a forward is fed.  The index before which r - 1 others come is the   *)
(* r-th of sorted_indices; as no two indices have as many before them,      *)
(* there is one for every r.                                               *)
LEMMA PrecedesOrders ==
  ASSUME similarity \in Seq(Nat),
         NEW x \in DOMAIN similarity, NEW y \in DOMAIN similarity,
         NEW z \in DOMAIN similarity
  PROVE  /\ ~Precedes(x, x)
         /\ x # y => Precedes(x, y) \/ Precedes(y, x)
         /\ Precedes(x, y) /\ Precedes(y, z) => Precedes(x, z)
<1>1. /\ x \in Nat /\ y \in Nat /\ z \in Nat
      /\ similarity[x] \in Nat /\ similarity[y] \in Nat /\ similarity[z] \in Nat
  OBVIOUS
<1>2. QED
  BY <1>1 DEF Precedes

Ahead(i) == {j \in DOMAIN similarity : Precedes(j, i)}

LEMMA AheadCount ==
  ASSUME similarity \in Seq(Nat), NEW i \in DOMAIN similarity
  PROVE  /\ IsFiniteSet(Ahead(i))
         /\ Cardinality(Ahead(i)) \in 0 .. Len(similarity) - 1
<1>1. /\ DOMAIN similarity = 1 .. Len(similarity) /\ Len(similarity) \in Nat
      /\ IsFiniteSet(1 .. Len(similarity))
      /\ Cardinality(1 .. Len(similarity)) = Len(similarity)
  BY FS_Interval
<1>2. IsFiniteSet(DOMAIN similarity) /\ Cardinality(DOMAIN similarity) = Len(similarity)
  BY <1>1
<1>3. Ahead(i) \subseteq DOMAIN similarity /\ i \notin Ahead(i)
  BY PrecedesOrders DEF Ahead
<1>4. Ahead(i) # DOMAIN similarity
  BY <1>3
<1>5. /\ IsFiniteSet(Ahead(i))
      /\ Cardinality(Ahead(i)) <= Cardinality(DOMAIN similarity)
      /\ Cardinality(Ahead(i)) # Cardinality(DOMAIN similarity)
  BY <1>2, <1>3, <1>4, FS_Subset
<1>6. Cardinality(Ahead(i)) \in Nat
  BY <1>5, FS_CardinalityType
<1>7. QED
  BY <1>1, <1>2, <1>5, <1>6

LEMMA AheadGrows ==
  ASSUME similarity \in Seq(Nat), NEW i \in DOMAIN similarity,
         NEW j \in DOMAIN similarity, Precedes(j, i)
  PROVE  Cardinality(Ahead(j)) < Cardinality(Ahead(i))
<1>1. Ahead(j) \subseteq Ahead(i)
  BY PrecedesOrders DEF Ahead
<1>2. j \in Ahead(i) /\ j \notin Ahead(j)
  BY PrecedesOrders DEF Ahead
<1>3. IsFiniteSet(Ahead(i)) /\ Ahead(j) # Ahead(i)
  BY <1>2, AheadCount
<1>4. /\ Cardinality(Ahead(j)) <= Cardinality(Ahead(i))
      /\ Cardinality(Ahead(j)) # Cardinality(Ahead(i))
  BY <1>1, <1>3, FS_Subset
<1>5. Cardinality(Ahead(i)) \in Nat /\ Cardinality(Ahead(j)) \in Nat
  BY AheadCount
<1>6. QED
  BY <1>4, <1>5

SortsIndices(s) ==
  \A k, n \in DOMAIN similarity : k < n => Precedes(s[k], s[n])

LEMMA SortedExists ==
  ASSUME similarity \in Seq(Nat)
  PROVE  \E s \in [DOMAIN similarity -> DOMAIN similarity] : SortsIndices(s)
<1>0. PICK D : D = DOMAIN similarity
  OBVIOUS
<1>1. D = 1 .. Len(similarity) /\ Len(similarity) \in Nat /\ IsFiniteSet(D)
  BY <1>0, FS_Interval
<1> DEFINE rank == [i \in D |-> Cardinality(Ahead(i)) + 1]
<1>2. \A i \in D : Cardinality(Ahead(i)) \in 0 .. Len(similarity) - 1
  BY <1>0, AheadCount
<1>3. rank \in [D -> D]
  BY <1>1, <1>2
<1>4. \A i, j \in D : Precedes(j, i) => rank[j] < rank[i]
  BY <1>0, <1>1, <1>2, AheadGrows
<1>5. \A i \in D : rank[i] \in Nat
  BY <1>1, <1>3
<1> HIDE DEF rank
<1>6. \A i, j \in D : rank[i] = rank[j] => i = j
  <2> SUFFICES ASSUME NEW i \in D, NEW j \in D, rank[i] = rank[j], i # j
               PROVE  FALSE
    OBVIOUS
  <2>1. Precedes(i, j) \/ Precedes(j, i)
    BY <1>0, PrecedesOrders
  <2>2. rank[i] < rank[j] \/ rank[j] < rank[i]
    BY <1>4, <2>1
  <2>3. QED
    BY <1>5, <2>2
<1>7. rank \in Injection(D, D)
  BY <1>3, <1>6, Fun_IsInj
<1>8. rank \in Surjection(D, D)
  BY <1>1, <1>7, FS_Injection
<1>9. \A k \in D : \E i \in D : rank[i] = k
  BY <1>8, Fun_SurjectionProperties
<1> DEFINE s == [k \in D |-> CHOOSE i \in D : rank[i] = k]
<1>10. \A k \in D : s[k] \in D /\ rank[s[k]] = k
  BY <1>9
<1>11. s \in [D -> D]
  BY <1>10
<1> HIDE DEF s
<1>12. SortsIndices(s)
  <2> SUFFICES ASSUME NEW k \in D, NEW n \in D, k < n
               PROVE  Precedes(s[k], s[n])
    BY <1>0 DEF SortsIndices
  <2>1. s[k] \in D /\ s[n] \in D /\ rank[s[k]] = k /\ rank[s[n]] = n
    BY <1>10
  <2>2. ~(rank[s[n]] < rank[s[k]]) /\ s[k] # s[n]
    BY <1>1, <2>1
  <2>3. ~Precedes(s[n], s[k])
    BY <1>4, <2>1, <2>2
  <2>4. QED
    BY <1>0, <2>1, <2>2, <2>3, PrecedesOrders
<1>13. QED
  BY <1>0, <1>11, <1>12

(* sorted_indices holds every index once, the nearest first. *)
LEMMA SortedIs ==
  ASSUME similarity \in Seq(Nat)
  PROVE  /\ SortedIndices \in [DOMAIN similarity -> DOMAIN similarity]
         /\ SortsIndices(SortedIndices)
         /\ \A i \in DOMAIN similarity : \E k \in DOMAIN similarity : SortedIndices[k] = i
<1>1. /\ SortedIndices \in [DOMAIN similarity -> DOMAIN similarity]
      /\ SortsIndices(SortedIndices)
  BY SortedExists, Zenon DEF SortedIndices, SortsIndices
<1>2. PICK D : D = DOMAIN similarity
  OBVIOUS
<1>3. D = 1 .. Len(similarity) /\ IsFiniteSet(D)
  BY <1>2, FS_Interval
<1>4. \A k, n \in D : SortedIndices[k] = SortedIndices[n] => k = n
  <2> SUFFICES ASSUME NEW k \in D, NEW n \in D, SortedIndices[k] = SortedIndices[n], k < n
               PROVE  FALSE
    BY <1>3
  <2>1. Precedes(SortedIndices[k], SortedIndices[n])
    BY <1>1, <1>2 DEF SortsIndices
  <2>2. SortedIndices[k] \in DOMAIN similarity
    BY <1>1, <1>2
  <2>3. ~Precedes(SortedIndices[k], SortedIndices[k])
    BY <2>2, PrecedesOrders
  <2>4. QED
    BY <2>1, <2>3
<1>5. SortedIndices \in Injection(D, D)
  BY <1>1, <1>2, <1>4, Fun_IsInj
<1>6. SortedIndices \in Surjection(D, D)
  BY <1>3, <1>5, FS_Injection
<1>7. QED
  BY <1>1, <1>2, <1>6, Fun_SurjectionProperties

LEMMA FedAre ==
  ASSUME similarity \in Seq(Nat), messages \in Seq(MessageType),
         Len(similarity) <= Len(messages)
  PROVE  /\ FedCount \in 0 .. KvCapacity /\ FedCount \in 0 .. Len(similarity)
         /\ DOMAIN FedIndices = 1 .. FedCount
         /\ \A k \in 1 .. FedCount : /\ FedIndices[k] = SortedIndices[k]
                                     /\ FedIndices[k] \in DOMAIN similarity
                                     /\ FedIndices[k] \in DOMAIN messages
         /\ Layout \in [1 .. FedCount -> Content]
         /\ \A k \in 1 .. FedCount : Layout[k] = messages[FedIndices[k]].content
<1>1. /\ Len(similarity) \in Nat /\ Len(messages) \in Nat /\ KvCapacity \in Nat
      /\ DOMAIN similarity = 1 .. Len(similarity) /\ DOMAIN messages = 1 .. Len(messages)
  BY StoreAssumption
<1>2. FedCount \in 0 .. KvCapacity /\ FedCount \in 0 .. Len(similarity)
  BY <1>1 DEF FedCount
<1>3. SortedIndices \in [DOMAIN similarity -> DOMAIN similarity]
  BY SortedIs
<1>4. /\ DOMAIN FedIndices = 1 .. FedCount
      /\ \A k \in 1 .. FedCount : FedIndices[k] = SortedIndices[k]
  BY DEF FedIndices
<1>5. ASSUME NEW k \in 1 .. FedCount
      PROVE  FedIndices[k] \in DOMAIN similarity
  <2>1. k \in DOMAIN similarity
    BY <1>1, <1>2
  <2>2. QED
    BY <1>3, <1>4, <2>1
<1>6. \A k \in 1 .. FedCount : FedIndices[k] \in DOMAIN messages
  BY <1>1, <1>5
<1>7. ASSUME NEW i \in DOMAIN messages
      PROVE  messages[i].content \in Content
  <2>1. messages[i] \in MessageType
    BY <1>1
  <2>2. QED
    BY <2>1 DEF MessageType
<1>8. /\ Layout \in [1 .. FedCount -> Content]
      /\ \A k \in 1 .. FedCount : Layout[k] = messages[FedIndices[k]].content
  BY <1>4, <1>6, <1>7 DEF Layout
<1>9. QED
  BY <1>2, <1>4, <1>5, <1>6, <1>8

(* Until a collection fails, every message fed has its keys, so no forward   *)
(* raises; and no report does.                                             *)
Lasting == failures = 0 => alive = TRUE

LEMMA ForwardLasts ==
  ASSUME StoreInv, Lasting, Forward
  PROVE  Lasting'
<1> SUFFICES ASSUME failures = 0 PROVE alive' = TRUE
  BY DEF Lasting, Forward
<1>1. /\ messages \in Seq(MessageType) /\ similarity \in Seq(Nat) /\ kvPlaces \in Seq(Span)
      /\ Len(similarity) <= Len(messages) /\ Len(kvPlaces) = Len(messages)
      /\ \A i \in DOMAIN messages : kvPlaces[i] = messages[i].place
  BY DEF StoreInv, Sound, Typed, Parallel
<1>2. \A i \in DOMAIN messages : messages[i].place \in Span
  BY <1>1
<1>3. \A x \in Span : x # NoPlace
  BY DEF Span, NoPlace
<1>4. \A k \in DOMAIN FedIndices : FedIndices[k] \in DOMAIN messages
  BY <1>1, FedAre
<1>5. \A k \in DOMAIN FedIndices : messages[FedIndices[k]].place # NoPlace
  BY <1>2, <1>3, <1>4
<1>6. QED
  BY <1>5, Zenon DEF Forward

LEMMA ReportLasts ==
  ASSUME StoreInv, Lasting, NEW o \in ObjId, NEW c \in Content, NEW survives \in BOOLEAN,
         Report(o, c, survives)
  PROVE  Lasting'
<1> SUFFICES ASSUME failures' = 0 PROVE alive' = TRUE
  BY DEF Lasting
<1>1. alive = TRUE /\ failures \in Nat
  <2>1. alive \in BOOLEAN /\ alive
    BY Zenon DEF StoreInv, Rest, Report
  <2>2. failures \in 0 .. MaxFailures /\ MaxFailures \in Nat
    BY StoreAssumption, Zenon DEF StoreInv, Rest
  <2>3. QED
    BY <2>1, <2>2
<1>2. ASSUME NEW m, NEW s, NEW p
      PROVE  /\ Collected(o, c, m, s, p) => alive' = TRUE
             /\ ~CollectionRaises(c, m, s, p)
  <2>1. Collected(o, c, m, s, p) => alive' = alive
    BY Zenon DEF Collected
  <2>2. CollectionRaises(c, m, s, p) => failures' = failures + 1
    BY Zenon DEF CollectionRaises
  <2>3. failures + 1 # 0
    BY <1>1
  <2>4. QED
    BY <1>1, <2>1, <2>2, <2>3, Zenon
<1>3. CASE Add(o, c, survives)
  BY <1>2, <1>3 DEF Add
<1>4. CASE Refresh(o, c, survives)
  <2>1. PICK i \in IndexOf(o) :
          \/ \E m, s, p : Collected(o, c, m, s, p) \/ CollectionRaises(c, m, s, p)
          \/ i \notin DOMAIN similarity /\ failures' = failures
    BY <1>4, Zenon DEF Refresh
  <2>2. ~(i \notin DOMAIN similarity /\ failures' = failures)
    <3>1. SUFFICES ASSUME failures = 0 PROVE i \in DOMAIN similarity
      BY <1>1
    <3>2. /\ messages \in Seq(MessageType) /\ similarity \in Seq(Nat)
          /\ Len(similarity) = Len(messages) /\ i \in DOMAIN messages
      BY <3>1 DEF StoreInv, Sound, Typed, Parallel, IndexOf
    <3>3. QED
      BY <3>2
  <2>3. QED
    BY <1>2, <2>1, <2>2
<1>5. CASE Keep(o, c)
  BY <1>1, <1>5 DEF Keep
<1>6. QED
  BY <1>3, <1>4, <1>5 DEF Report

LEMMA LastsAlways == Spec => []Lasting
<1>1. Init => Lasting
  BY DEF Init, Lasting
<1>2. StoreInv /\ Lasting /\ [Next]_vars => Lasting'
  <2> SUFFICES ASSUME StoreInv, Lasting, [Next]_vars PROVE Lasting'
    OBVIOUS
  <2>1. ASSUME NEW q \in Query, NewEpisode(q) PROVE Lasting'
    BY <2>1 DEF NewEpisode, StoreInv, Rest, Lasting
  <2>2. ASSUME NEW o \in ObjId, NEW c \in Content, NEW survives \in BOOLEAN,
               Report(o, c, survives)
        PROVE  Lasting'
    BY <2>2, ReportLasts
  <2>3. CASE Forward
    BY <2>3, ForwardLasts
  <2>4. CASE UNCHANGED vars
    BY <2>4 DEF Lasting, vars
  <2>5. QED
    BY <2>1, <2>2, <2>3, <2>4 DEF Next, Observe, RecordAction
<1>3. QED
  BY <1>1, <1>2, StoreInvariant, PTL DEF Spec

(* The three lists are apart by no more than what failed collections left,   *)
(* whatever stopped half way; until one fails they are parallel, and no     *)
(* report or forward has ended the evaluation.                             *)
THEOREM ListsApartByFailures == Spec => []ApartByFailures
<1>1. StoreInv /\ Lasting => ApartByFailures
  <2> SUFFICES ASSUME StoreInv, Lasting PROVE ApartByFailures
    OBVIOUS
  <2>1. /\ messages \in Seq(MessageType) /\ similarity \in Seq(Nat) /\ kvPlaces \in Seq(Span)
        /\ Len(similarity) <= Len(messages)
        /\ Len(kvPlaces) + failures = Len(messages)
        /\ Len(messages) <= Len(similarity) + failures
        /\ Placed(messages, kvPlaces, place)
        /\ failures = 0 => Parallel(messages, similarity, kvPlaces, {}, query, reported)
    BY DEF StoreInv, Sound, Typed, Counted
  <2>2. \A i \in Identified : \E n \in DOMAIN kvPlaces : kvPlaces[n] = messages[i].place
    BY <2>1 DEF Placed, Named, Identified
  <2>3. ASSUME failures = 0
        PROVE  /\ similarity = [i \in DOMAIN messages |->
                                   Similarity[query][messages[i].content]]
               /\ kvPlaces = [i \in DOMAIN messages |-> messages[i].place]
    BY <2>1, <2>3 DEF Parallel
  <2>4. failures = 0 => alive
    BY DEF Lasting
  <2>5. QED
    BY <2>1, <2>2, <2>3, <2>4 DEF ApartByFailures
<1>2. QED
  BY <1>1, StoreInvariant, LastsAlways, PTL

(* Unless a collection failed, a forward is fed the messages nearest to the  *)
(* instruction (get_input_ids_vllm sorts and cuts to kv_capacity).         *)
THEOREM MostSimilarAreFed == Spec => []FedMostSimilar
<1>1. StoreInv => FedMostSimilar
  <2> SUFFICES ASSUME StoreInv, failures = 0, NEW i \in DOMAIN messages,
                      \A k \in DOMAIN FedIndices : FedIndices[k] # i
               PROVE  /\ Len(Layout) = KvCapacity
                      /\ \A k \in DOMAIN Layout :
                           Similarity[query][messages[i].content]
                             <= Similarity[query][Layout[k]]
    BY DEF FedMostSimilar
  <2>1. /\ messages \in Seq(MessageType) /\ similarity \in Seq(Nat)
        /\ Len(similarity) = Len(messages)
        /\ \A j \in DOMAIN messages : similarity[j] = Similarity[query][messages[j].content]
    BY DEF StoreInv, Sound, Typed, Parallel
  <2>2. /\ Len(messages) \in Nat /\ KvCapacity \in Nat
        /\ DOMAIN similarity = 1 .. Len(messages) /\ DOMAIN messages = 1 .. Len(messages)
    BY <2>1, StoreAssumption
  <2>3. /\ DOMAIN FedIndices = 1 .. FedCount
        /\ FedCount \in 0 .. Len(messages)
        /\ \A k \in 1 .. FedCount : /\ FedIndices[k] = SortedIndices[k]
                                    /\ FedIndices[k] \in DOMAIN messages
        /\ Layout \in [1 .. FedCount -> Content]
        /\ \A k \in 1 .. FedCount : Layout[k] = messages[FedIndices[k]].content
    BY <2>1, <2>2, FedAre
  <2>4. PICK n \in DOMAIN similarity : SortedIndices[n] = i
    BY <2>1, <2>2, SortedIs
  <2>5. n \in Nat /\ n > FedCount /\ n <= Len(messages)
    BY <2>2, <2>3, <2>4
  <2>6. FedCount = KvCapacity
    BY <2>1, <2>2, <2>3, <2>5 DEF FedCount
  <2>7. Len(Layout) = KvCapacity /\ DOMAIN Layout = 1 .. FedCount
    BY <2>2, <2>3, <2>6
  <2>8. ASSUME NEW k \in 1 .. FedCount
        PROVE  Similarity[query][messages[i].content] <= Similarity[query][Layout[k]]
    <3>1. k \in DOMAIN similarity /\ k < n
      BY <2>2, <2>3, <2>5
    <3>2. Precedes(SortedIndices[k], i)
      BY <2>1, <2>4, <3>1, SortedIs DEF SortsIndices
    <3>3. SortedIndices[k] \in DOMAIN messages
          /\ Layout[k] = messages[SortedIndices[k]].content
      BY <2>3
    <3>4. similarity[i] \in Nat /\ similarity[SortedIndices[k]] \in Nat
      BY <2>1, <2>2, <3>3
    <3>5. similarity[i] <= similarity[SortedIndices[k]]
      BY <3>2, <3>4 DEF Precedes
    <3>6. QED
      BY <2>1, <3>3, <3>5
  <2>9. QED
    BY <2>7, <2>8
<1>2. QED
  BY <1>1, StoreInvariant, PTL

-----------------------------------------------------------------------------
Sorting(sims) ==
  CHOOSE s \in [DOMAIN sims -> DOMAIN sims] :
    \A k, n \in DOMAIN sims : k < n =>
      sims[s[k]] > sims[s[n]] \/ (sims[s[k]] = sims[s[n]] /\ s[k] < s[n])

LEMMA LayoutKept ==
  ASSUME UNCHANGED <<messages, similarity>>
  PROVE  Layout' = Layout
<1>1. messages' = messages /\ similarity' = similarity
  OBVIOUS
<1>2. SortedIndices' = SortedIndices
  <2>1. SortedIndices = Sorting(similarity)
    BY Zenon DEF Sorting, SortedIndices, Precedes
  <2>2. SortedIndices' = Sorting(similarity')
    BY Zenon DEF Sorting, SortedIndices, Precedes
  <2>3. QED
    BY <1>1, <2>1, <2>2
<1>3. FedIndices' = FedIndices
  BY <1>1, <1>2, Zenon DEF FedIndices, FedCount
<1>4. QED
  BY <1>1, <1>3, Zenon DEF Layout

LEMMA NothingFed ==
  ASSUME messages' = << >>, similarity' = << >>
  PROVE  Layout' = << >>
<1>1. Len(similarity') = 0
  OBVIOUS
<1>2. FedCount' = 0
  BY <1>1, StoreAssumption DEF FedCount
<1>3. DOMAIN FedIndices' = {}
  BY <1>2 DEF FedIndices
<1>4. QED
  BY <1>3 DEF Layout

(* A report that is taken in without a failure raises the flag; one that     *)
(* fails half way does so only after an earlier failure.                   *)
LEMMA ReportFlagged ==
  ASSUME StoreInv, NEW o \in ObjId, NEW c \in Content, NEW survives \in BOOLEAN,
         Report(o, c, survives), failures' = 0, Layout' # Layout
  PROVE  memoryChange' = "yes"
<1>1. failures \in Nat
  BY StoreAssumption DEF StoreInv, Rest
<1>2. ASSUME NEW m, NEW s, NEW p
      PROVE  /\ Collected(o, c, m, s, p) => memoryChange' = "yes"
             /\ ~CollectionRaises(c, m, s, p)
  BY <1>1 DEF Collected, CollectionRaises
<1>3. CASE Add(o, c, survives)
  BY <1>2, <1>3 DEF Add
<1>4. CASE Refresh(o, c, survives)
  <2>1. PICK i \in IndexOf(o) :
          \/ \E m, s, p : Collected(o, c, m, s, p) \/ CollectionRaises(c, m, s, p)
          \/ i \notin DOMAIN similarity /\ failures' = failures
    BY <1>4, Zenon DEF Refresh
  <2>2. CASE i \notin DOMAIN similarity /\ failures' = failures
    <3>1. messages \in Seq(MessageType) /\ similarity \in Seq(Nat)
          /\ Len(similarity) = Len(messages) /\ i \in DOMAIN messages
      BY <2>2 DEF StoreInv, Sound, Typed, Parallel, IndexOf
    <3>2. QED
      BY <2>2, <3>1
  <2>3. QED
    BY <1>2, <2>1, <2>2
<1>5. CASE Keep(o, c)
  BY <1>5, LayoutKept DEF Keep
<1>6. QED
  BY <1>3, <1>4, <1>5 DEF Report

LEMMA LayoutFlagged ==
  StoreInv /\ [Next]_vars =>
    (Layout' # Layout /\ failures' = 0 =>
       memoryChange' = "yes" \/ (Layout' = << >> /\ ~tablesBuilt'))
<1> SUFFICES ASSUME StoreInv, [Next]_vars, Layout' # Layout, failures' = 0
             PROVE  memoryChange' = "yes" \/ (Layout' = << >> /\ ~tablesBuilt')
  OBVIOUS
<1>1. ASSUME NEW q \in Query, NewEpisode(q)
      PROVE  Layout' = << >> /\ ~tablesBuilt'
  BY <1>1, NothingFed DEF NewEpisode
<1>2. ASSUME NEW o \in ObjId, NEW c \in Content, NEW survives \in BOOLEAN,
             Report(o, c, survives)
      PROVE  memoryChange' = "yes"
  BY <1>2, ReportFlagged
<1>3. ~Forward
  BY LayoutKept DEF Forward
<1>4. ~UNCHANGED vars
  BY LayoutKept DEF vars
<1>5. QED
  BY <1>1, <1>2, <1>3, <1>4 DEF Next, Observe, RecordAction

(* The promise the loading tables rely on: unless a collection failed, the   *)
(* fed messages change only together with memory_change, or at a reset.     *)
THEOREM LayoutAlwaysFlagged == Spec => LayoutChangeFlagged
<1>1. StoreInv /\ [Next]_vars =>
        [Layout' # Layout /\ failures' = 0 =>
           memoryChange' = "yes" \/ (Layout' = << >> /\ ~tablesBuilt')]_vars
  BY LayoutFlagged
<1>2. QED
  BY <1>1, StoreInvariant, PTL DEF Spec, LayoutChangeFlagged
=============================================================================
