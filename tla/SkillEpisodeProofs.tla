-------------------------- MODULE SkillEpisodeProofs --------------------------
(***************************************************************************)
(* Proofs about SkillEpisode for any objects, scenes, tasks and step limit. *)
(***************************************************************************)
EXTENDS SkillEpisode, Integers, TLAPS

(* The skills, apart from the evaluator's own steps. *)
Skill ==
  \/ \E x \in Things : Find(x)
  \/ \E x \in Items : Pick(x) \/ Slice(x)
  \/ PutDown
  \/ \E x \in Openable \cup Toggleable : \E c \in Conditions(x) : Change(x, c)

LEMMA ConditionKinds ==
  ASSUME NEW x
  PROVE  Conditions(x) \subseteq AllConditions
  BY DEF Conditions

(* What is told of a thing is a message. *)
LEMMA TellKeepsType ==
  ASSUME memory \in [Things -> Message],
         NEW x \in Things,
         NEW s \in AllConditions \cup {Nothing, "seen", "hold by the robot", "sliced"},
         NEW p \in Things \cup {Nothing, "seen", Floor, Hand},
         Tell(x, s, p)
  PROVE  memory' \in [Things -> Message]
  BY DEF Tell, Message

LEMMA DropKeepsType ==
  ASSUME TypeOK, DropHeld
  PROVE  /\ place' \in [Items -> Receptacles \cup {Floor, Hand}]
         /\ memory' \in [Things -> Message]
  <1>1. CASE UNCHANGED <<place, memory>>
    BY <1>1 DEF TypeOK
  <1>2. ASSUME NEW o \in Held, Tell(o, Nothing, Floor),
               \/ place' = [place EXCEPT ![o] = Floor]
               \/ UNCHANGED place
        PROVE  /\ place' \in [Items -> Receptacles \cup {Floor, Hand}]
               /\ memory' \in [Things -> Message]
    <2>1. o \in Things /\ o \in Items
      BY DEF Held, Things
    <2>2. memory' \in [Things -> Message]
      BY <1>2, <2>1, TellKeepsType DEF TypeOK
    <2> QED
      BY <1>2, <2>1, <2>2 DEF TypeOK
  <1> QED
    BY <1>1, <1>2 DEF DropHeld

LEMMA ReplyKeepsType ==
  ASSUME TypeOK, EpisodeAssumption,
         NEW s \in Skills, NEW ok \in BOOLEAN, Reply(s, ok)
  PROVE  /\ phase' = "observe"
         /\ inScene' \in SUBSET Furniture
         /\ prevSteps' \in 0 .. MaxSteps
         /\ reply' \in [skill : Skills, ok : BOOLEAN]
         /\ results' \in Seq({Nothing, "success", "fail"})
  <1>1. prevSteps \in Nat /\ prevSteps < MaxSteps /\ MaxSteps \in Nat
    BY DEF TypeOK, Reply, StepsLeft, EpisodeAssumption
  <1>2. prevSteps' \in 0 .. MaxSteps
    BY <1>1 DEF Reply
  <1> QED
    BY <1>2 DEF TypeOK, Reply

LEMMA PutKeepsType ==
  ASSUME TypeOK, EpisodeAssumption, curReceptacle \in Things, Put
  PROVE  /\ place' \in [Items -> Receptacles \cup {Floor, Hand}]
         /\ memory' \in [Things -> Message]
         /\ \E ok \in BOOLEAN : Reply("put down", ok)
  <1>1. CASE DropHeld /\ Reply("put down", FALSE)
    BY <1>1, DropKeepsType
  <1>2. ASSUME NEW o \in Held, curReceptacle \in Receptacles,
               place' = [place EXCEPT ![o] = curReceptacle],
               Tell(o, Nothing, curReceptacle), Reply("put down", TRUE)
        PROVE  /\ place' \in [Items -> Receptacles \cup {Floor, Hand}]
               /\ memory' \in [Things -> Message]
    <2>1. o \in Things /\ o \in Items
      BY DEF Held, Things
    <2>2. memory' \in [Things -> Message]
      BY <1>2, <2>1, TellKeepsType DEF TypeOK
    <2> QED
      BY <1>2, <2>1, <2>2 DEF TypeOK
  <1>3. ASSUME NEW o \in Held, NEW found \in BOOLEAN, AfterFailedPut(o, found)
        PROVE  /\ place' \in [Items -> Receptacles \cup {Floor, Hand}]
               /\ memory' \in [Things -> Message]
    <2>1. CASE DropHeld
      BY <2>1, DropKeepsType
    <2>2. CASE Tell(o, Nothing, curReceptacle) /\ UNCHANGED place
      <3>1. o \in Things
        BY DEF Held, Things
      <3>2. memory' \in [Things -> Message]
        BY <2>2, <3>1, TellKeepsType DEF TypeOK
      <3> QED
        BY <2>2, <3>2 DEF TypeOK
    <2> QED
      BY <1>3, <2>1, <2>2 DEF AfterFailedPut
  <1> QED
    BY <1>1, <1>2, <1>3 DEF Put

LEMMA SkillKeepsType ==
  ASSUME TypeOK, EpisodeAssumption, Skill
  PROVE  TypeOK'
  <1>1. ASSUME NEW x \in Things, Find(x)
        PROVE  TypeOK'
    <2>1. PICK ok \in BOOLEAN : Reply("find", ok)
      BY <1>1 DEF Find
    <2>2. "find" \in Skills
      BY DEF Skills
    <2> QED
      BY <1>1, <2>1, <2>2, ReplyKeepsType DEF Find, TypeOK
  <1>2. ASSUME NEW x \in Items, Pick(x)
        PROVE  TypeOK'
    <2>1. PICK ok \in BOOLEAN : Reply("pick up", ok)
      BY <1>2 DEF Pick
    <2>2. "pick up" \in Skills
      BY DEF Skills
    <2>3. place' \in [Items -> Receptacles \cup {Floor, Hand}]
      BY <1>2 DEF Pick, TypeOK
    <2>4. memory' \in [Things -> Message]
      <3>1. CASE UNCHANGED memory
        BY <3>1 DEF TypeOK
      <3>2. ASSUME NEW o \in Held, Tell(o, "hold by the robot", Hand)
            PROVE  memory' \in [Things -> Message]
        <4>1. o \in Things
          BY DEF Held, Things
        <4> QED
          BY <3>2, <4>1, TellKeepsType DEF TypeOK
      <3> QED
        BY <1>2, <3>1, <3>2 DEF Pick
    <2> QED
      BY <1>2, <2>1, <2>2, <2>3, <2>4, ReplyKeepsType DEF Pick, TypeOK
  <1>3. ASSUME NEW x \in Items, Slice(x)
        PROVE  TypeOK'
    <2>1. PICK ok \in BOOLEAN : Reply("slice", ok)
      BY <1>3 DEF Slice
    <2>2. "slice" \in Skills /\ x \in Things
      BY DEF Skills, Things
    <2>3. memory' \in [Things -> Message]
      BY <1>3, <2>2, TellKeepsType DEF Slice, TypeOK
    <2> QED
      BY <1>3, <2>1, <2>2, <2>3, ReplyKeepsType DEF Slice, TypeOK
  <1>4. CASE PutDown
    <2>1. curReceptacle # Nothing => curReceptacle \in Things
      BY DEF TypeOK
    <2>2. /\ place' \in [Items -> Receptacles \cup {Floor, Hand}]
          /\ memory' \in [Things -> Message]
          /\ \E ok \in BOOLEAN : Reply("put down", ok)
      BY <1>4, <2>1, DropKeepsType, PutKeepsType DEF PutDown
    <2>3. PICK ok \in BOOLEAN : Reply("put down", ok)
      BY <2>2
    <2>4. "put down" \in Skills
      BY DEF Skills
    <2> QED
      BY <1>4, <2>2, <2>3, <2>4, ReplyKeepsType DEF PutDown, TypeOK
  <1>5. ASSUME NEW x \in Openable \cup Toggleable, NEW c \in Conditions(x), Change(x, c)
        PROVE  TypeOK'
    <2>1. PICK ok \in BOOLEAN : Reply(c, ok)
      BY <1>5 DEF Change
    <2>2. c \in Skills /\ c \in AllConditions /\ x \in Things
      BY ConditionKinds DEF Skills, Things, Furniture
    <2>3. memory' \in [Things -> Message]
      <3>1. CASE UNCHANGED memory
        BY <3>1 DEF TypeOK
      <3>2. CASE Tell(x, c, Nothing)
        BY <2>2, <3>2, TellKeepsType DEF TypeOK
      <3> QED
        BY <1>5, <3>1, <3>2 DEF Change, ToldCondition
    <2>4. condition' \in Settings
      <3>1. condition \in Settings
        BY DEF TypeOK
      <3>2. [condition EXCEPT ![x] = (@ \ {Opposite(c)}) \cup {c}] \in Settings
        BY <2>2, <3>1 DEF Settings
      <3>3. \/ condition' = condition
            \/ condition' = [condition EXCEPT ![x] = (@ \ {Opposite(c)}) \cup {c}]
        BY <1>5 DEF Change
      <3> QED
        BY <3>1, <3>2, <3>3
    <2>5. curReceptacle' \in Things \cup {Nothing}
      BY <1>5 DEF Change, TypeOK
    <2> QED
      BY <1>5, <2>1, <2>2, <2>3, <2>4, <2>5, ReplyKeepsType DEF Change, TypeOK
  <1> QED
    BY <1>1, <1>2, <1>3, <1>4, <1>5 DEF Skill

LEMMA EvaluatorKeepsType ==
  ASSUME TypeOK, EpisodeAssumption,
         BeginTask \/ SkipTask \/ Observe \/ StopPlanning \/ Score \/ Summarise
  PROVE  TypeOK'
  <1>1. ASSUME RestoreScene
        PROVE  /\ inScene' \in SUBSET Furniture
               /\ place' \in [Items -> Receptacles \cup {Floor, Hand}]
               /\ condition' \in Settings
               /\ curReceptacle' \in Things \cup {Nothing}
               /\ sliced' \in BOOLEAN
    BY <1>1 DEF RestoreScene, TypeOK
  <1>2. CASE BeginTask
    <2>1. memory' \in [Things -> Message]
      BY <1>2 DEF BeginTask, Untold, Message
    <2> QED
      BY <1>1, <1>2, <2>1 DEF BeginTask, TypeOK, EpisodeAssumption
  <1>3. CASE SkipTask
    BY <1>1, <1>3 DEF SkipTask, TypeOK
  <1>4. CASE Observe
    <2>1. memory' \in [Things -> Message]
      <3>1. PICK seen \in SUBSET Things : memory' = [x \in Things |->
              IF x \in seen THEN [state |-> "seen", position |-> "seen"] ELSE memory[x]]
        BY <1>4 DEF Observe
      <3>2. [state |-> "seen", position |-> "seen"] \in Message
        BY DEF Message
      <3>3. \A x \in Things : memory[x] \in Message
        BY DEF TypeOK
      <3> QED
        BY <3>1, <3>2, <3>3
    <2>2. reply' \in [skill : Skills, ok : BOOLEAN]
      BY <1>4 DEF Observe, NoReply, Skills
    <2> QED
      BY <1>4, <2>1, <2>2 DEF Observe, TypeOK, scene
  <1>5. CASE StopPlanning
    <2>1. prevSteps' \in 0 .. MaxSteps
      BY <1>5 DEF StopPlanning, StepsLeft, TypeOK, EpisodeAssumption
    <2> QED
      BY <1>5, <2>1 DEF StopPlanning, TypeOK, scene
  <1>6. CASE Score
    BY <1>6 DEF Score, TypeOK, scene
  <1>7. CASE Summarise
    BY <1>7 DEF Summarise, TypeOK, scene
  <1> QED
    BY <1>2, <1>3, <1>4, <1>5, <1>6, <1>7

(* Every variable keeps its type; the steps of a task stay within the limit   *)
(* of plan_step_by_step.                                                   *)
THEOREM TypeCorrect == Spec => []TypeOK
  <1>1. Init => TypeOK
    <2> SUFFICES ASSUME Init PROVE TypeOK
      OBVIOUS
    <2>1. condition \in Settings
      BY ConditionKinds DEF Init, Settings
    <2>2. memory \in [Things -> Message]
      BY DEF Init, Untold, Message
    <2>3. reply \in [skill : Skills, ok : BOOLEAN]
      BY DEF Init, NoReply, Skills
    <2>4. place \in [Items -> Receptacles \cup {Floor, Hand}]
      BY DEF Init
    <2>5. prevSteps \in 0 .. MaxSteps
      BY EpisodeAssumption DEF Init, EpisodeAssumption
    <2>6. results \in Seq({Nothing, "success", "fail"})
      BY DEF Init
    <2>7. /\ phase = "next"
          /\ inScene \in SUBSET Furniture
          /\ curReceptacle \in Things \cup {Nothing}
          /\ sliced \in BOOLEAN
      BY DEF Init
    <2> QED
      BY <2>1, <2>2, <2>3, <2>4, <2>5, <2>6, <2>7 DEF TypeOK
  <1>2. TypeOK /\ [Next]_vars => TypeOK'
    <2> SUFFICES ASSUME TypeOK, [Next]_vars PROVE TypeOK'
      OBVIOUS
    <2>1. CASE Skill
      BY <2>1, EpisodeAssumption, SkillKeepsType
    <2>2. CASE BeginTask \/ SkipTask \/ Observe \/ StopPlanning \/ Score \/ Summarise
      BY <2>2, EpisodeAssumption, EvaluatorKeepsType
    <2>3. CASE UNCHANGED vars
      BY <2>3 DEF TypeOK, vars, scene
    <2> QED
      BY <2>1, <2>2, <2>3 DEF Next, Skill
  <1> QED
    BY <1>1, <1>2, PTL DEF Spec

-----------------------------------------------------------------------------
(* The memory and the world, item by item. *)
Consistent(o) == ToldPlace(o) => place[o] \in {memory[o].position, Hand}

(* Telling a place of an item that is there, or in the hand. *)
LEMMA TellPlace ==
  ASSUME TypeOK, NEW o \in Items, NEW s, NEW p, Tell(o, s, p),
         \/ place' = place /\ place[o] = Hand
         \/ place' = [place EXCEPT ![o] = p],
         \A a \in Items : Consistent(a)
  PROVE  \A a \in Items : Consistent(a)'
  <1> SUFFICES ASSUME NEW a \in Items PROVE Consistent(a)'
    OBVIOUS
  <1>1. o \in Things /\ a \in Things
    BY DEF Things
  <1>2. CASE a = o
    BY <1>1, <1>2 DEF Consistent, ToldPlace, Tell, TypeOK
  <1>3. CASE a # o
    <2>1. memory'[a] = memory[a] /\ place'[a] = place[a]
      BY <1>1, <1>3 DEF Tell, TypeOK
    <2>2. Consistent(a)
      OBVIOUS
    <2> QED
      BY <2>1, <2>2 DEF Consistent, ToldPlace
  <1> QED
    BY <1>2, <1>3

LEMMA DropPlace ==
  ASSUME TypeOK, DropHeld, \A a \in Items : Consistent(a)
  PROVE  \A a \in Items : Consistent(a)'
  <1>1. CASE UNCHANGED <<place, memory>>
    BY <1>1 DEF Consistent, ToldPlace
  <1>2. ASSUME NEW o \in Held, Tell(o, Nothing, Floor),
               \/ place' = [place EXCEPT ![o] = Floor]
               \/ UNCHANGED place
        PROVE  \A a \in Items : Consistent(a)'
    <2>1. o \in Items /\ place[o] = Hand
      BY DEF Held
    <2> QED
      BY <1>2, <2>1, TellPlace
  <1> QED
    BY <1>1, <1>2 DEF DropHeld

LEMMA SkillPlace ==
  ASSUME TypeOK, EpisodeAssumption, Skill, \A a \in Items : Consistent(a)
  PROVE  \A a \in Items : Consistent(a)'
  <1>1. CASE UNCHANGED <<place, memory>>
    BY <1>1 DEF Consistent, ToldPlace
  <1>2. ASSUME NEW x \in Things, Find(x)
        PROVE  UNCHANGED <<place, memory>>
    BY <1>2 DEF Find
  <1>3. ASSUME NEW x \in Items, Pick(x)
        PROVE  \A a \in Items : Consistent(a)'
    <2>1. CASE place' = [place EXCEPT ![x] = Hand] /\ UNCHANGED memory
      BY <2>1 DEF Consistent, ToldPlace, TypeOK
    <2>2. ASSUME UNCHANGED place, NEW o \in Held, Tell(o, "hold by the robot", Hand)
          PROVE  \A a \in Items : Consistent(a)'
      <3>1. o \in Items /\ place[o] = Hand
        BY DEF Held
      <3> QED
        BY <2>2, <3>1, TellPlace
    <2> QED
      BY <1>1, <1>3, <2>1, <2>2 DEF Pick
  <1>4. ASSUME NEW x, NEW s, Tell(x, s, Nothing), UNCHANGED place, x \in Things
        PROVE  \A a \in Items : Consistent(a)'
    <2> SUFFICES ASSUME NEW a \in Items PROVE Consistent(a)'
      OBVIOUS
    <2>1. a \in Things
      BY DEF Things
    <2>2. CASE a = x
      BY <1>4, <2>1, <2>2 DEF Consistent, ToldPlace, Tell, TypeOK
    <2>3. CASE a # x
      <3>1. memory'[a] = memory[a] /\ place'[a] = place[a]
        BY <1>4, <2>1, <2>3 DEF Tell, TypeOK
      <3>2. Consistent(a)
        OBVIOUS
      <3> QED
        BY <3>1, <3>2 DEF Consistent, ToldPlace
    <2> QED
      BY <2>2, <2>3
  <1>5. ASSUME NEW x \in Items, Slice(x)
        PROVE  \A a \in Items : Consistent(a)'
    BY <1>4, <1>5 DEF Slice, Things
  <1>6. ASSUME NEW x \in Openable \cup Toggleable, NEW c \in Conditions(x), Change(x, c)
        PROVE  \A a \in Items : Consistent(a)'
    <2>1. x \in Things
      BY DEF Things, Furniture
    <2> QED
      BY <1>1, <1>4, <1>6, <2>1 DEF Change
  <1>7. ASSUME Put
        PROVE  \A a \in Items : Consistent(a)'
    <2>1. CASE DropHeld
      BY <2>1, DropPlace
    <2>2. ASSUME NEW o \in Held, Tell(o, Nothing, curReceptacle),
                 \/ place' = [place EXCEPT ![o] = curReceptacle]
                 \/ UNCHANGED place
          PROVE  \A a \in Items : Consistent(a)'
      <3>1. o \in Items /\ place[o] = Hand
        BY DEF Held
      <3> QED
        BY <2>2, <3>1, TellPlace
    <2> QED
      BY <1>7, <2>1, <2>2 DEF Put, AfterFailedPut
  <1>8. CASE PutDown
    BY <1>7, <1>8, DropPlace DEF PutDown
  <1> QED
    BY <1>1, <1>2, <1>3, <1>5, <1>6, <1>8 DEF Skill

(* Whatever skills are tried in whatever order and however they fare, what    *)
(* they told the memory of an item's place is its place, or it is held.    *)
THEOREM PlaceToldAlways == Spec => []PlaceTold
  <1>1. Init => PlaceTold
    BY DEF Init, PlaceTold
  <1>2. TypeOK /\ PlaceTold /\ [Next]_vars => PlaceTold'
    <2> SUFFICES ASSUME TypeOK, PlaceTold, [Next]_vars PROVE PlaceTold'
      OBVIOUS
    <2>1. CASE Skill
      <3>1. phase = "plan"
        BY <2>1 DEF Skill, Find, Pick, Slice, PutDown, Put, Change, Reply
      <3>2. \A a \in Items : Consistent(a)
        BY <3>1 DEF PlaceTold, Consistent
      <3>3. \A a \in Items : Consistent(a)'
        BY <2>1, <3>2, EpisodeAssumption, SkillPlace
      <3> QED
        BY <3>3 DEF PlaceTold, Consistent
    <2>2. CASE BeginTask
      <3>1. \A a \in Items : ~ToldPlace(a)'
        BY <2>2 DEF BeginTask, ToldPlace, Untold, Things
      <3> QED
        BY <3>1 DEF PlaceTold
    <2>3. CASE Observe
      <3>1. UNCHANGED place /\ phase = "observe"
        BY <2>3 DEF Observe, scene
      <3>2. ASSUME NEW a \in Items, ToldPlace(a)'
            PROVE  memory'[a] = memory[a] /\ ToldPlace(a)
        BY <2>3, <3>2 DEF Observe, ToldPlace, Things
      <3> QED
        BY <3>1, <3>2 DEF PlaceTold
    <2>4. CASE StopPlanning
      BY <2>4 DEF StopPlanning, PlaceTold, ToldPlace, scene
    <2>5. CASE SkipTask \/ Score \/ Summarise
      BY <2>5 DEF SkipTask, Score, Summarise, PlaceTold
    <2>6. CASE UNCHANGED vars
      BY <2>6 DEF PlaceTold, ToldPlace, vars, scene
    <2> QED
      BY <2>1, <2>2, <2>3, <2>4, <2>5, <2>6 DEF Next, Skill
  <1> QED
    BY <1>1, <1>2, TypeCorrect, PTL DEF Spec

-----------------------------------------------------------------------------
(* What is told when a skill is said to have succeeded. *)

(* Only x is told anything, and what it is told agrees with the scene. *)
LEMMA ToldOfOne ==
  ASSUME TypeOK, NEW x \in Things, NEW s, NEW p, Tell(x, s, p), Agrees(x)'
  PROVE  \A y \in Things : memory'[y] = memory[y] \/ Agrees(y)'
  <1> TAKE y \in Things
  <1>1. CASE y = x
    BY <1>1
  <1>2. CASE y # x
    BY <1>2 DEF Tell, TypeOK
  <1> QED
    BY <1>1, <1>2

(* A reply that says so ends the skill with that word. *)
LEMMA ReplySaid ==
  ASSUME NEW s, NEW ok, Reply(s, ok), reply'.ok
  PROVE  ok
  BY DEF Reply

(* No word for a condition is said of places or of slices. *)
LEMMA WordsApart ==
  /\ Nothing \notin AllConditions /\ "sliced" \notin AllConditions
  /\ Items \subseteq Things
  /\ Openable \cup Toggleable \subseteq Things
BY DEF Nothing, AllConditions, Things, Furniture

LEMMA PutTellsTruth ==
  ASSUME TypeOK, EpisodeAssumption, Put, UNCHANGED condition, reply'.ok
  PROVE  \A y \in Things : memory'[y] = memory[y] \/ Agrees(y)'
  <1>1. PICK o \in Held :
           /\ place' = [place EXCEPT ![o] = curReceptacle]
           /\ Tell(o, Nothing, curReceptacle)
    BY ReplySaid DEF Put
  <1>2. o \in Items /\ o \in Things
    BY WordsApart DEF Held
  <1>3. /\ memory'[o].position = curReceptacle /\ place'[o] = curReceptacle
        /\ memory'[o].state = Nothing
    BY <1>1, <1>2 DEF Tell, TypeOK
  <1>4. Agrees(o)'
    BY <1>3, WordsApart DEF Agrees
  <1> QED
    BY <1>1, <1>2, <1>4, ToldOfOne

LEMMA ChangeTellsTruth ==
  ASSUME TypeOK, EpisodeAssumption, reply'.ok,
         NEW x \in Openable \cup Toggleable, NEW c \in Conditions(x), Change(x, c)
  PROVE  \A y \in Things : memory'[y] = memory[y] \/ Agrees(y)'
  <1>1. /\ Tell(x, c, Nothing)
        /\ condition' = [condition EXCEPT ![x] = (@ \ {Opposite(c)}) \cup {c}]
    BY ReplySaid DEF Change, ToldCondition
  <1>2. x \in Things /\ x \in DOMAIN condition
    BY WordsApart DEF TypeOK, Settings
  <1>3. memory'[x].state = c /\ memory'[x].position = Nothing
    BY <1>1, <1>2 DEF Tell, TypeOK
  <1>4. x \in DOMAIN condition' /\ c \in condition'[x]
    BY <1>1, <1>2
  <1>5. Agrees(x)'
    BY <1>3, <1>4 DEF Agrees, ToldPlace
  <1> QED
    BY <1>1, <1>2, <1>5, ToldOfOne

LEMMA SliceTellsTruth ==
  ASSUME TypeOK, EpisodeAssumption, NEW x \in Items, Slice(x)
  PROVE  \A y \in Things : memory'[y] = memory[y] \/ Agrees(y)'
  <1>1. Tell(x, "sliced", Nothing)
    BY DEF Slice
  <1>2. x \in Things
    BY WordsApart
  <1>3. memory'[x].position = Nothing /\ memory'[x].state = "sliced"
    BY <1>1, <1>2 DEF Tell, TypeOK
  <1>4. Agrees(x)'
    BY <1>3, WordsApart DEF Agrees, ToldPlace
  <1> QED
    BY <1>1, <1>2, <1>4, ToldOfOne

(* A new task forgets what was told, and nothing disagrees with that. *)
LEMMA BeginTellsNothing ==
  ASSUME BeginTask
  PROVE  \A y \in Things : Agrees(y)'
  <1> TAKE y \in Things
  <1>1. memory'[y].position = Nothing /\ memory'[y].state = Nothing
    BY DEF BeginTask, Untold
  <1>2. Nothing \notin AllConditions
    BY WordsApart
  <1> QED
    BY <1>1, <1>2 DEF Agrees, ToldPlace

(* Whatever objects there are, of however many sorts at once, and whatever    *)
(* the scene: when the planner is told that a skill succeeded, what the      *)
(* memory was told of any thing in that step is true.                       *)
THEOREM SuccessToldAlways == Spec => SuccessTold
  <1>1. TypeOK /\ [Next]_vars =>
          [reply'.ok => \A x \in Things : memory'[x] = memory[x] \/ Agrees(x)']_vars
    <2> SUFFICES ASSUME TypeOK, Next, reply'.ok
                 PROVE  \A x \in Things : memory'[x] = memory[x] \/ Agrees(x)'
      OBVIOUS
    <2>1. CASE BeginTask
      BY <2>1, BeginTellsNothing
    <2>2. CASE SkipTask \/ StopPlanning \/ Score \/ Summarise
      BY <2>2 DEF SkipTask, StopPlanning, Score, Summarise
    <2>3. CASE Observe
      BY <2>3 DEF Observe, NoReply
    <2>4. ASSUME NEW x \in Things, Find(x)
          PROVE  UNCHANGED memory
      BY <2>4 DEF Find
    <2>5. ASSUME NEW x \in Items, Pick(x)
          PROVE  UNCHANGED memory
      BY <2>5, ReplySaid DEF Pick
    <2>6. ASSUME NEW x \in Items, Slice(x)
          PROVE  \A y \in Things : memory'[y] = memory[y] \/ Agrees(y)'
      BY <2>6, EpisodeAssumption, SliceTellsTruth
    <2>7. CASE PutDown
      <3>1. Put /\ UNCHANGED condition
        BY <2>7, ReplySaid DEF PutDown
      <3> QED
        BY <3>1, EpisodeAssumption, PutTellsTruth
    <2>8. ASSUME NEW x \in Openable \cup Toggleable,
                 NEW c \in Conditions(x), Change(x, c)
          PROVE  \A y \in Things : memory'[y] = memory[y] \/ Agrees(y)'
      BY <2>8, EpisodeAssumption, ChangeTellsTruth
    <2> QED
      BY <2>1, <2>2, <2>3, <2>4, <2>5, <2>6, <2>7, <2>8 DEF Next
  <1> QED
    BY <1>1, TypeCorrect, PTL DEF Spec, SuccessTold
-----------------------------------------------------------------------------
(* The evaluation is finite. *)
LEMMA TaskLeftType ==
  ASSUME TypeOK, EpisodeAssumption
  PROVE  /\ Len(results) \in Nat /\ NumTasks \in Nat /\ MaxSteps \in Nat /\ prevSteps \in Nat
         /\ PerTask \in Nat /\ Pending \in Int
         /\ TaskLeft \in 0 .. PerTask - 1
  BY DEF TypeOK, EpisodeAssumption, PerTask, Pending, TaskLeft, InTask

(* A skill is a step of the planner, and the next picture is looked at. *)
LEMMA SkillCounts ==
  ASSUME TypeOK, EpisodeAssumption, Skill
  PROVE  /\ phase = "plan" /\ phase' = "observe" /\ StepsLeft
         /\ prevSteps' = prevSteps + 1 /\ results' = results
  <1>1. \E skill, ok : Reply(skill, ok)
    <2>1. ASSUME NEW x \in Things, Find(x)
          PROVE  \E skill, ok : Reply(skill, ok)
      BY <2>1 DEF Find
    <2>2. ASSUME NEW x \in Items, Pick(x) \/ Slice(x)
          PROVE  \E skill, ok : Reply(skill, ok)
      BY <2>2 DEF Pick, Slice
    <2>3. ASSUME PutDown
          PROVE  \E skill, ok : Reply(skill, ok)
      BY <2>3 DEF PutDown, Put
    <2>4. ASSUME NEW x \in Openable \cup Toggleable, NEW c \in Conditions(x), Change(x, c)
          PROVE  \E skill, ok : Reply(skill, ok)
      BY <2>4 DEF Change
    <2> QED
      BY <2>1, <2>2, <2>3, <2>4 DEF Skill
  <1> QED
    BY <1>1 DEF Reply

(* The part of the measure a step changes: a task is begun, worked on or     *)
(* ended.                                                                  *)
LEMMA EvaluationParts ==
  ASSUME TypeOK, EpisodeAssumption, Next
  PROVE  \/ /\ Pending' = Pending - 1 /\ phase = "next" /\ phase' \in {"next", "observe"}
         \/ /\ Pending' = Pending /\ InTask /\ phase' \in {"next", "observe", "plan", "score"}
            /\ TaskLeft' < TaskLeft
         \/ /\ Pending' = Pending /\ phase = "next" /\ phase' \in {"summed", "raised"}
  <1> USE DEF Pending, InTask
  <1>0. Len(results) \in Nat /\ NumTasks \in Nat /\ prevSteps \in 0 .. MaxSteps /\ MaxSteps \in Nat
    BY DEF TypeOK, EpisodeAssumption
  <1>1. CASE BeginTask
    BY <1>0, <1>1 DEF BeginTask
  <1>2. CASE SkipTask \/ Score
    <2>1. \E r : results' = Append(results, r) /\ r \in {Nothing, "success", "fail"}
      BY <1>2 DEF SkipTask, Score
    <2>2. Len(results') = Len(results) + 1
      BY <2>1 DEF TypeOK
    <2>3. CASE SkipTask
      BY <1>0, <2>2, <2>3 DEF SkipTask
    <2>4. CASE Score
      <3>1. phase = "score" /\ phase' = "next" /\ Pending' = Pending
        BY <1>0, <2>2, <2>4 DEF Score
      <3>2. TaskLeft' < TaskLeft
        BY <1>0, <3>1 DEF TaskLeft
      <3> QED
        BY <3>1, <3>2
    <2> QED
      BY <1>2, <2>3, <2>4
  <1>3. CASE Observe
    <2>1. /\ phase = "observe" /\ phase' = "plan" /\ Pending' = Pending
          /\ UNCHANGED <<prevSteps, results>>
      BY <1>3 DEF Observe
    <2>2. TaskLeft' < TaskLeft
      BY <1>0, <2>1 DEF TaskLeft
    <2> QED
      BY <2>1, <2>2
  <1>4. CASE StopPlanning
    <2>1. /\ phase = "plan" /\ phase' = "score" /\ Pending' = Pending
          /\ prevSteps' \in {prevSteps, prevSteps + 1}
      BY <1>4 DEF StopPlanning
    <2>2. TaskLeft' < TaskLeft
      BY <1>0, <2>1 DEF TaskLeft
    <2> QED
      BY <2>1, <2>2
  <1>5. CASE Summarise
    BY <1>0, <1>5 DEF Summarise
  <1>6. CASE Skill
    <2>1. /\ phase = "plan" /\ phase' = "observe" /\ prevSteps' = prevSteps + 1
          /\ results' = results
      BY <1>6, SkillCounts
    <2>2. TaskLeft' < TaskLeft
      BY <1>0, <2>1 DEF TaskLeft
    <2> QED
      BY <2>1, <2>2
  <1> QED
    BY <1>1, <1>2, <1>3, <1>4, <1>5, <1>6 DEF Next, Skill

LEMMA OneTaskLess ==
  ASSUME NEW k \in Nat, NEW t \in Int
  PROVE  k * (t - 1) = k * t - k /\ k * t \in Int
  OBVIOUS

LEMMA NextTaskCosts ==
  ASSUME NEW m \in Int, NEW k \in Nat, NEW a \in 0 .. k - 1, NEW b \in 0 .. k - 1
  PROVE  /\ m - k + b + 1 < m + a + 1
         /\ b < a => m + b + 1 < m + a + 1
  OBVIOUS

LEMMA EvaluationStep ==
  ASSUME TypeOK, TypeOK', EpisodeAssumption, Next
  PROVE  EvaluationLeft' < EvaluationLeft
  <1>1. PICK k : k = PerTask
    OBVIOUS
  <1>2. /\ k \in Nat /\ Pending \in Int /\ TaskLeft \in 0 .. k - 1
    BY <1>1, TaskLeftType
  <1>3. TaskLeft' \in 0 .. k - 1
    <2>1. prevSteps' \in 0 .. MaxSteps /\ MaxSteps \in Nat
      BY DEF TypeOK, EpisodeAssumption
    <2> QED
      BY <1>1, <2>1 DEF TaskLeft, InTask, PerTask
  <1>4. PICK m : m = k * Pending
    OBVIOUS
  <1>5. m \in Int
    BY <1>2, <1>4, OneTaskLess
  <1>6. /\ EvaluationLeft = m + TaskLeft + IF phase \in {"summed", "raised"} THEN 0 ELSE 1
        /\ EvaluationLeft' = k * Pending' + TaskLeft'
                               + IF phase' \in {"summed", "raised"} THEN 0 ELSE 1
    BY <1>1, <1>4 DEF EvaluationLeft, PerTask
  <1>7. CASE Pending' = Pending - 1 /\ phase = "next" /\ phase' \in {"next", "observe"}
    <2>1. k * Pending' = m - k
      BY <1>2, <1>4, <1>7, OneTaskLess
    <2>2. EvaluationLeft' = m - k + TaskLeft' + 1 /\ EvaluationLeft = m + TaskLeft + 1
      BY <1>6, <1>7, <2>1
    <2> QED
      BY <1>2, <1>3, <1>5, <2>2, NextTaskCosts
  <1>8. CASE /\ Pending' = Pending /\ InTask /\ phase' \in {"next", "observe", "plan", "score"}
             /\ TaskLeft' < TaskLeft
    <2>1. k * Pending' = m
      BY <1>4, <1>8
    <2>2. EvaluationLeft' = m + TaskLeft' + 1 /\ EvaluationLeft = m + TaskLeft + 1
      BY <1>6, <1>8, <2>1 DEF InTask
    <2> QED
      BY <1>2, <1>3, <1>5, <1>8, <2>2, NextTaskCosts
  <1>9. CASE Pending' = Pending /\ phase = "next" /\ phase' \in {"summed", "raised"}
    <2>1. k * Pending' = m
      BY <1>4, <1>9
    <2>2. TaskLeft' = 0 /\ TaskLeft = 0
      BY <1>9 DEF TaskLeft, InTask
    <2>3. EvaluationLeft' = m + 0 + 0 /\ EvaluationLeft = m + 0 + 1
      BY <1>6, <1>9, <2>1, <2>2
    <2> QED
      BY <1>5, <2>3
  <1> QED
    BY <1>7, <1>8, <1>9, EvaluationParts

LEMMA CountsStay ==
  ASSUME TypeOK, EpisodeAssumption, TasksCounted, [Next]_vars
  PROVE  TasksCounted'
  <1>1. CASE UNCHANGED vars
    BY <1>1 DEF vars, TasksCounted, Pending, InTask
  <1>2. CASE BeginTask \/ SkipTask
    <2>1. Len(results) < NumTasks /\ phase = "next" /\ Len(results) \in Nat /\ NumTasks \in Nat
      BY <1>2 DEF BeginTask, SkipTask, TypeOK, EpisodeAssumption
    <2>2. Pending >= 1 /\ Pending \in Nat
      BY <2>1 DEF Pending, InTask
    <2>3. Pending' = Pending - 1
      BY <1>2, <2>1, EvaluationParts DEF Next, InTask, BeginTask, SkipTask
    <2> QED
      BY <2>2, <2>3 DEF TasksCounted
  <1>3. CASE Observe \/ StopPlanning \/ Score \/ Summarise \/ Skill
    <2>1. phase # "next" \/ phase' \in {"summed", "raised"}
      BY <1>3, SkillCounts DEF Observe, StopPlanning, Score, Summarise
    <2>2. Pending' = Pending
      BY <1>3, <2>1, EvaluationParts DEF Next, Skill
    <2> QED
      BY <2>2 DEF TasksCounted
  <1> QED
    BY <1>1, <1>2, <1>3 DEF Next, Skill

(* Whatever the planner chooses and the simulator makes of it, the evaluation *)
(* ends after at most PerTask steps for each task and one for the summary.  *)
THEOREM EvaluationsAreFinite == Spec => [](EvaluationLeft \in Nat) /\ EvaluationIsFinite
  <1>1. Init => TasksCounted
    BY EpisodeAssumption DEF Init, TasksCounted, Pending, InTask, EpisodeAssumption
  <1>2. TypeOK /\ TasksCounted => EvaluationLeft \in Nat
    <2> SUFFICES ASSUME TypeOK, TasksCounted PROVE EvaluationLeft \in Nat
      OBVIOUS
    <2>1. PerTask \in Nat /\ Pending \in Nat /\ TaskLeft \in Nat
      BY EpisodeAssumption, TaskLeftType DEF TasksCounted
    <2>2. PerTask * Pending \in Nat
      BY <2>1
    <2> QED
      BY <2>1, <2>2 DEF EvaluationLeft
  <1>3. TypeOK /\ TypeOK' /\ [Next]_vars => [EvaluationLeft' < EvaluationLeft]_vars
    BY EpisodeAssumption, EvaluationStep
  <1>4. Spec => []TasksCounted
    <2>1. TypeOK /\ TasksCounted /\ [Next]_vars => TasksCounted'
      BY EpisodeAssumption, CountsStay
    <2> QED
      BY <1>1, <2>1, TypeCorrect, PTL DEF Spec
  <1> QED
    BY <1>2, <1>3, <1>4, TypeCorrect, PTL DEF Spec, EvaluationIsFinite
=============================================================================
