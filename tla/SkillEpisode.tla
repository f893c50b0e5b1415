---------------------------- MODULE SkillEpisode ----------------------------
(***************************************************************************)
(* The evaluation of tasks on ALFRED: AlfredEvaluator runs the skills the   *)
(* planner chooses through ThorConnector, which tries them on the simulator *)
(* and says what became of them; the memory is told of the object a skill  *)
(* was about, and the planner of the skill's message.  At the end the       *)
(* results of all tasks are counted.                                       *)
(*                                                                         *)
(* The simulator is external: an attempt succeeds or fails as it likes, but *)
(* a robot holds one object, nothing comes to be inside itself, and what is *)
(* in an object that is moved stays in it.  Every kind of object is there   *)
(* once, and may be of several sorts: a box is picked up, opened and put    *)
(* things in, a microwave is opened and turned on.  What the memory does    *)
(* with what it is told is MemoryStore's; here a message replaces the one   *)
(* before, and no collection fails.                                        *)
(***************************************************************************)
EXTENDS Naturals, Sequences, FiniteSets

CONSTANTS
  Items,        \* alfred_pick_obj: what can be picked up
  Receptacles,  \* alfred_recep: where it can be put
  Openable,     \* alfred_open_obj
  Toggleable,   \* alfred_toggle_obj
  ShortNames,   \* kinds whose names have at most four letters
  NumTasks,     \* tasks to evaluate
  MaxSteps,     \* cfg.planner.max_steps
  DropCanFail   \* the simulator may refuse a forced drop

Floor == "floor"
Hand == "hand"
Nothing == "none"
Furniture == (Receptacles \cup Openable \cup Toggleable) \ Items
Things == Items \cup Furniture

ASSUME EpisodeAssumption ==
  /\ {Floor, Hand, Nothing, "seen"} \cap Things = {}
  /\ ShortNames \subseteq Things
  /\ NumTasks \in Nat
  /\ MaxSteps \in Nat
  /\ DropCanFail \in BOOLEAN

VARIABLES
  phase,         \* of evaluate_main: next, observe, plan, score, and its ends
  inScene,       \* furniture of this scene
  place,         \* where the items are
  condition,     \* conditions of what can be opened or turned on
  curReceptacle, \* cur_receptacle: what was found last
  sliced,        \* self.sliced: prefer slices
  memory,        \* state and position as the memory was told them
  prevSteps,     \* len(prev_steps)
  reply,         \* the skill just run, and whether it was said to succeed
  results        \* of the tasks so far; Nothing: None was returned

scene == <<inScene, place, condition>>
vars == <<phase, scene, curReceptacle, sliced, memory, prevSteps, reply, results>>

Untold == [state |-> Nothing, position |-> Nothing]
NoReply == [skill |-> Nothing, ok |-> FALSE]

Held == {o \in Items : place[o] = Hand}
Present == Items \cup inScene

(* No items hold each other in a circle. *)
NoCycle(p) == \A S \in (SUBSET Items) \ {{}} : \E o \in S : p[o] \notin S

AllConditions == {"opened", "closed", "turned on", "turned off"}
Conditions(x) ==
  {c \in AllConditions : IF c \in {"opened", "closed"}
                         THEN x \in Openable ELSE x \in Toggleable}
Opposite(c) == CASE c = "opened" -> "closed"
                 [] c = "closed" -> "opened"
                 [] c = "turned on" -> "turned off"
                 [] OTHER -> "turned on"

AtRest == {"closed", "turned off"}

Settings == [Openable \cup Toggleable -> SUBSET AllConditions]

(* Open or closed, on or off. *)
Settled(s) ==
  \A x \in DOMAIN s :
    /\ s[x] \subseteq Conditions(x)
    /\ \A c \in Conditions(x) : c \in s[x] <=> Opposite(c) \notin s[x]

-----------------------------------------------------------------------------
(* Tasks. *)

(* reset and restore_scene: sliced stays as it was. *)
RestoreScene ==
  /\ inScene' \in SUBSET Furniture
  /\ place' \in [Items -> (Present' \cap Receptacles) \cup {Floor}]
  /\ NoCycle(place')
  /\ condition' \in {s \in Settings : Settled(s)}
  /\ curReceptacle' = Nothing
  /\ UNCHANGED sliced

Init ==
  /\ phase = "next"
  /\ inScene = {}
  /\ place = [o \in Items |-> Floor]
  /\ condition = [x \in Openable \cup Toggleable |->
                    Conditions(x) \cap AtRest]
  /\ curReceptacle = Nothing
  /\ sliced = FALSE
  /\ memory = [x \in Things |-> Untold]
  /\ prevSteps = 0
  /\ reply = NoReply
  /\ results = << >>

BeginTask ==
  /\ phase = "next" /\ Len(results) < NumTasks
  /\ RestoreScene
  /\ memory' = [x \in Things |-> Untold]
  /\ prevSteps' = 0
  /\ phase' = "observe"
  /\ UNCHANGED <<reply, results>>

(* The instruction names neither the object nor the place: the task returns  *)
(* None before the memory is reset.                                        *)
SkipTask ==
  /\ phase = "next" /\ Len(results) < NumTasks
  /\ RestoreScene
  /\ results' = Append(results, Nothing)
  /\ UNCHANGED <<phase, memory, prevSteps, reply>>

(* The vision-language model's words about what is in the picture. *)
Observe ==
  /\ phase = "observe"
  /\ \E seen \in SUBSET Things :
       memory' = [x \in Things |->
         IF x \in seen THEN [state |-> "seen", position |-> "seen"] ELSE memory[x]]
  /\ reply' = NoReply
  /\ phase' = "plan"
  /\ UNCHANGED <<scene, curReceptacle, sliced, prevSteps, results>>

(* Mutant: one step too many. *)
StepsLeftOneMore == prevSteps < MaxSteps + 1

(* plan_step_by_step returns None from max_steps on. *)
StepsLeft == prevSteps < MaxSteps

StopPlanning ==
  /\ phase = "plan"
  /\ \/ ~StepsLeft /\ UNCHANGED prevSteps
     \/ StepsLeft /\ prevSteps' = prevSteps + 1   \* the skill "done"
  /\ phase' = "score"
  /\ UNCHANGED <<scene, curReceptacle, sliced, memory, reply, results>>

Score ==
  /\ phase = "score"
  /\ \E goal \in {"success", "fail"} : results' = Append(results, goal)
  /\ phase' = "next"
  /\ UNCHANGED <<scene, curReceptacle, sliced, memory, prevSteps, reply>>

(* evaluate counts e['success'] over the results, None among them. *)
Summarise ==
  /\ phase = "next" /\ Len(results) = NumTasks
  /\ phase' = IF \E t \in DOMAIN results : results[t] = Nothing
              THEN "raised" ELSE "summed"
  /\ UNCHANGED <<scene, curReceptacle, sliced, memory, prevSteps, reply, results>>

-----------------------------------------------------------------------------
(* Skills.  What the memory is told is told whatever became of the skill.    *)

Tell(x, state, position) ==
  memory' = [memory EXCEPT ![x] = [state |-> state, position |-> position]]

(* Mutant: a step that failed is not kept. *)
ReplyUncounted(skill, ok) ==
  /\ phase = "plan" /\ StepsLeft
  /\ reply' = [skill |-> skill, ok |-> ok]
  /\ prevSteps' = IF ok THEN prevSteps + 1 ELSE prevSteps
  /\ phase' = "observe"
  /\ UNCHANGED <<inScene, results>>

Reply(skill, ok) ==
  /\ phase = "plan" /\ StepsLeft
  /\ reply' = [skill |-> skill, ok |-> ok]
  /\ prevSteps' = prevSteps + 1
  /\ phase' = "observe"
  /\ UNCHANGED <<inScene, results>>

(* nav_obj; the object found becomes cur_receptacle even if it was not. *)
Find(x) ==
  /\ \E ok \in BOOLEAN : Reply("find", ok) /\ (ok => x \in Present)
  /\ curReceptacle' = x
  /\ UNCHANGED <<place, condition, sliced, memory>>

(* pick names the object in the hand when that is why it failed, and none    *)
(* when it succeeded.                                                      *)
Pick(x) ==
  /\ \/ /\ Reply("pick up", TRUE)
        /\ Held = {}
        /\ place' = [place EXCEPT ![x] = Hand]
        /\ UNCHANGED memory
     \/ /\ Reply("pick up", FALSE)
        /\ UNCHANGED place
        /\ UNCHANGED memory \/ \E o \in Held : Tell(o, "hold by the robot", Hand)
  /\ curReceptacle' = Nothing
  /\ UNCHANGED <<condition, sliced>>

(* drop: the message is never empty, so the skill is said to have failed. A   *)
(* second drop after one that failed adds no outcome.                      *)
DropHeld ==
  \/ /\ Held = {}
     /\ UNCHANGED <<place, memory>>
  \/ \E o \in Held :
       /\ Tell(o, Nothing, Floor)
       /\ \/ place' = [place EXCEPT ![o] = Floor]
          \/ DropCanFail /\ UNCHANGED place

(* Mutant: the memory is told the outcome of put, not of the drop after it. *)
AfterFailedPutToldFirst(o, found) ==
  /\ Tell(o, Nothing, curReceptacle)
  /\ place' = [place EXCEPT ![o] = Floor]

(* The drop after a put that failed hangs on the length of the message:      *)
(* "Cannot find Sofa" has sixteen letters.                                 *)
AfterFailedPut(o, found) ==
  IF found \/ curReceptacle \notin ShortNames
  THEN DropHeld
  ELSE Tell(o, Nothing, curReceptacle) /\ UNCHANGED place

(* put: fourteen attempts on the nearest receptacle of that name, fourteen on *)
(* the next.  "found": the last attempt had a receptacle to try.           *)
Put ==
  \/ Held = {} /\ DropHeld /\ Reply("put down", FALSE)
  \/ \E o \in Held :
       \/ /\ curReceptacle \in Receptacles \cap Present
          /\ place' = [place EXCEPT ![o] = curReceptacle]
          /\ NoCycle(place')
          /\ Tell(o, Nothing, curReceptacle)
          /\ Reply("put down", TRUE)
       \/ /\ \E found \in BOOLEAN :
               /\ found => curReceptacle \in Present
               /\ AfterFailedPut(o, found)
          /\ Reply("put down", FALSE)

(* Whatever object the skill names, the one in the hand is put down. *)
PutDown ==
  /\ \/ curReceptacle = Nothing /\ DropHeld /\ Reply("put down", FALSE)
     \/ curReceptacle # Nothing /\ Put
  /\ UNCHANGED <<condition, curReceptacle, sliced>>

(* Mutant: the word of the opposite skill. *)
ToldOpposite(x, c) == Opposite(c)

(* 'opened', 'closed', 'turned on', 'turned off' *)
ToldCondition(x, c) == c

(* open, close, toggleon, toggleoff *)
Change(x, c) ==
  /\ \/ /\ x \in Present
        /\ Tell(x, ToldCondition(x, c), Nothing)
        /\ \/ /\ condition' = [condition EXCEPT ![x] = (@ \ {Opposite(c)}) \cup {c}]
              /\ Reply(c, TRUE)
           \/ UNCHANGED condition /\ Reply(c, FALSE)
     \/ /\ x \notin Present
        /\ UNCHANGED <<memory, condition>>
        /\ Reply(c, FALSE)
  /\ curReceptacle' = IF c = "opened" THEN curReceptacle ELSE Nothing
  /\ UNCHANGED <<place, sliced>>

Slice(x) ==
  /\ \E ok \in BOOLEAN : Reply("slice", ok)
  /\ Tell(x, "sliced", Nothing)
  /\ sliced' = TRUE
  /\ curReceptacle' = Nothing
  /\ UNCHANGED <<place, condition>>

Next ==
  \/ BeginTask \/ SkipTask \/ Observe \/ StopPlanning \/ Score \/ Summarise
  \/ \E x \in Things : Find(x)
  \/ \E x \in Items : Pick(x) \/ Slice(x)
  \/ PutDown
  \/ \E x \in Openable \cup Toggleable : \E c \in Conditions(x) : Change(x, c)

Spec == Init /\ [][Next]_vars

(* The evaluator is one thread that nothing waits for. *)
FairSpec == Spec /\ WF_vars(Next)

-----------------------------------------------------------------------------
Message ==
  [state : AllConditions \cup {Nothing, "seen", "hold by the robot", "sliced"},
   position : Things \cup {Nothing, "seen", Floor, Hand}]
Skills == AllConditions \cup {Nothing, "find", "pick up", "put down", "slice"}

TypeOK ==
  /\ phase \in {"next", "observe", "plan", "score", "summed", "raised"}
  /\ inScene \in SUBSET Furniture
  /\ place \in [Items -> Receptacles \cup {Floor, Hand}]
  /\ condition \in Settings
  /\ curReceptacle \in Things \cup {Nothing}
  /\ sliced \in BOOLEAN
  /\ memory \in [Things -> Message]
  /\ prevSteps \in 0 .. MaxSteps
  /\ reply \in [skill : Skills, ok : BOOLEAN]
  /\ results \in Seq({Nothing, "success", "fail"})

ToldPlace(o) == memory[o].position \notin {Nothing, "seen"}

(* What the skills of a task told the memory of an item's place is where the *)
(* item is, or else the robot holds it by now: picking something up is not  *)
(* told, but every way an item leaves the hand is.                         *)
PlaceTold ==
  phase \in {"observe", "plan", "score"} =>
    \A o \in Items : ToldPlace(o) => place[o] \in {memory[o].position, Hand}

(* A skill the planner is told has succeeded told the memory the truth, of   *)
(* places and of conditions alike.  (One that failed may well have told it  *)
(* that the fridge is open.)                                               *)
Agrees(x) ==
  /\ x \in Items /\ ToldPlace(x) => place[x] = memory[x].position
  /\ memory[x].state \in AllConditions
       => x \in DOMAIN condition /\ memory[x].state \in condition[x]
SuccessTold ==
  [][reply'.ok => \A x \in Things : memory'[x] = memory[x] \/ Agrees(x)']_vars

(* However its skills fare, a task ends, by the planner's word or by the     *)
(* limit of steps, and its result is recorded.                             *)
TaskEnds == phase = "observe" ~> phase = "next"

(* A comment of llm_skill_interact: if put down failed, then drop the object. *)
FailedPutDrops == reply.skill = "put down" /\ ~reply.ok => Held = {}
-----------------------------------------------------------------------------
(* What is left of the evaluation: the tasks not begun, and of the task in    *)
(* hand an observation and a skill for each step up to the limit.          *)
InTask == phase \in {"observe", "plan", "score"}
Pending == NumTasks - Len(results) - IF InTask THEN 1 ELSE 0

PerTask == 2 * MaxSteps + 4
TaskLeft ==
  IF InTask
  THEN 2 * (MaxSteps - prevSteps)
         + CASE phase = "observe" -> 3 [] phase = "plan" -> 2 [] OTHER -> 1
  ELSE 0

EvaluationLeft ==
  PerTask * Pending + TaskLeft + IF phase \in {"summed", "raised"} THEN 0 ELSE 1

(* However the simulator and the planner behave, the evaluation of all tasks *)
(* comes to its summary: each of its steps leaves fewer to take.            *)
EvaluationIsFinite == [][EvaluationLeft' < EvaluationLeft]_vars

(* The task in hand is one of those to evaluate. *)
TasksCounted == Pending \in Nat
=============================================================================
