---------------------------- MODULE MemoryStore ----------------------------
(***************************************************************************)
(* The object memory of overall_kv_schedule: messages about the objects of *)
(* a scene, kept in lists that run in parallel, refreshed by what the      *)
(* robot sees and does, and cut to the kv_capacity messages nearest to the *)
(* task when a forward is fed.                                             *)
(*                                                                         *)
(* Collecting the keys and values of a message runs the model and may      *)
(* raise.  Raised while an observation is added, the exception is swallowed *)
(* by the evaluator with the lists half changed; raised while an action is *)
(* recorded, it ends the evaluation.                                       *)
(***************************************************************************)
EXTENDS Naturals, FiniteSets, SequencesExt

CONSTANTS
  ObjId,        \* objectId of the simulator
  NoId,         \* message_kv.id before it is assigned
  Content,      \* what a message may say
  NoContent,    \* nothing was reported of an object yet
  Query,        \* the instruction of an episode
  Length,       \* content -> number of tokens
  Similarity,   \* query -> content -> similarity
  StaticLength, \* number of tokens of static_prompt
  KvCapacity,   \* kv_capacity
  MaxPlace,     \* bound on position_embedding_place_objects
  MaxFailures   \* bound on the failed collections of an episode

ASSUME StoreAssumption ==
  /\ NoId \notin ObjId
  /\ NoContent \notin Content
  /\ Length \in [Content -> Nat \ {0}]
  /\ Similarity \in [Query -> [Content -> Nat]]
  /\ StaticLength \in Nat
  /\ KvCapacity \in Nat \ {0}
  /\ MaxPlace \in Nat
  /\ MaxFailures \in Nat

NoPlace == << >>

VARIABLES
  messages,     \* messages_objects; place NoPlace: nothing was collected
  similarity,   \* similarity_objects
  kvPlaces,     \* kv_places
  place,        \* position_embedding_place_objects
  query,        \* what query_semantic_vector was made from
  memoryChange, \* memory_change: None, False, True
  tablesBuilt,  \* the loading tables of this episode exist
  alive,        \* the evaluation goes on
  reported,     \* history: the content last reported of each object
  failures      \* history: failed collections of this episode

storeVars == <<messages, similarity, kvPlaces, place, query, alive, reported,
               failures>>
vars == <<messages, similarity, kvPlaces, place, query, memoryChange,
          tablesBuilt, alive, reported, failures>>

(* Mutant: the last message is not looked at. *)
IndexOfAllButLast(o) ==
  {i \in DOMAIN messages : messages[i].id = o /\ i < Len(messages)}

Identified == {i \in DOMAIN messages : messages[i].id # NoId}
IndexOf(o) == {i \in DOMAIN messages : messages[i].id = o}

-----------------------------------------------------------------------------
(* What a forward is fed. *)

(* Mutant: without reverse=True. *)
PrecedesReversed(i, j) ==
  similarity[i] < similarity[j] \/ (similarity[i] = similarity[j] /\ i < j)

(* sorted(..., reverse=True) is stable: equal similarities keep their order. *)
Precedes(i, j) ==
  similarity[i] > similarity[j] \/ (similarity[i] = similarity[j] /\ i < j)

SortedIndices ==
  CHOOSE s \in [DOMAIN similarity -> DOMAIN similarity] :
    \A k, n \in DOMAIN similarity : k < n => Precedes(s[k], s[n])

(* At most kv_capacity of them. *)
FedCount == IF KvCapacity < Len(similarity) THEN KvCapacity ELSE Len(similarity)
FedIndices == [k \in 1 .. FedCount |-> SortedIndices[k]]

Layout == [k \in DOMAIN FedIndices |-> messages[FedIndices[k]].content]

-----------------------------------------------------------------------------
(* The first episode's reset, get_query_semantic and get_static_kv_vllm. *)
Init ==
  /\ messages = << >>
  /\ similarity = << >>
  /\ kvPlaces = << >>
  /\ place = StaticLength
  /\ query \in Query
  /\ memoryChange = "none"
  /\ tablesBuilt = FALSE
  /\ alive = TRUE
  /\ reported = [o \in ObjId |-> NoContent]
  /\ failures = 0

(* reset: the lists, the counter and the flag start over; static_kv stays. *)
NewEpisode(q) ==
  /\ alive
  /\ messages' = << >>
  /\ similarity' = << >>
  /\ kvPlaces' = << >>
  /\ place' = StaticLength
  /\ query' = q
  /\ memoryChange' = "none"
  /\ tablesBuilt' = FALSE
  /\ reported' = [o \in ObjId |-> NoContent]
  /\ failures' = 0
  /\ UNCHANGED alive

(* Mutants: the caller does not assign the id; content and id are swapped. *)
MessageUnnamed(o, c, p) == [id |-> NoId, content |-> c, place |-> p]
MessageSwapped(o, c, p) == [id |-> c, content |-> o, place |-> p]

Message(o, c, p) == [id |-> o, content |-> c, place |-> p]

(* Mutant: memory_change is not raised. *)
CollectedUnflagged(o, c, msgs, sims, places) ==
  LET span == <<place, place + Length[c]>> IN
  /\ span[2] <= MaxPlace
  /\ messages' = Append(msgs, Message(o, c, span))
  /\ kvPlaces' = Append(places, span)
  /\ place' = span[2]
  /\ similarity' = Append(sims, Similarity[query][c])
  /\ UNCHANGED <<memoryChange, alive, failures>>

(* add_message_objects onto lists that may just have lost a message, and    *)
(* the assignment of the id by its caller.                                 *)
Collected(o, c, msgs, sims, places) ==
  LET span == <<place, place + Length[c]>> IN
  /\ span[2] <= MaxPlace
  /\ messages' = Append(msgs, Message(o, c, span))
  /\ kvPlaces' = Append(places, span)
  /\ place' = span[2]
  /\ similarity' = Append(sims, Similarity[query][c])
  /\ memoryChange' = "yes"
  /\ UNCHANGED <<alive, failures>>

(* The collection raises after messages_objects.append. *)
CollectionRaises(c, msgs, sims, places) ==
  /\ failures < MaxFailures
  /\ failures' = failures + 1
  /\ messages' = Append(msgs, Message(NoId, c, NoPlace))
  /\ similarity' = sims
  /\ kvPlaces' = places
  /\ UNCHANGED <<place, memoryChange>>

(* An object the memory does not hold is added. *)
Add(o, c, survives) ==
  /\ IndexOf(o) = {}
  /\ \/ Collected(o, c, messages, similarity, kvPlaces)
     \/ /\ CollectionRaises(c, messages, similarity, kvPlaces)
        /\ alive' = survives

(* Mutant: the last place goes, whatever message was refreshed. *)
PlaceIndexLast(p) == Len(kvPlaces)

PlaceIndex(p) == CHOOSE n \in DOMAIN kvPlaces :
  kvPlaces[n] = p /\ \A m \in DOMAIN kvPlaces : kvPlaces[m] = p => n <= m

(* An object reported otherwise than before: its message is taken out of    *)
(* the three lists and added anew.  When similarity_objects is short, its  *)
(* del raises with the other two lists already changed.                    *)
Refresh(o, c, survives) ==
  \E i \in IndexOf(o) :
    LET places == RemoveAt(kvPlaces, PlaceIndex(messages[i].place))
        msgs == RemoveAt(messages, i)
    IN
    /\ \A j \in IndexOf(o) : i <= j
    /\ messages[i].content # c
    /\ \/ /\ i \in DOMAIN similarity
          /\ \/ Collected(o, c, msgs, RemoveAt(similarity, i), places)
             \/ /\ CollectionRaises(c, msgs, RemoveAt(similarity, i), places)
                /\ alive' = survives
       \/ /\ i \notin DOMAIN similarity
          /\ messages' = msgs
          /\ kvPlaces' = places
          /\ alive' = survives
          /\ UNCHANGED <<similarity, place, memoryChange, failures>>

(* An object reported as it is remembered: nothing to do. *)
Keep(o, c) ==
  /\ \E i \in IndexOf(o) :
       /\ \A j \in IndexOf(o) : i <= j
       /\ messages[i].content = c
  /\ UNCHANGED <<messages, similarity, kvPlaces, place, memoryChange, alive,
                 failures>>

Report(o, c, survives) ==
  /\ alive
  /\ Add(o, c, survives) \/ Refresh(o, c, survives) \/ Keep(o, c)
  /\ reported' = [reported EXCEPT ![o] = c]
  /\ UNCHANGED <<query, tablesBuilt>>

(* add_message_objects_by_observation, called under a bare except. *)
Observe(o, c) == Report(o, c, TRUE)

(* add_message_objects_by_action, called under none. *)
RecordAction(o, c) == Report(o, c, FALSE)

(* reset_start and reset_step on the flag. *)
FlagAfterReset ==
  IF ~tablesBuilt /\ memoryChange = "yes" THEN "yes" ELSE "no"

(* A forward is fed and rebuilds its tables.  A fed message without keys may *)
(* raise in get_input_ids_vllm or, later, in a thread nobody watches.      *)
Forward ==
  /\ alive
  /\ tablesBuilt' = TRUE
  /\ memoryChange' = FlagAfterReset
  /\ alive' \in IF \A k \in DOMAIN FedIndices :
                     messages[FedIndices[k]].place # NoPlace
                  THEN {TRUE} ELSE BOOLEAN
  /\ UNCHANGED <<messages, similarity, kvPlaces, place, query, reported,
                 failures>>

Next ==
  \/ \E q \in Query : NewEpisode(q)
  \/ \E o \in ObjId, c \in Content : Observe(o, c) \/ RecordAction(o, c)
  \/ Forward

Spec == Init /\ [][Next]_vars

-----------------------------------------------------------------------------
Span == (0 .. MaxPlace) \X (0 .. MaxPlace)

TypeOK ==
  /\ messages \in Seq([id : ObjId \union {NoId}, content : Content,
                       place : Span \union {NoPlace}])
  /\ similarity \in Seq(Nat)
  /\ kvPlaces \in Seq(Span)
  /\ place \in Nat
  /\ query \in Query
  /\ memoryChange \in {"none", "no", "yes"}
  /\ tablesBuilt \in BOOLEAN
  /\ alive \in BOOLEAN
  /\ reported \in [ObjId -> Content \union {NoContent}]
  /\ failures \in 0 .. MaxFailures

(* However often objects are refreshed, in whatever order, no id is on two   *)
(* messages: found_obj_id.index would refresh the first and feed the other, *)
(* old one.  A failed collection leaves one message that has no id, and no  *)
(* report finds or removes it before the next episode: its object has a     *)
(* second message once it is reported again, and there are as many such     *)
(* messages as collections failed.                                         *)
MessagesCounted ==
  /\ \A i, j \in Identified : messages[i].id = messages[j].id => i = j
  /\ Cardinality(DOMAIN messages \ Identified) = failures

(* A message that carries an object's id says what was last reported of it, *)
(* even when the refresh that last reported it failed half way.            *)
NeverStale ==
  \A i \in Identified : messages[i].content = reported[messages[i].id]

(* Unless a collection failed, no report is lost by deleting and adding. *)
NothingForgotten ==
  failures = 0 =>
    \A o \in ObjId : reported[o] # NoContent => IndexOf(o) # {}

(* The three lists are apart by what failed collections left, also after     *)
(* refreshes that stopped half way.  kv_places misses one place for each    *)
(* failure, and has that of every message with an id: kv_places.index never *)
(* raises.  similarity_objects is never longer than messages_objects, so    *)
(* every index of sorted_indices is one of it, and shorter by no more than  *)
(* the failures: del similarity_objects[obj_idx] may raise, but only for    *)
(* one of that many messages at the end.  Until a collection fails, the     *)
(* lists run in parallel, the similarities are to the instruction of this   *)
(* episode and not of the last, and no report or forward has raised.        *)
ApartByFailures ==
  /\ Len(kvPlaces) + failures = Len(messages)
  /\ \A i \in Identified :
       \E n \in DOMAIN kvPlaces : kvPlaces[n] = messages[i].place
  /\ Len(similarity) <= Len(messages)
  /\ Len(messages) <= Len(similarity) + failures
  /\ failures = 0 =>
       /\ similarity = [i \in DOMAIN messages |->
                          Similarity[query][messages[i].content]]
       /\ kvPlaces = [i \in DOMAIN messages |-> messages[i].place]
       /\ alive

(* Unless a collection failed, no message left out of a forward is nearer   *)
(* to the instruction than one that was fed.                               *)
FedMostSimilar ==
  failures = 0 =>
    \A i \in DOMAIN messages :
      (\A k \in DOMAIN FedIndices : FedIndices[k] # i) =>
        /\ Len(Layout) = KvCapacity
        /\ \A k \in DOMAIN Layout :
             Similarity[query][messages[i].content] <= Similarity[query][Layout[k]]

(* Unless a collection failed, whatever changes what a forward is fed raises *)
(* memory_change or starts an episode without tables: the promise the       *)
(* loading tables of the layer pipeline rely on.                           *)
LayoutChangeFlagged ==
  [][Layout' # Layout /\ failures' = 0 =>
       memoryChange' = "yes" \/ (Layout' = << >> /\ ~tablesBuilt')]_vars
=============================================================================
