------------------------------ MODULE Catalogue ------------------------------
(***************************************************************************)
(* TopicsService and PromptsService: the topics and prompts games draw from. *)
(*                                                                         *)
(* Every command reads some rows, decides, and writes an await later.       *)
(* Activating or deactivating a topic saves it whole, with the prompts it   *)
(* had when it was loaded: prompts added meanwhile lose their topic, and a   *)
(* topic removed meanwhile is back.  Only the database is in between: names *)
(* are unique, and a topic some prompt refers to cannot be deleted.         *)
(***************************************************************************)
EXTENDS Naturals, FiniteSets, Sequences

CONSTANTS
  Names,         \* names of topics
  Handlers,      \* slots for requests in progress
  MaxTopics,     \* topics inserted in a run
  MaxPrompts     \* prompts inserted in a run

ASSUME HandlersAssumption == IsFiniteSet(Handlers)
ASSUME BoundsAssumption   == MaxTopics \in Nat /\ MaxPrompts \in Nat

VARIABLES
  topic,      \* the topic table, by id
  last,       \* the last id given to a topic
  prompt,     \* the prompt table, a row at the place of its id
  req,        \* the requests in progress
  home,       \* history: the topic each prompt was created for
  crossed     \* history: prompts stored while a list of their topic without them was to be saved

vars == <<topic, last, prompt, req, home, crossed>>

\* A topic or prompt that is gone is soft-deleted: its row is there and no query finds it.
Topic == [name : Names, active : BOOLEAN, gone : BOOLEAN]

NoTopic == 0

Prompt == [topic : Nat, active : BOOLEAN, gone : BOOLEAN]

(* A request waits to insert a topic or a prompt, or to save or remove what  *)
(* it has loaded.  A topic is saved with the list of its prompts, or without. *)

Idle == [pc |-> "idle"]

Unlisted == {NoTopic}

Request == {Idle} \cup [pc : {"topic.insert"}, row : Topic]
                  \cup [pc : {"topic.save"}, id : Nat, row : Topic, prompts : SUBSET Nat]
                  \cup [pc : {"topic.remove"}, id : Nat]
                  \cup [pc : {"prompt.insert"}, id : Nat, active : BOOLEAN]
                  \cup [pc : {"prompt.save"}, id : Nat, active : BOOLEAN]

Init ==
  /\ topic = <<>> /\ last = 0
  /\ prompt = <<>>
  /\ req = [h \in Handlers |-> Idle]
  /\ home = <<>> /\ crossed = {}

(* Where a definition below follows one that names a mistake, the first is the  *)
(* second with that mistake in it, for trying the properties; no specification *)
(* uses it.                                                                    *)

-----------------------------------------------------------------------------
(* Queries                                                                  *)

Found(t) == t \in DOMAIN topic /\ ~topic[t].gone

FoundPrompt(p) == p \in DOMAIN prompt /\ ~prompt[p].gone

PromptRows(t) == {p \in DOMAIN prompt : prompt[p].topic = t}

\* The prompts findById returns with a topic.
PromptsOf(t) == {p \in PromptRows(t) : FoundPrompt(p)}

\* The unique column counts rows, removed ones too.
NameFree(t, n) == \A s \in DOMAIN topic \ {t} : topic[s].name # n

\* What getRandomTopics, and getRandomPrompts of a topic, draw from.
Offered == {t \in DOMAIN topic : Found(t) /\ topic[t].active}

Drawable(t) == {p \in PromptsOf(t) : prompt[p].active /\ t \in Offered}

-----------------------------------------------------------------------------
Waiting(h, wait) == req[h] = Idle /\ req' = [req EXCEPT ![h] = wait]

Reply(h) == req' = [req EXCEPT ![h] = Idle]

InHand(pc) == Cardinality({h \in Handlers : req[h].pc = pc})

Put(t, row) == topic' = [s \in DOMAIN topic \cup {t} |-> IF s = t THEN row ELSE topic[s]]

\* createTopic: no topic of that name is found
CreateTopic(h) ==
  /\ last + InHand("topic.insert") < MaxTopics
  /\ \E n \in Names, active \in BOOLEAN :
       /\ \A t \in DOMAIN topic : Found(t) => topic[t].name # n
       /\ Waiting(h, [pc |-> "topic.insert", row |-> [name |-> n, active |-> active, gone |-> FALSE]])
  /\ UNCHANGED <<topic, last, prompt, home, crossed>>

\* The insert fails where the name is taken by now, if by a removed topic.
InsertTopic(h) ==
  /\ req[h].pc = "topic.insert"
  /\ last' = last + 1
  /\ IF NameFree(last', req[h].row.name) THEN Put(last', req[h].row) ELSE UNCHANGED topic
  /\ Reply(h)
  /\ UNCHANGED <<prompt, home, crossed>>

\* activateTopic, deactivateTopic: the topic is loaded with its prompts
SwitchTopic(h) ==
  /\ \E t \in DOMAIN topic, active \in BOOLEAN :
       /\ Found(t)
       /\ Waiting(h, [pc |-> "topic.save", id |-> t, prompts |-> PromptsOf(t),
                      row |-> [topic[t] EXCEPT !.active = active, !.gone = FALSE]])
  /\ UNCHANGED <<topic, last, prompt, home, crossed>>

\* The topic comes with an empty list of prompts.
UpdateTopicAlone(h) ==
  /\ \E t \in DOMAIN topic, n \in Names, active \in BOOLEAN :
       /\ Found(t)
       /\ Waiting(h, [pc |-> "topic.save", id |-> t, prompts |-> {},
                      row |-> [name |-> n, active |-> active, gone |-> FALSE]])
  /\ UNCHANGED <<topic, last, prompt, home, crossed>>

\* updateTopic: the topic is preloaded by itself
UpdateTopic(h) ==
  /\ \E t \in DOMAIN topic, n \in Names, active \in BOOLEAN :
       /\ Found(t)
       /\ Waiting(h, [pc |-> "topic.save", id |-> t, prompts |-> Unlisted,
                      row |-> [name |-> n, active |-> active, gone |-> FALSE]])
  /\ UNCHANGED <<topic, last, prompt, home, crossed>>

\* Prompts of no topic are taken in along with those listed.
LinkedWithStrays(t, list) ==
  [p \in DOMAIN prompt |->
     IF p \in list \cup PromptRows(NoTopic) THEN [prompt[p] EXCEPT !.topic = t]
     ELSE IF p \in PromptsOf(t) THEN [prompt[p] EXCEPT !.topic = NoTopic]
     ELSE prompt[p]]

\* The prompts listed are linked to the topic, those a query finds beside them are not.
Linked(t, list) ==
  [p \in DOMAIN prompt |->
     IF p \in list THEN [prompt[p] EXCEPT !.topic = t]
     ELSE IF p \in PromptsOf(t) THEN [prompt[p] EXCEPT !.topic = NoTopic]
     ELSE prompt[p]]

\* Every column is written, and the row is inserted again if it is no longer there,
\* unless another topic has the name.
SaveTopic(h) ==
  /\ req[h].pc = "topic.save"
  /\ IF NameFree(req[h].id, req[h].row.name)
     THEN /\ Put(req[h].id, req[h].row)
          /\ prompt' = IF req[h].prompts = Unlisted THEN prompt
                       ELSE Linked(req[h].id, req[h].prompts)
     ELSE UNCHANGED <<topic, prompt>>
  /\ Reply(h)
  /\ UNCHANGED <<last, home, crossed>>

\* removeTopic: no prompt is asked after
RemoveTopic ==
  /\ \E t \in DOMAIN topic : topic' = [topic EXCEPT ![t].gone = TRUE]
  /\ UNCHANGED <<last, prompt, req, home, crossed>>

\* deleteWithValidation: the topic is found without prompts
DeleteTopic(h) ==
  /\ \E t \in DOMAIN topic :
       /\ Found(t) /\ PromptsOf(t) = {}
       /\ Waiting(h, [pc |-> "topic.remove", id |-> t])
  /\ UNCHANGED <<topic, last, prompt, home, crossed>>

\* Nothing but the check keeps the row.
DeleteRowAnyway(h) ==
  /\ req[h].pc = "topic.remove"
  /\ topic' = [t \in DOMAIN topic \ {req[h].id} |-> topic[t]]
  /\ Reply(h)
  /\ UNCHANGED <<last, prompt, home, crossed>>

\* The foreign key keeps a row that prompts refer to, removed ones too.
DeleteRow(h) ==
  /\ req[h].pc = "topic.remove"
  /\ IF PromptRows(req[h].id) = {}
     THEN topic' = [t \in DOMAIN topic \ {req[h].id} |-> topic[t]]
     ELSE UNCHANGED topic
  /\ Reply(h)
  /\ UNCHANGED <<last, prompt, home, crossed>>

-----------------------------------------------------------------------------
\* createPrompt: the topic is found
CreatePrompt(h) ==
  /\ Len(prompt) + InHand("prompt.insert") < MaxPrompts
  /\ \E t \in DOMAIN topic, active \in BOOLEAN :
       Found(t) /\ Waiting(h, [pc |-> "prompt.insert", id |-> t, active |-> active])
  /\ UNCHANGED <<topic, last, prompt, home, crossed>>

\* A list of its topic's prompts that lacks this one is in a handler's hand.
Crosses(p, t) ==
  \E h \in Handlers :
    req[h].pc = "topic.save" /\ req[h].id = t /\ req[h].prompts # Unlisted /\ p \notin req[h].prompts

Note(p, t) == crossed' = IF Crosses(p, t) THEN crossed \cup {p} ELSE crossed

\* The insert fails where the topic's row is no longer there.
InsertPrompt(h) ==
  /\ req[h].pc = "prompt.insert"
  /\ LET t == req[h].id
     IN  IF t \in DOMAIN topic
         THEN /\ prompt' = Append(prompt, [topic |-> t, active |-> req[h].active, gone |-> FALSE])
              /\ home' = Append(home, t)
              /\ Note(Len(prompt'), t)
         ELSE UNCHANGED <<prompt, home, crossed>>
  /\ Reply(h)
  /\ UNCHANGED <<topic, last>>

\* The prompt may have been removed long ago.
UpdateAnyPrompt(h) ==
  /\ \E p \in DOMAIN prompt, active \in BOOLEAN :
       Waiting(h, [pc |-> "prompt.save", id |-> p, active |-> active])
  /\ UNCHANGED <<topic, last, prompt, home, crossed>>

\* updatePrompt: the prompt is preloaded; its topic is not, and no input names it
UpdatePrompt(h) ==
  /\ \E p \in DOMAIN prompt, active \in BOOLEAN :
       FoundPrompt(p) /\ Waiting(h, [pc |-> "prompt.save", id |-> p, active |-> active])
  /\ UNCHANGED <<topic, last, prompt, home, crossed>>

SavePrompt(h) ==
  /\ req[h].pc = "prompt.save"
  /\ prompt' = [prompt EXCEPT ![req[h].id].active = req[h].active, ![req[h].id].gone = FALSE]
  /\ Note(req[h].id, home[req[h].id])
  /\ Reply(h)
  /\ UNCHANGED <<topic, last, home>>

\* removePrompt
RemovePrompt ==
  /\ \E p \in DOMAIN prompt : prompt' = [prompt EXCEPT ![p].gone = TRUE]
  /\ UNCHANGED <<topic, last, req, home, crossed>>

-----------------------------------------------------------------------------
Arrive(h) ==
  \/ CreateTopic(h) \/ SwitchTopic(h) \/ UpdateTopic(h) \/ DeleteTopic(h)
  \/ CreatePrompt(h) \/ UpdatePrompt(h)

Continue(h) ==
  \/ InsertTopic(h) \/ SaveTopic(h) \/ DeleteRow(h) \/ InsertPrompt(h) \/ SavePrompt(h)

Next ==
  \/ \E h \in Handlers : Arrive(h) \/ Continue(h)
  \/ RemoveTopic \/ RemovePrompt

Spec == Init /\ [][Next]_vars

-----------------------------------------------------------------------------
(* Properties                                                               *)

\* Rows and requests have their types; a prompt's topic is a row, if a removed one.
TypeOK ==
  /\ last \in Nat
  /\ DOMAIN topic \subseteq 1 .. last /\ \A t \in DOMAIN topic : topic[t] \in Topic
  /\ prompt \in Seq(Prompt)
  /\ \A p \in DOMAIN prompt : prompt[p].topic \in DOMAIN topic \cup {NoTopic}
  /\ DOMAIN home = DOMAIN prompt /\ \A p \in DOMAIN home : home[p] \in 1 .. last
  /\ crossed \subseteq DOMAIN prompt
  /\ req \in [Handlers -> Request]

\* Prompts lose and regain their topics as older lists are saved, topics are deleted
\* and inserted again.  What a game draws for a topic was written for that topic.
NothingForeignIsDrawn ==
  \A t \in DOMAIN topic : \A p \in Drawable(t) : home[p] = t

\* A prompt in use whose topic is offered can be drawn for it, unless it was inserted or
\* restored while a list of the topic's prompts that lacks it was in a handler's hand.
LostOnlyByCrossing ==
  \A p \in DOMAIN prompt :
    /\ FoundPrompt(p) /\ prompt[p].active
    /\ home[p] \in Offered
    /\ p \notin crossed
    => p \in Drawable(home[p])

\* Saves restore what was removed while it was in a handler's hand.  Once a removed
\* topic or prompt is in nobody's hand, it is found no more.
Held(pc, id) == \E h \in Handlers : req[h].pc = pc /\ req[h].id = id

ForgottenTopic(t)  == t <= last /\ ~Found(t) /\ ~Held("topic.save", t)
ForgottenPrompt(p) == p \in DOMAIN prompt /\ ~FoundPrompt(p) /\ ~Held("prompt.save", p)

RemovedIsForgotten ==
  [][/\ \A t \in 1 .. last : ForgottenTopic(t) => ForgottenTopic(t)'
     /\ \A p \in DOMAIN prompt : ForgottenPrompt(p) => ForgottenPrompt(p)']_vars

\* A request in progress is about rows there have been; a topic to be saved comes with
\* no list, or with prompts written for it.
RequestOK(r) ==
  /\ r.pc \in {"topic.save", "topic.remove", "prompt.insert"} => r.id \in 1 .. last
  /\ r.pc = "prompt.save" => r.id \in DOMAIN prompt
  /\ r.pc = "topic.save" /\ r.prompts # Unlisted =>
       r.prompts \subseteq {p \in DOMAIN prompt : home[p] = r.id}

\* The topic a prompt refers to, and every list of prompts in a handler's hand, agree
\* with what the prompts were written for; what they lack has been removed or crossed.
IInv ==
  /\ TypeOK
  /\ home \in Seq(Nat)
  /\ \A h \in Handlers : RequestOK(req[h])
  /\ \A p \in DOMAIN prompt :
       /\ prompt[p].topic = home[p] \/ (prompt[p].topic = NoTopic /\ p \in crossed)
       /\ FoundPrompt(p) /\ Crosses(p, home[p]) => p \in crossed
=============================================================================
