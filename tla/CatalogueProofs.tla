---------------------------- MODULE CatalogueProofs ----------------------------
(***************************************************************************)
(* Proofs about topics and prompts, for any number of them and of commands  *)
(* that cross: a prompt refers to the topic it was written for or to none,  *)
(* it is lost to that topic only by the crossing that explains it, and what *)
(* is removed and in nobody's hand stays removed.                           *)
(***************************************************************************)
EXTENDS Catalogue, TLAPS

LEMMA InitOK ==
  ASSUME Init
  PROVE  IInv
<1>1. /\ topic = <<>> /\ last = 0 /\ prompt = <<>> /\ home = <<>> /\ crossed = {}
      /\ req = [h \in Handlers |-> Idle]
  BY DEF Init
<1>2. DOMAIN topic = {} /\ DOMAIN prompt = {} /\ DOMAIN home = {}
  BY <1>1
<1>3. TypeOK
  BY <1>1, <1>2 DEF TypeOK, Request, Idle
<1>4. \A h \in Handlers : RequestOK(req[h])
  BY <1>1 DEF RequestOK, Idle
<1>5. QED
  BY <1>1, <1>2, <1>3, <1>4 DEF IInv

\* What a request of each kind carries.
LEMMA RequestFields ==
  ASSUME NEW r \in Request
  PROVE  /\ r.pc = "topic.insert" => r = [pc |-> r.pc, row |-> r.row] /\ r.row \in Topic
         /\ r.pc = "topic.save" => r.id \in Nat /\ r.row \in Topic /\ r.prompts \in SUBSET Nat
         /\ r.pc = "topic.remove" => r.id \in Nat
         /\ r.pc = "prompt.insert" => r.id \in Nat /\ r.active \in BOOLEAN
         /\ r.pc = "prompt.save" => r.id \in Nat /\ r.active \in BOOLEAN
BY DEF Request, Idle

\* The parts of the invariant.
LEMMA Parts ==
  ASSUME IInv
  PROVE  /\ last \in Nat
         /\ DOMAIN topic \subseteq 1 .. last /\ \A t \in DOMAIN topic : topic[t] \in Topic
         /\ prompt \in Seq(Prompt) /\ home \in Seq(Nat)
         /\ DOMAIN prompt = 1 .. Len(prompt) /\ Len(prompt) \in Nat
         /\ \A p \in DOMAIN prompt : prompt[p] \in Prompt
         /\ DOMAIN home = DOMAIN prompt /\ Len(home) = Len(prompt)
         /\ \A p \in DOMAIN prompt : prompt[p].topic \in DOMAIN topic \cup {NoTopic}
         /\ \A p \in DOMAIN prompt : home[p] \in 1 .. last /\ home[p] # NoTopic
         /\ crossed \subseteq DOMAIN prompt
         /\ req \in [Handlers -> Request]
         /\ \A h \in Handlers : RequestOK(req[h])
<1>1. /\ prompt \in Seq(Prompt) /\ home \in Seq(Nat) /\ DOMAIN home = DOMAIN prompt
      /\ last \in Nat
  BY DEF IInv, TypeOK
<1>2. /\ DOMAIN prompt = 1 .. Len(prompt) /\ Len(prompt) \in Nat
      /\ DOMAIN home = 1 .. Len(home) /\ Len(home) \in Nat
  BY <1>1
<1>3. Len(home) = Len(prompt)
  BY <1>1, <1>2
<1>4. \A p \in DOMAIN prompt : prompt[p] \in Prompt
  BY <1>1, <1>2
<1>5. \A p \in DOMAIN prompt : home[p] \in 1 .. last /\ home[p] # NoTopic
  BY <1>1 DEF IInv, TypeOK, NoTopic
<1>6. QED
  BY <1>1, <1>2, <1>3, <1>4, <1>5 DEF IInv, TypeOK

\* A request that comes to wait, or is answered, while the tables stay.
LEMMA WaitKeeps ==
  ASSUME IInv, NEW h \in Handlers, NEW r \in Request, req' = [req EXCEPT ![h] = r],
         UNCHANGED <<topic, last, prompt, home, crossed>>,
         RequestOK(r),
         r.pc = "topic.save" /\ r.prompts # Unlisted =>
           \A p \in DOMAIN prompt : FoundPrompt(p) /\ home[p] = r.id /\ p \notin r.prompts => p \in crossed
  PROVE  IInv'
<1>1. /\ topic' = topic /\ last' = last /\ prompt' = prompt /\ home' = home /\ crossed' = crossed
      /\ req' \in [Handlers -> Request] /\ req'[h] = r
      /\ \A k \in Handlers \ {h} : req'[k] = req[k]
  BY Parts
<1>2. TypeOK'
  BY <1>1 DEF IInv, TypeOK
<1>3. \A k \in Handlers : RequestOK(req[k])'
  BY <1>1, Parts DEF RequestOK
<1>4. ASSUME NEW p \in DOMAIN prompt
      PROVE  /\ prompt[p].topic = home[p] \/ (prompt[p].topic = NoTopic /\ p \in crossed)
             /\ FoundPrompt(p) /\ Crosses(p, home[p])' => p \in crossed
  <2>1. ASSUME FoundPrompt(p), NEW k \in Handlers, req'[k].pc = "topic.save",
               req'[k].id = home[p], req'[k].prompts # Unlisted, p \notin req'[k].prompts
        PROVE  p \in crossed
    <3>1. CASE k = h
      BY <1>1, <1>4, <2>1, <3>1
    <3>2. CASE k # h
      BY <1>1, <1>4, <2>1, <3>2 DEF IInv, Crosses
    <3>3. QED
      BY <3>1, <3>2
  <2>2. QED
    BY <1>1, <1>4, <2>1 DEF IInv, Crosses
<1>5. QED
  BY <1>1, <1>2, <1>3, <1>4 DEF IInv, FoundPrompt

LEMMA ArriveKeeps ==
  ASSUME IInv, NEW h \in Handlers, Arrive(h)
  PROVE  IInv'
<1>1. UNCHANGED <<topic, last, prompt, home, crossed>>
  BY DEF Arrive, CreateTopic, SwitchTopic, UpdateTopic, DeleteTopic, CreatePrompt, UpdatePrompt
<1>2. ASSUME NEW r, Waiting(h, r), r \in Request, RequestOK(r),
             r.pc = "topic.save" => r.prompts = Unlisted
      PROVE  IInv'
  BY <1>1, <1>2, WaitKeeps DEF Waiting
<1>3. CASE CreateTopic(h)
  <2>1. PICK row \in Topic : Waiting(h, [pc |-> "topic.insert", row |-> row])
    BY <1>3 DEF CreateTopic, Topic
  <2>2. QED
    BY <1>2, <2>1 DEF Request, RequestOK
<1>4. CASE SwitchTopic(h)
  <2>1. PICK t \in DOMAIN topic, active \in BOOLEAN :
          Waiting(h, [pc |-> "topic.save", id |-> t, prompts |-> PromptsOf(t),
                      row |-> [topic[t] EXCEPT !.active = active, !.gone = FALSE]])
    BY <1>4 DEF SwitchTopic
  <2> DEFINE row == [topic[t] EXCEPT !.active = active, !.gone = FALSE]
             r == [pc |-> "topic.save", id |-> t, prompts |-> PromptsOf(t), row |-> row]
  <2>2. row \in Topic
    BY Parts DEF Topic
  <2>3. t \in 1 .. last /\ t \in Nat /\ t # NoTopic /\ PromptsOf(t) \in SUBSET Nat
    BY Parts DEF NoTopic, PromptsOf, PromptRows
  <2>4. \A p \in PromptsOf(t) : p \in DOMAIN prompt /\ home[p] = t
    BY <2>3 DEF IInv, PromptsOf, PromptRows
  <2>5. \A p \in DOMAIN prompt : FoundPrompt(p) /\ home[p] = t /\ p \notin PromptsOf(t) => p \in crossed
    BY DEF IInv, PromptsOf, PromptRows
  <2> HIDE DEF row
  <2>6. r \in Request
    BY <2>2, <2>3 DEF Request
  <2>7. /\ r.pc = "topic.save" /\ r.id = t /\ r.prompts = PromptsOf(t)
    OBVIOUS
  <2>8. req' = [req EXCEPT ![h] = r]
    BY <2>1 DEF Waiting, row
  <2> HIDE DEF r
  <2>9. RequestOK(r)
    BY <2>3, <2>4, <2>7 DEF RequestOK
  <2>10. QED
    BY <1>1, <2>5, <2>6, <2>7, <2>8, <2>9, WaitKeeps
<1>5. CASE UpdateTopic(h)
  <2>1. PICK t \in DOMAIN topic, row \in Topic :
          Waiting(h, [pc |-> "topic.save", id |-> t, prompts |-> Unlisted, row |-> row])
    BY <1>5 DEF UpdateTopic, Topic
  <2>2. t \in 1 .. last /\ t \in Nat /\ Unlisted \in SUBSET Nat
    BY Parts DEF Unlisted, NoTopic
  <2>3. QED
    BY <1>2, <2>1, <2>2 DEF Request, RequestOK
<1>6. CASE DeleteTopic(h) \/ CreatePrompt(h)
  <2>1. PICK t \in DOMAIN topic, active \in BOOLEAN :
          \/ Waiting(h, [pc |-> "topic.remove", id |-> t])
          \/ Waiting(h, [pc |-> "prompt.insert", id |-> t, active |-> active])
    BY <1>6 DEF DeleteTopic, CreatePrompt
  <2>2. t \in 1 .. last /\ t \in Nat
    BY Parts
  <2>3. QED
    BY <1>2, <2>1, <2>2 DEF Request, RequestOK
<1>7. CASE UpdatePrompt(h)
  <2>1. PICK p \in DOMAIN prompt, active \in BOOLEAN :
          Waiting(h, [pc |-> "prompt.save", id |-> p, active |-> active])
    BY <1>7 DEF UpdatePrompt
  <2>2. p \in Nat
    BY Parts
  <2>3. QED
    BY <1>2, <2>1, <2>2 DEF Request, RequestOK
<1>8. QED
  BY <1>3, <1>4, <1>5, <1>6, <1>7 DEF Arrive

-----------------------------------------------------------------------------
(* Steps that write                                                         *)

\* A request that is answered leaves the others as they are, and crosses nothing more.
LEMMA Answered ==
  ASSUME IInv, NEW h \in Handlers, Reply(h), last' \in Nat, last <= last',
         DOMAIN prompt \subseteq DOMAIN prompt',
         \A p \in DOMAIN prompt : home'[p] = home[p]
  PROVE  /\ req' \in [Handlers -> Request]
         /\ \A k \in Handlers : RequestOK(req[k])'
         /\ \A p, t : Crosses(p, t)' => Crosses(p, t)
<1>1. /\ req' = [req EXCEPT ![h] = Idle] /\ Idle \in Request /\ Idle.pc = "idle"
      /\ 1 .. last \subseteq 1 .. last'
  BY Parts DEF Reply, Idle, Request
<1>2. /\ req' \in [Handlers -> Request]
      /\ \A k \in Handlers : req'[k] = req[k] \/ req'[k] = Idle
  BY <1>1, Parts
<1>3. ASSUME NEW k \in Handlers
      PROVE  RequestOK(req[k])'
  <2>1. RequestOK(req[k])
    BY Parts
  <2>2. CASE req'[k] = Idle
    BY <1>1, <2>2 DEF RequestOK
  <2>3. CASE req'[k] = req[k]
    BY <1>1, <2>1, <2>3 DEF RequestOK
  <2>4. QED
    BY <1>2, <2>2, <2>3
<1>4. ASSUME NEW p, NEW t, Crosses(p, t)'
      PROVE  Crosses(p, t)
  BY <1>1, <1>2, <1>4 DEF Crosses
<1>5. QED
  BY <1>2, <1>3, <1>4

\* A row put in the table.
LEMMA PutKeeps ==
  ASSUME IInv, NEW t \in Nat, NEW row \in Topic, Put(t, row)
  PROVE  /\ DOMAIN topic' = DOMAIN topic \cup {t}
         /\ \A s \in DOMAIN topic' : topic'[s] \in Topic
         /\ topic'[t] = row /\ \A s \in DOMAIN topic \ {t} : topic'[s] = topic[s]
<1>1. /\ DOMAIN topic' = DOMAIN topic \cup {t}
      /\ topic'[t] = row /\ \A s \in DOMAIN topic \ {t} : topic'[s] = topic[s]
  BY DEF Put
<1>2. \A s \in DOMAIN topic' : topic'[s] \in Topic
  BY <1>1, Parts
<1>3. QED
  BY <1>1, <1>2

LEMMA InsertTopicKeeps ==
  ASSUME IInv, NEW h \in Handlers, InsertTopic(h)
  PROVE  IInv'
<1> DEFINE row == req[h].row
           n   == last + 1
<1>1. /\ last' = n /\ Reply(h)
      /\ prompt' = prompt /\ home' = home /\ crossed' = crossed
      /\ row \in Topic
  BY Parts, RequestFields DEF InsertTopic
<1>2. /\ req' \in [Handlers -> Request]
      /\ \A k \in Handlers : RequestOK(req[k])'
      /\ \A p, t : Crosses(p, t)' => Crosses(p, t)
  BY <1>1, Parts, Answered
<1>3. /\ DOMAIN topic \subseteq DOMAIN topic' /\ DOMAIN topic' \subseteq 1 .. last'
      /\ \A s \in DOMAIN topic' : topic'[s] \in Topic
  <2>1. n \in Nat /\ n \in 1 .. n /\ 1 .. last \subseteq 1 .. n
    BY Parts
  <2>2. CASE NameFree(n, row.name)
    <3>1. Put(n, row)
      BY <1>1, <2>2 DEF InsertTopic
    <3> HIDE DEF n, row
    <3>2. /\ DOMAIN topic' = DOMAIN topic \cup {n}
          /\ \A s \in DOMAIN topic' : topic'[s] \in Topic
       BY <1>1, <2>1, <2>2, <3>1, PutKeeps
    <3>3. QED
      BY <1>1, <2>1, <3>2, Parts
  <2>3. CASE ~NameFree(n, row.name)
    <3>1. topic' = topic
      BY <1>1, <2>3 DEF InsertTopic
    <3>2. QED
      BY <1>1, <2>1, <3>1, Parts
  <2>4. QED
    BY <2>2, <2>3
<1>4. TypeOK'
  BY <1>1, <1>2, <1>3, Parts DEF TypeOK
<1>5. QED
  BY <1>1, <1>2, <1>3, <1>4 DEF IInv, FoundPrompt

\* Saving a list links its prompts to the topic they were written for, and unlinks only
\* prompts that crossed it.
LEMMA LinkedOK ==
  ASSUME IInv, NEW h \in Handlers, req[h].pc = "topic.save", req[h].prompts # Unlisted
  PROVE  LET l == Linked(req[h].id, req[h].prompts)
         IN  /\ l \in Seq(Prompt) /\ DOMAIN l = DOMAIN prompt
             /\ \A p \in DOMAIN prompt :
                  /\ l[p].gone = prompt[p].gone
                  /\ l[p].topic \in {prompt[p].topic, req[h].id, NoTopic}
                  /\ l[p].topic = home[p] \/ (l[p].topic = NoTopic /\ p \in crossed)
<1> DEFINE t == req[h].id
           list == req[h].prompts
           l == Linked(t, list)
<1>1. /\ t \in 1 .. last /\ t \in Nat /\ list \subseteq {p \in DOMAIN prompt : home[p] = t}
  BY Parts DEF RequestOK
<1>2. DOMAIN l = DOMAIN prompt /\ DOMAIN prompt = 1 .. Len(prompt) /\ Len(prompt) \in Nat
  BY Parts DEF Linked
<1>3. ASSUME NEW p \in DOMAIN prompt
      PROVE  /\ l[p] \in Prompt /\ l[p].gone = prompt[p].gone
             /\ l[p].topic \in {prompt[p].topic, t, NoTopic}
             /\ l[p].topic = home[p] \/ (l[p].topic = NoTopic /\ p \in crossed)
  <2>1. /\ prompt[p] \in Prompt
        /\ prompt[p].topic = home[p] \/ (prompt[p].topic = NoTopic /\ p \in crossed)
        /\ FoundPrompt(p) /\ Crosses(p, home[p]) => p \in crossed
    BY Parts DEF IInv
  <2>2. CASE p \in list
    <3>1. l[p] = [prompt[p] EXCEPT !.topic = t]
      BY <2>2 DEF Linked
    <3>2. QED
      BY <1>1, <2>1, <2>2, <3>1 DEF Prompt
  <2>3. CASE p \notin list /\ p \in PromptsOf(t)
    <3>1. l[p] = [prompt[p] EXCEPT !.topic = NoTopic]
      BY <2>3 DEF Linked
    <3>2. FoundPrompt(p) /\ prompt[p].topic = t
      BY <2>3 DEF PromptsOf, PromptRows
    <3>3. home[p] = t
      BY <1>1, <2>1, <3>2 DEF NoTopic
    <3>4. p \in crossed
      BY <2>1, <2>3, <3>2, <3>3 DEF Crosses
    <3>5. QED
      BY <2>1, <3>1, <3>4 DEF Prompt, NoTopic
  <2>4. CASE p \notin list /\ p \notin PromptsOf(t)
    BY <2>1, <2>4 DEF Linked
  <2>5. QED
    BY <2>2, <2>3, <2>4
<1>4. l \in Seq(Prompt)
  <2>1. l = [p \in 1 .. Len(prompt) |-> l[p]]
    BY <1>2 DEF Linked
  <2> HIDE DEF l
  <2>2. l \in [1 .. Len(prompt) -> Prompt]
    BY <1>2, <1>3, <2>1
  <2>3. QED
    BY <1>2, <2>2
<1>5. QED
  BY <1>2, <1>3, <1>4

LEMMA SaveTopicKeeps ==
  ASSUME IInv, NEW h \in Handlers, SaveTopic(h)
  PROVE  IInv'
<1> DEFINE t    == req[h].id
           row  == req[h].row
           list == req[h].prompts
<1>1. /\ req[h].pc = "topic.save" /\ Reply(h)
      /\ last' = last /\ home' = home /\ crossed' = crossed
      /\ row \in Topic /\ t \in Nat /\ t \in 1 .. last
  BY Parts, RequestFields DEF SaveTopic, RequestOK
<1>2. CASE ~NameFree(t, row.name)
  <2>1. UNCHANGED <<topic, last, prompt, home, crossed>>
    BY <1>1, <1>2 DEF SaveTopic
  <2>2. Idle \in Request /\ RequestOK(Idle) /\ Idle.pc # "topic.save"
    BY DEF Idle, Request, RequestOK
  <2>3. QED
    BY <1>1, <2>1, <2>2, WaitKeeps DEF Reply
<1>3. CASE NameFree(t, row.name)
  <2>1. /\ Put(t, row)
        /\ prompt' = IF list = Unlisted THEN prompt ELSE Linked(t, list)
    BY <1>3 DEF SaveTopic
  <2>2. /\ DOMAIN topic' = DOMAIN topic \cup {t}
        /\ \A s \in DOMAIN topic' : topic'[s] \in Topic
      <3> HIDE DEF t, row
    <3>1. QED
      BY <1>1, <1>3, <2>1, PutKeeps
  <2>3. /\ prompt' \in Seq(Prompt) /\ DOMAIN prompt' = DOMAIN prompt
        /\ \A p \in DOMAIN prompt :
             /\ prompt'[p].gone = prompt[p].gone
             /\ prompt'[p].topic \in {prompt[p].topic, t, NoTopic}
             /\ prompt'[p].topic = home[p] \/ (prompt'[p].topic = NoTopic /\ p \in crossed)
    <3>1. CASE list = Unlisted
      <4>1. prompt' = prompt
        BY <2>1, <3>1
      <4>2. QED
        BY <4>1, Parts DEF IInv
    <3>2. CASE list # Unlisted
      <4>1. prompt' = Linked(t, list)
        BY <2>1, <3>2
      <4>2. QED
        BY <1>1, <3>2, <4>1, LinkedOK
    <3>3. QED
      BY <3>1, <3>2
  <2>4. /\ req' \in [Handlers -> Request]
        /\ \A k \in Handlers : RequestOK(req[k])'
        /\ \A p, x : Crosses(p, x)' => Crosses(p, x)
    BY <1>1, <2>3, Parts, Answered
  <2>5. DOMAIN topic' \subseteq 1 .. last'
    BY <1>1, <2>2, Parts
  <2>6. \A p \in DOMAIN prompt' : prompt'[p].topic \in DOMAIN topic' \cup {NoTopic}
    BY <2>2, <2>3, Parts
  <2>7. TypeOK'
    BY <1>1, <2>2, <2>3, <2>4, <2>5, <2>6, Parts DEF TypeOK
  <2>8. \A p \in DOMAIN prompt : FoundPrompt(p)' => FoundPrompt(p)
    BY <2>3 DEF FoundPrompt
  <2>9. home' \in Seq(Nat)
    BY <1>1, Parts
  <2>10. \A p \in DOMAIN prompt' :
           /\ prompt'[p].topic = home'[p] \/ (prompt'[p].topic = NoTopic /\ p \in crossed')
           /\ FoundPrompt(p)' /\ Crosses(p, home[p])' => p \in crossed'
    BY <1>1, <2>3, <2>4, <2>8 DEF IInv
  <2>11. QED
    BY <1>1, <2>2, <2>4, <2>7, <2>9, <2>10 DEF IInv
<1>4. QED
  BY <1>2, <1>3

\* Topics that go, softly or for good, and prompts that go.
LEMMA TopicsGo ==
  ASSUME IInv, UNCHANGED <<last, prompt, home, crossed>>,
         DOMAIN topic' \subseteq DOMAIN topic,
         \A t \in DOMAIN topic' : topic'[t] \in Topic /\ topic'[t].name = topic[t].name,
         \A p \in DOMAIN prompt : prompt[p].topic \in DOMAIN topic' \cup {NoTopic},
         req' \in [Handlers -> Request],
         \A k \in Handlers : RequestOK(req[k])',
         \A p, t : Crosses(p, t)' => Crosses(p, t)
  PROVE  IInv'
<1>1. last' = last /\ prompt' = prompt /\ home' = home /\ crossed' = crossed
  OBVIOUS
<1>2. TypeOK'
  BY <1>1, Parts DEF TypeOK
<1>3. QED
  BY <1>1, <1>2 DEF IInv, FoundPrompt

LEMMA DeleteRowKeeps ==
  ASSUME IInv, NEW h \in Handlers, DeleteRow(h)
  PROVE  IInv'
<1> DEFINE t == req[h].id
<1>1. /\ Reply(h) /\ UNCHANGED <<last, prompt, home, crossed>>
      /\ topic' = IF PromptRows(t) = {} THEN [s \in DOMAIN topic \ {t} |-> topic[s]] ELSE topic
  BY DEF DeleteRow
<1>2. /\ req' \in [Handlers -> Request]
      /\ \A k \in Handlers : RequestOK(req[k])'
      /\ \A p, x : Crosses(p, x)' => Crosses(p, x)
  BY <1>1, Parts, Answered
<1>3. /\ DOMAIN topic' \subseteq DOMAIN topic
      /\ \A s \in DOMAIN topic' : topic'[s] = topic[s]
      /\ PromptRows(t) # {} => topic' = topic
      /\ DOMAIN topic \ {t} \subseteq DOMAIN topic'
  BY <1>1
<1>4. \A p \in DOMAIN prompt : prompt[p].topic \in DOMAIN topic' \cup {NoTopic}
  BY <1>3, Parts DEF PromptRows
<1>5. QED
  BY <1>1, <1>2, <1>3, <1>4, Parts, TopicsGo

LEMMA RemoveTopicKeeps ==
  ASSUME IInv, RemoveTopic
  PROVE  IInv'
<1>1. PICK t \in DOMAIN topic : topic' = [topic EXCEPT ![t].gone = TRUE]
  BY DEF RemoveTopic
<1>2. UNCHANGED <<last, prompt, home, crossed>> /\ req' = req
  BY DEF RemoveTopic
<1>3. /\ DOMAIN topic' = DOMAIN topic
      /\ \A s \in DOMAIN topic' : topic'[s] \in Topic /\ topic'[s].name = topic[s].name
  BY <1>1, Parts DEF Topic
<1>4. /\ \A k \in Handlers : RequestOK(req[k])'
      /\ \A p, x : Crosses(p, x)' => Crosses(p, x)
  BY <1>2, Parts DEF RequestOK, Crosses
<1>5. QED
  BY <1>2, <1>3, <1>4, Parts, TopicsGo

\* What is written to one prompt leaves its topic alone; restoring it is noted.
LEMMA PromptWritten ==
  ASSUME IInv, NEW p \in DOMAIN prompt, NEW row \in Prompt,
         prompt' = [prompt EXCEPT ![p] = row], row.topic = prompt[p].topic,
         UNCHANGED <<topic, last, home>>,
         crossed \subseteq crossed', crossed' \subseteq DOMAIN prompt,
         ~row.gone /\ Crosses(p, home[p]) => p \in crossed',
         req' \in [Handlers -> Request],
         \A k \in Handlers : RequestOK(req[k])',
         \A q, t : Crosses(q, t)' => Crosses(q, t)
  PROVE  IInv'
<1>1. /\ topic' = topic /\ last' = last /\ home' = home
      /\ prompt' \in Seq(Prompt) /\ DOMAIN prompt' = DOMAIN prompt
      /\ \A q \in DOMAIN prompt : prompt'[q].topic = prompt[q].topic
      /\ prompt'[p] = row /\ \A q \in DOMAIN prompt \ {p} : prompt'[q] = prompt[q]
  BY Parts
<1>2. TypeOK'
  BY <1>1, Parts DEF TypeOK
<1>3. ASSUME NEW q \in DOMAIN prompt
      PROVE  /\ prompt'[q].topic = home'[q] \/ (prompt'[q].topic = NoTopic /\ q \in crossed')
             /\ FoundPrompt(q)' /\ Crosses(q, home[q])' => q \in crossed'
  BY <1>1, <1>3 DEF IInv, FoundPrompt
<1>4. QED
  BY <1>1, <1>2, <1>3, Parts DEF IInv

LEMMA SavePromptKeeps ==
  ASSUME IInv, NEW h \in Handlers, SavePrompt(h)
  PROVE  IInv'
<1> DEFINE p   == req[h].id
           row == [prompt[p] EXCEPT !.active = req[h].active, !.gone = FALSE]
<1>1. /\ req[h].pc = "prompt.save" /\ Reply(h) /\ Note(p, home[p])
      /\ UNCHANGED <<topic, last, home>>
      /\ p \in DOMAIN prompt /\ req[h].active \in BOOLEAN
  BY Parts, RequestFields DEF SavePrompt, RequestOK
<1>2. row \in Prompt /\ row.topic = prompt[p].topic /\ prompt' = [prompt EXCEPT ![p] = row]
  BY <1>1, Parts DEF SavePrompt, Prompt
<1>3. /\ crossed \subseteq crossed' /\ crossed' \subseteq DOMAIN prompt
      /\ Crosses(p, home[p]) => p \in crossed'
  BY <1>1, Parts DEF Note
<1>4. DOMAIN prompt' = DOMAIN prompt
  BY <1>2
<1>5. /\ req' \in [Handlers -> Request]
      /\ \A k \in Handlers : RequestOK(req[k])'
      /\ \A q, x : Crosses(q, x)' => Crosses(q, x)
  BY <1>1, <1>4, Parts, Answered
<1> HIDE DEF p, row
<1>6. QED
  BY <1>1, <1>2, <1>3, <1>5, PromptWritten

LEMMA RemovePromptKeeps ==
  ASSUME IInv, RemovePrompt
  PROVE  IInv'
<1>1. PICK p \in DOMAIN prompt : prompt' = [prompt EXCEPT ![p].gone = TRUE]
  BY DEF RemovePrompt
<1> DEFINE row == [prompt[p] EXCEPT !.gone = TRUE]
<1>2. row \in Prompt /\ row.topic = prompt[p].topic /\ row.gone /\ prompt' = [prompt EXCEPT ![p] = row]
  BY <1>1, Parts DEF Prompt
<1>3. UNCHANGED <<topic, last, home>> /\ crossed' = crossed /\ req' = req
  BY DEF RemovePrompt
<1>4. /\ \A k \in Handlers : RequestOK(req[k])'
      /\ \A q, x : Crosses(q, x)' => Crosses(q, x)
  <2>1. DOMAIN prompt' = DOMAIN prompt
    BY <1>2
  <2>2. QED
    BY <1>3, <2>1, Parts DEF RequestOK, Crosses
<1> HIDE DEF row
<1>5. QED
  BY <1>2, <1>3, <1>4, Parts, PromptWritten

LEMMA InsertPromptKeeps ==
  ASSUME IInv, NEW h \in Handlers, InsertPrompt(h)
  PROVE  IInv'
<1> DEFINE t   == req[h].id
           n   == Len(prompt) + 1
           row == [topic |-> t, active |-> req[h].active, gone |-> FALSE]
<1>1. /\ req[h].pc = "prompt.insert" /\ Reply(h) /\ topic' = topic /\ last' = last
      /\ t \in 1 .. last /\ t \in Nat /\ req[h].active \in BOOLEAN
  BY Parts, RequestFields DEF InsertPrompt, RequestOK
<1>2. CASE t \notin DOMAIN topic
  <2>1. UNCHANGED <<topic, last, prompt, home, crossed>>
    BY <1>1, <1>2 DEF InsertPrompt
  <2>2. Idle \in Request /\ RequestOK(Idle) /\ Idle.pc # "topic.save"
    BY DEF Idle, Request, RequestOK
  <2>3. QED
    BY <1>1, <2>1, <2>2, WaitKeeps DEF Reply
<1>3. CASE t \in DOMAIN topic
  <2>1. /\ prompt' = Append(prompt, row) /\ home' = Append(home, t)
        /\ Note(Len(prompt'), t)
    BY <1>3 DEF InsertPrompt
  <2>2. row \in Prompt /\ row.topic = t
    BY <1>1 DEF Prompt
  <2> HIDE DEF row
  <2>3. /\ prompt' \in Seq(Prompt) /\ Len(prompt') = n
        /\ prompt'[n] = row /\ \A p \in DOMAIN prompt : prompt'[p] = prompt[p]
        /\ DOMAIN prompt' = DOMAIN prompt \cup {n}
    BY <2>1, <2>2, Parts
  <2>4. /\ home' \in Seq(Nat)
        /\ home'[n] = t /\ \A p \in DOMAIN prompt : home'[p] = home[p]
        /\ DOMAIN home' = DOMAIN home \cup {n}
    BY <1>1, <2>1, Parts
  <2>5. /\ crossed \subseteq crossed' /\ crossed' \subseteq crossed \cup {n}
        /\ Crosses(n, t) => n \in crossed'
    BY <2>1, <2>3 DEF Note
  <2>6. /\ req' \in [Handlers -> Request]
        /\ \A k \in Handlers : RequestOK(req[k])'
        /\ \A q, x : Crosses(q, x)' => Crosses(q, x)
    BY <1>1, <2>3, <2>4, Parts, Answered
  <2>7. /\ \A p \in DOMAIN prompt' : prompt'[p].topic \in DOMAIN topic' \cup {NoTopic}
        /\ \A p \in DOMAIN home' : home'[p] \in 1 .. last'
    BY <1>1, <1>3, <2>2, <2>3, <2>4, Parts
  <2>8. /\ DOMAIN home' = DOMAIN prompt' /\ crossed' \subseteq DOMAIN prompt'
        /\ DOMAIN topic' \subseteq 1 .. last' /\ \A s \in DOMAIN topic' : topic'[s] \in Topic
        /\ last' \in Nat
    BY <1>1, <2>3, <2>4, <2>5, Parts
  <2>9. TypeOK'
    BY <1>1, <2>3, <2>6, <2>7, <2>8, Parts DEF TypeOK
  <2>10. ASSUME NEW p \in DOMAIN prompt'
         PROVE  /\ prompt'[p].topic = home'[p] \/ (prompt'[p].topic = NoTopic /\ p \in crossed')
                /\ FoundPrompt(p)' /\ Crosses(p, home[p])' => p \in crossed'
    <3>1. CASE p = n
      BY <2>2, <2>3, <2>4, <2>5, <2>6, <3>1
    <3>2. CASE p \in DOMAIN prompt
      <4>1. FoundPrompt(p)' => FoundPrompt(p)
        BY <2>3, <3>2 DEF FoundPrompt
      <4>2. Crosses(p, home[p])' => Crosses(p, home[p])
        BY <2>4, <2>6, <3>2
      <4>3. QED
        BY <2>3, <2>4, <2>5, <3>2, <4>1, <4>2 DEF IInv
    <3>3. QED
      BY <2>3, <2>10, <3>1, <3>2
  <2>11. QED
    BY <2>4, <2>6, <2>9, <2>10 DEF IInv
<1>4. QED
  BY <1>2, <1>3

LEMMA StepKeeps ==
  ASSUME IInv, [Next]_vars
  PROVE  IInv'
<1>1. CASE UNCHANGED vars
  BY <1>1 DEF vars, IInv, TypeOK, RequestOK, FoundPrompt, Crosses
<1>2. ASSUME NEW h \in Handlers, Continue(h)
      PROVE  IInv'
  BY <1>2, InsertTopicKeeps, SaveTopicKeeps, DeleteRowKeeps, InsertPromptKeeps, SavePromptKeeps
     DEF Continue
<1>3. QED
  BY <1>1, <1>2, ArriveKeeps, RemoveTopicKeeps, RemovePromptKeeps DEF Next

\* The invariant holds however many commands cross, on however many topics and prompts.
THEOREM InvariantHolds == Spec => []IInv
<1>1. Init => IInv
  BY InitOK
<1>2. IInv /\ [Next]_vars => IInv'
  BY StepKeeps
<1>3. QED
  BY <1>1, <1>2, PTL DEF Spec

\* A prompt's topic is always a row, whichever of its insert and the topic's removal
\* comes first.
THEOREM PromptsHaveRows == Spec => []TypeOK
<1>1. IInv => TypeOK
  BY DEF IInv
<1>2. QED
  BY <1>1, InvariantHolds, PTL

\* A game draws only prompts written for the topic that was chosen.
THEOREM OnlyOwnPromptsAreDrawn == Spec => []NothingForeignIsDrawn
<1>1. ASSUME IInv
      PROVE  NothingForeignIsDrawn
  <2>1. ASSUME NEW t \in DOMAIN topic, NEW p \in Drawable(t)
        PROVE  home[p] = t
    <3>1. p \in DOMAIN prompt /\ prompt[p].topic = t
      BY <2>1 DEF Drawable, PromptsOf, PromptRows
    <3>2. t # NoTopic
      BY <1>1, Parts DEF NoTopic
    <3>3. QED
      BY <1>1, <3>1, <3>2 DEF IInv
  <2>2. QED
    BY <2>1 DEF NothingForeignIsDrawn
<1>2. QED
  BY <1>1, InvariantHolds, PTL

\* A prompt in use is lost to its topic only when a list without it was in a handler's
\* hand as it was stored.
THEOREM OnlyCrossingLoses == Spec => []LostOnlyByCrossing
<1>1. IInv => LostOnlyByCrossing
  BY DEF IInv, LostOnlyByCrossing, Drawable, PromptsOf, PromptRows, FoundPrompt
<1>2. QED
  BY <1>1, InvariantHolds, PTL

-----------------------------------------------------------------------------
(* What is removed                                                          *)

\* Requests begin to hold only what they have found.
LEMMA OnlyFoundIsHeld ==
  ASSUME IInv, [Next]_vars
  PROVE  /\ \A t : Held("topic.save", t)' => Held("topic.save", t) \/ Found(t)
         /\ \A p : Held("prompt.save", p)' => Held("prompt.save", p) \/ FoundPrompt(p)
<1>1. ASSUME NEW h \in Handlers, Continue(h)
      PROVE  \A k \in Handlers : req'[k] = req[k] \/ req'[k].pc = "idle"
  BY <1>1, Parts DEF Continue, InsertTopic, SaveTopic, DeleteRow, InsertPrompt, SavePrompt, Reply, Idle
<1>2. ASSUME NEW h \in Handlers, Arrive(h)
      PROVE  \A k \in Handlers :
               \/ req'[k] = req[k]
               \/ req'[k].pc = "topic.save" /\ Found(req'[k].id)
               \/ req'[k].pc = "prompt.save" /\ FoundPrompt(req'[k].id)
               \/ req'[k].pc \notin {"topic.save", "prompt.save"}
  <2>1. CASE CreateTopic(h)
    <3>1. PICK r : Waiting(h, r) /\ r.pc = "topic.insert"
      BY <2>1 DEF CreateTopic
    <3>2. QED
      BY <3>1, Parts DEF Waiting
  <2>2. CASE SwitchTopic(h)
    <3>1. PICK r : Waiting(h, r) /\ r.pc = "topic.save" /\ Found(r.id)
      BY <2>2 DEF SwitchTopic
    <3>2. QED
      BY <3>1, Parts DEF Waiting
  <2>3. CASE UpdateTopic(h)
    <3>1. PICK r : Waiting(h, r) /\ r.pc = "topic.save" /\ Found(r.id)
      BY <2>3 DEF UpdateTopic
    <3>2. QED
      BY <3>1, Parts DEF Waiting
  <2>4. CASE DeleteTopic(h)
    <3>1. PICK r : Waiting(h, r) /\ r.pc = "topic.remove"
      BY <2>4 DEF DeleteTopic
    <3>2. QED
      BY <3>1, Parts DEF Waiting
  <2>5. CASE CreatePrompt(h)
    <3>1. PICK r : Waiting(h, r) /\ r.pc = "prompt.insert"
      BY <2>5 DEF CreatePrompt
    <3>2. QED
      BY <3>1, Parts DEF Waiting
  <2>6. CASE UpdatePrompt(h)
    <3>1. PICK r : Waiting(h, r) /\ r.pc = "prompt.save" /\ FoundPrompt(r.id)
      BY <2>6 DEF UpdatePrompt
    <3>2. QED
      BY <3>1, Parts DEF Waiting
  <2>7. QED
    BY <1>2, <2>1, <2>2, <2>3, <2>4, <2>5, <2>6 DEF Arrive
<1>3. CASE RemoveTopic \/ RemovePrompt \/ UNCHANGED vars
  BY <1>3 DEF RemoveTopic, RemovePrompt, vars, Held
<1>4. QED
  BY <1>1, <1>2, <1>3 DEF Next, Held

\* Only a handler that holds a topic, or a prompt, makes it found again.
LEMMA OnlyHeldIsFound ==
  ASSUME IInv, [Next]_vars
  PROVE  /\ last <= last'
         /\ \A t \in 1 .. last : Found(t)' => Found(t) \/ Held("topic.save", t)
         /\ DOMAIN prompt \subseteq DOMAIN prompt'
         /\ \A p \in DOMAIN prompt : FoundPrompt(p)' => FoundPrompt(p) \/ Held("prompt.save", p)
<1> DEFINE G == /\ last <= last'
                /\ \A t \in 1 .. last : Found(t)' => Found(t) \/ Held("topic.save", t)
                /\ DOMAIN prompt \subseteq DOMAIN prompt'
                /\ \A p \in DOMAIN prompt : FoundPrompt(p)' => FoundPrompt(p) \/ Held("prompt.save", p)
<1>1. ASSUME UNCHANGED <<topic, last, prompt>>
      PROVE  G
  BY <1>1, Parts DEF Found, FoundPrompt
<1>2. ASSUME NEW h \in Handlers, Arrive(h)
      PROVE  G
  BY <1>1, <1>2 DEF Arrive, CreateTopic, SwitchTopic, UpdateTopic, DeleteTopic, CreatePrompt, UpdatePrompt
<1>3. ASSUME NEW h \in Handlers, InsertTopic(h)
      PROVE  G
  <2>1. /\ last' = last + 1 /\ prompt' = prompt
        /\ topic' = topic \/ Put(last + 1, req[h].row)
    BY <1>3 DEF InsertTopic
  <2>2. \A t \in 1 .. last : t \in DOMAIN topic' => t \in DOMAIN topic /\ topic'[t] = topic[t]
    BY <2>1, Parts DEF Put
  <2>3. QED
    BY <2>1, <2>2, Parts DEF Found, FoundPrompt
<1>4. ASSUME NEW h \in Handlers, SaveTopic(h)
      PROVE  G
  <2>1. /\ req[h].pc = "topic.save" /\ last' = last
        /\ topic' = topic \/ Put(req[h].id, req[h].row)
        /\ prompt' = prompt \/ (req[h].prompts # Unlisted /\ prompt' = Linked(req[h].id, req[h].prompts))
    BY <1>4 DEF SaveTopic
  <2>2. \A t \in 1 .. last : Found(t)' => Found(t) \/ t = req[h].id
    BY <2>1 DEF Put, Found
  <2>3. /\ DOMAIN prompt' = DOMAIN prompt
        /\ \A p \in DOMAIN prompt : prompt'[p].gone = prompt[p].gone
    BY <2>1, LinkedOK
  <2>4. QED
    BY <2>1, <2>2, <2>3, Parts DEF Found, FoundPrompt, Held
<1>5. ASSUME NEW h \in Handlers, DeleteRow(h)
      PROVE  G
  <2>1. last' = last /\ prompt' = prompt /\ \A t \in DOMAIN topic' : t \in DOMAIN topic /\ topic'[t] = topic[t]
    BY <1>5 DEF DeleteRow
  <2>2. QED
    BY <2>1, Parts DEF Found, FoundPrompt
<1>6. ASSUME NEW h \in Handlers, InsertPrompt(h)
      PROVE  G
  <2>1. /\ last' = last /\ topic' = topic
        /\ prompt' = prompt \/ \E row : prompt' = Append(prompt, row)
    BY <1>6 DEF InsertPrompt
  <2>2. /\ DOMAIN prompt \subseteq DOMAIN prompt'
        /\ \A p \in DOMAIN prompt : prompt'[p] = prompt[p]
    BY <2>1, Parts
  <2>3. QED
    BY <2>1, <2>2, Parts DEF Found, FoundPrompt
<1>7. ASSUME NEW h \in Handlers, SavePrompt(h)
      PROVE  G
  <2>1. /\ last' = last /\ topic' = topic /\ req[h].pc = "prompt.save"
        /\ DOMAIN prompt' = DOMAIN prompt
        /\ \A p \in DOMAIN prompt : p # req[h].id => prompt'[p] = prompt[p]
    BY <1>7 DEF SavePrompt
  <2>2. QED
    BY <2>1, Parts DEF Found, FoundPrompt, Held
<1>8. CASE RemoveTopic
  <2>1. /\ last' = last /\ prompt' = prompt /\ DOMAIN topic' = DOMAIN topic
        /\ \A t \in DOMAIN topic : topic[t].gone => topic'[t].gone
    BY <1>8, Parts DEF RemoveTopic, Topic
  <2>2. QED
    BY <2>1, Parts DEF Found, FoundPrompt
<1>9. CASE RemovePrompt
  <2>1. /\ last' = last /\ topic' = topic /\ DOMAIN prompt' = DOMAIN prompt
        /\ \A p \in DOMAIN prompt : prompt[p].gone => prompt'[p].gone
    BY <1>9, Parts DEF RemovePrompt, Prompt
  <2>2. QED
    BY <2>1, Parts DEF Found, FoundPrompt
<1>10. CASE UNCHANGED vars
  BY <1>1, <1>10 DEF vars
<1>11. QED
  BY <1>2, <1>3, <1>4, <1>5, <1>6, <1>7, <1>8, <1>9, <1>10 DEF Next, Continue

\* What was removed and is in nobody's hand is never found again.
THEOREM RemovedStaysRemoved == Spec => RemovedIsForgotten
<1>1. ASSUME IInv, [Next]_vars
      PROVE  /\ \A t \in 1 .. last : ForgottenTopic(t) => ForgottenTopic(t)'
             /\ \A p \in DOMAIN prompt : ForgottenPrompt(p) => ForgottenPrompt(p)'
  <2>1. last \in Nat /\ last' \in Nat
    BY <1>1, StepKeeps, Parts DEF IInv, TypeOK
  <2>2. QED
    BY <1>1, <2>1, OnlyFoundIsHeld, OnlyHeldIsFound DEF ForgottenTopic, ForgottenPrompt
<1>2. IInv /\ [Next]_vars =>
        [/\ \A t \in 1 .. last : ForgottenTopic(t) => ForgottenTopic(t)'
         /\ \A p \in DOMAIN prompt : ForgottenPrompt(p) => ForgottenPrompt(p)']_vars
  BY <1>1
<1>3. QED
  BY <1>2, InvariantHolds, PTL DEF Spec, RemovedIsForgotten
=============================================================================
