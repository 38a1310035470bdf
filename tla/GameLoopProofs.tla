---------------------------- MODULE GameLoopProofs ----------------------------
(***************************************************************************)
(* Proofs that GameLoop keeps its invariant, and of what follows from it,   *)
(* for every number of users, handlers, calls, rows and rounds.             *)
(***************************************************************************)
EXTENDS GameLoopInvariant, FiniteSetTheorems, TLAPS

-----------------------------------------------------------------------------
(* What the mapper does to games that are all right.  A later moment is one  *)
(* when more has been told and inserted.                                     *)

Later(t, i, t2, i2) ==
  /\ t \subseteq t2
  /\ \A p \in Profiles : /\ i.vote[p] > 0 => i2.vote[p] > 0
                         /\ i.answer[p] > 0 => i2.answer[p] > 0

\* A game just set up is all right, whatever was told.
LEMMA NewGameOK ==
  ASSUME NEW t, NEW i
  PROVE  GameOK(NewGame, t, i)
<1>1. NewGame \in Game
  BY SeatsAssumption DEF NewGame, Game, GameState, GameSubstate
<1>2. IsFiniteSet(NewGame.rounds)
  BY FS_EmptySet DEF NewGame
<1>3. QED
  BY <1>1, <1>2 DEF GameOK, NewGame

\* A copy in memory stays all right while the system goes on.
LEMMA GameOKLater ==
  ASSUME NEW g, NEW t, NEW i, NEW t2, NEW i2,
         Later(t, i, t2, i2), GameOK(g, t, i)
  PROVE  GameOK(g, t2, i2)
<1>1. \A e : Heard(e, t) => Heard(e, t2)
  BY DEF Later, Heard
<1>2. \A p \in Profiles : Earned(p, t, i) => Earned(p, t2, i2)
  BY <1>1 DEF Earned, Later
<1>3. \A a \in g.answers : i2.answer[a.by] > 0
  BY DEF GameOK, Game, Answer, Later
<1>4. \A v \in g.votes : i2.vote[v.by] > 0
  BY DEF GameOK, Game, Vote, Later
<1>5. QED
  BY <1>1, <1>2, <1>3, <1>4 DEF GameOK, Later

\* preload makes an object that is all right from two that are; its columns are
\* those of the stale one.
LEMMA PreloadOK ==
  ASSUME NEW d, NEW g, NEW t, NEW i, GameOK(d, t, i), GameOK(g, t, i)
  PROVE  /\ GameOK(Preload(d, g), t, i)
         /\ Preload(d, g).status = g.status
         /\ Preload(d, g).substate = g.substate
         /\ Preload(d, g).rounds = g.rounds \cup d.rounds
<1> DEFINE n == Preload(d, g)
<1>1. d \in Game /\ g \in Game
  BY DEF GameOK
<1>2. /\ n.status = g.status /\ n.substate = g.substate
      /\ n.players = g.players \cup d.players
      /\ n.rounds = g.rounds \cup d.rounds
      /\ n.answers = g.answers \cup d.answers
      /\ n.votes = g.votes \cup d.votes
      /\ n.score = Merged(d, g)
  BY <1>1 DEF Preload, Game
<1>3. \A p \in Profiles : n.score[p] \in {g.score[p], d.score[p]}
  BY <1>2 DEF Merged
<1>4. n.score \in [Profiles -> Nat]
  BY <1>1, <1>2 DEF Merged, Game
<1>5. n \in Game
  BY <1>1, <1>4 DEF Preload, Game, Merged
<1>6. IsFiniteSet(n.rounds)
  <2>1. IsFiniteSet(g.rounds) /\ IsFiniteSet(d.rounds)
    BY DEF GameOK
  <2>2. IsFiniteSet(g.rounds \cup d.rounds)
    BY <2>1, FS_Union
  <2>3. QED
    BY <1>2, <2>2
<1>7. QED
  BY <1>2, <1>3, <1>5, <1>6 DEF GameOK

\* save leaves rows that are all right when the object and the rows were; the
\* columns and the rounds are those of the object.
LEMMA SaveOK ==
  ASSUME NEW d, NEW g, NEW t, NEW i, GameOK(d, t, i), GameOK(g, t, i)
  PROVE  /\ GameOK(Save(d, g), t, i)
         /\ Save(d, g).status = g.status
         /\ Save(d, g).rounds = g.rounds
<1> DEFINE n == Save(d, g)
<1>1. d \in Game /\ g \in Game
  BY DEF GameOK
<1>2. /\ n.status = g.status /\ n.substate = g.substate
      /\ n.rounds = g.rounds
      /\ n.answers \subseteq g.answers \cup d.answers
      /\ n.votes \subseteq g.votes \cup d.votes
      /\ n.score = Merged(d, g)
  BY <1>1 DEF Save, Game, Elsewhere
<1>3. \A p \in Profiles : n.score[p] \in {g.score[p], d.score[p]}
  BY <1>2 DEF Merged
<1>4. n.score \in [Profiles -> Nat]
  BY <1>1, <1>2 DEF Merged, Game
<1>5. n \in Game
  BY <1>1, <1>2, <1>4 DEF Save, Game
<1>6. QED
  BY <1>2, <1>3, <1>5 DEF GameOK

\* The three operations on the row of one player.
LEMMA PlayerViewOK ==
  ASSUME NEW d, NEW t, NEW i, NEW p \in Profiles, GameOK(d, t, i)
  PROVE  GameOK(PlayerView(d, p), t, i)
<1> DEFINE n == PlayerView(d, p)
<1>1. d \in Game /\ GameOK(NewGame, t, i)
  BY NewGameOK DEF GameOK
<1>2. /\ n.status = "preparing" /\ n.substate = "n/a" /\ n.rounds = {}
      /\ n.answers \subseteq d.answers /\ n.votes \subseteq d.votes
      /\ n.score = [NewGame.score EXCEPT ![p] = d.score[p]]
  BY DEF PlayerView, NewGame, RowsOf
<1>3. n.score \in [Profiles -> Nat] /\ \A q \in Profiles : n.score[q] \in {0, d.score[q]}
  BY <1>1, <1>2 DEF NewGame, Game
<1>4. n \in Game
  BY <1>1, <1>3 DEF PlayerView, NewGame, Game, GameState, GameSubstate, RowsOf
<1>5. QED
  BY <1>2, <1>3, <1>4, FS_EmptySet DEF GameOK

LEMMA PreloadPlayerOK ==
  ASSUME NEW d, NEW g, NEW t, NEW i, NEW p \in Profiles, GameOK(d, t, i), GameOK(g, t, i)
  PROVE  GameOK(PreloadPlayer(d, g, p), t, i)
<1> DEFINE n == PreloadPlayer(d, g, p)
<1>1. d \in Game /\ g \in Game
  BY DEF GameOK
<1>2. /\ n.status = g.status /\ n.substate = g.substate
      /\ n.rounds = g.rounds /\ n.score = g.score
      /\ n.answers \subseteq g.answers \cup d.answers
      /\ n.votes \subseteq g.votes \cup d.votes
  BY <1>1 DEF PreloadPlayer, Game, RowsOf
<1>3. n \in Game
  BY <1>1 DEF PreloadPlayer, Game, RowsOf
<1>4. QED
  BY <1>2, <1>3 DEF GameOK

LEMMA SavePlayerOK ==
  ASSUME NEW d, NEW g, NEW t, NEW i, NEW p \in Profiles, GameOK(d, t, i), GameOK(g, t, i)
  PROVE  /\ GameOK(SavePlayer(d, g, p), t, i)
         /\ SavePlayer(d, g, p).status = d.status
         /\ SavePlayer(d, g, p).rounds = d.rounds
<1> DEFINE n == SavePlayer(d, g, p)
<1>1. d \in Game /\ g \in Game
  BY DEF GameOK
<1>2. /\ n.status = d.status /\ n.substate = d.substate /\ n.rounds = d.rounds
      /\ n.answers \subseteq g.answers \cup d.answers
      /\ n.votes \subseteq g.votes \cup d.votes
      /\ n.score = [d.score EXCEPT ![p] = g.score[p]]
  BY <1>1 DEF SavePlayer, Game
<1>3. /\ n.score \in [Profiles -> Nat]
      /\ \A q \in Profiles : n.score[q] \in {g.score[q], d.score[q]}
  BY <1>1, <1>2 DEF Game
<1>4. n \in Game
  BY <1>1, <1>2, <1>3 DEF SavePlayer, Game
<1>5. QED
  BY <1>2, <1>3, <1>4 DEF GameOK

-----------------------------------------------------------------------------
(* Handlers and calls that a step does not touch                            *)

\* A waiting handler stays all right while the system goes on.
LEMMA RequestLater ==
  ASSUME NEW r, NEW t, NEW i, NEW t2, NEW i2,
         Later(t, i, t2, i2), RequestOK(r, t, i)
  PROVE  RequestOK(r, t2, i2)
<1>1. GameOK(r.view, t2, i2)
  BY GameOKLater DEF RequestOK
<1>2. t \subseteq t2 /\ (Begun(t) => Begun(t2))
  BY DEF Later, Begun
<1>3. QED
  BY <1>1, <1>2 DEF RequestOK

\* So does a call.
LEMMA CallLater ==
  ASSUME NEW c, NEW t, NEW i, NEW t2, NEW i2,
         Later(t, i, t2, i2), CallOK(c, t, i)
  PROVE  CallOK(c, t2, i2)
<1>1. GameOK(c.view, t2, i2)
  BY GameOKLater DEF CallOK
<1>2. t \subseteq t2 /\ (Begun(t) => Begun(t2))
  BY DEF Later, Begun
<1>3. \A e : Heard(e, t) => Heard(e, t2)
  BY <1>2 DEF Heard
<1>4. \A p \in Profiles : Earned(p, t, i) => Earned(p, t2, i2)
  BY <1>3 DEF Earned, Later
<1>5. QED
  BY <1>1, <1>2, <1>3, <1>4 DEF CallOK

LEMMA IdleOK ==
  ASSUME NEW t, NEW i
  PROVE  RequestOK(Idle, t, i)
<1>1. Idle \in Request /\ GameOK(NewGame, t, i)
  BY NewGameOK DEF Idle, Request, Waits, NoRound, Round, GameOK
<1>2. QED
  BY <1>1 DEF RequestOK, Idle

LEMMA NoJobOK ==
  ASSUME NEW t, NEW i
  PROVE  CallOK(NoJob, t, i)
<1>1. GameOK(NewGame, t, i)
  BY NewGameOK
<1>2. NoJob \in Job
  BY <1>1, UsersAssumption
  DEF NoJob, Job, Ballot, Tasks, NoRound, Round, GameOK, GameState, GameSubstate
<1>3. QED
  BY <1>1, <1>2 DEF CallOK, NoJob

\* What a step has to leave behind for the invariant to hold after it: the handlers
\* and the calls it changes are all right, and so are the rows and what is told.
LEMMA StepKeepsIInv ==
  ASSUME IInv,
         Later(told, ids, told', ids'),
         req' \in [Handlers -> Request], job' \in [Jobs -> Job],
         \A h \in Handlers : req'[h] # req[h] => RequestOK(req'[h], told', ids'),
         \A j \in Jobs : job'[j] # job[j] => CallOK(job'[j], told', ids'),
         GameOK(db', told', ids'), Started(db') => Begun(told'),
         ids' \in [round : Nat, answer : [Profiles -> Nat], vote : [Profiles -> Nat]],
         told' \subseteq Announcement, gamers' \subseteq Users, up' \in BOOLEAN,
         ToldInOrder'
  PROVE  IInv'
<1>1. \A h \in Handlers : RequestOK(req'[h], told', ids')
  <2> SUFFICES ASSUME NEW h \in Handlers, req'[h] = req[h]
               PROVE  RequestOK(req'[h], told', ids')
    OBVIOUS
  <2>1. RequestOK(req[h], told, ids)
    BY DEF IInv
  <2>2. QED
    BY <2>1, RequestLater
<1>2. \A j \in Jobs : CallOK(job'[j], told', ids')
  <2> SUFFICES ASSUME NEW j \in Jobs, job'[j] = job[j]
               PROVE  CallOK(job'[j], told', ids')
    OBVIOUS
  <2>1. CallOK(job[j], told, ids)
    BY DEF IInv
  <2>2. QED
    BY <2>1, CallLater
<1>3. \A h \in Handlers : IsFiniteSet(req'[h].view.rounds)
  BY <1>1 DEF RequestOK, GameOK
<1>4. \A j \in Jobs : IsFiniteSet(job'[j].view.rounds)
  BY <1>2 DEF CallOK, GameOK
<1>5. db' \in Game /\ IsFiniteSet(db'.rounds)
  BY DEF GameOK
<1>6. TypeOK'
  BY <1>3, <1>4, <1>5 DEF TypeOK
<1>7. QED
  BY <1>1, <1>2, <1>6 DEF IInv, Started, Begun

-----------------------------------------------------------------------------
(* Handlers that wait, and calls that start                                 *)

\* A handler that comes to an await changes its own slot only.
LEMMA AwaitOK ==
  ASSUME NEW h \in Handlers, NEW pc, NEW view, NEW round, NEW todo,
         req \in [Handlers -> Request], Await(h, pc, view, round, todo),
         RequestOK([pc |-> pc, view |-> view, round |-> round, todo |-> todo],
                   told', ids')
  PROVE  /\ req' \in [Handlers -> Request]
         /\ \A k \in Handlers : req'[k] # req[k] => RequestOK(req'[k], told', ids')
BY DEF Await, RequestOK

LEMMA ReplyOK ==
  ASSUME NEW h \in Handlers, req \in [Handlers -> Request], Reply(h)
  PROVE  /\ req' \in [Handlers -> Request]
         /\ \A k \in Handlers : req'[k] # req[k] => RequestOK(req'[k], told', ids')
<1>1. RequestOK(Idle, told', ids')
  BY IdleOK
<1>2. QED
  BY <1>1 DEF Reply, RequestOK

LEMMA StartOK ==
  ASSUME NEW j \in Jobs, NEW c, job \in [Jobs -> Job], Start(j, c),
         CallOK(c, told', ids')
  PROVE  /\ job' \in [Jobs -> Job]
         /\ \A k \in Jobs : job'[k] # job[k] => CallOK(job'[k], told', ids')
BY DEF Start, CallOK

\* The calls the handlers make, with what makes each of them all right.
LEMMA CallsOK ==
  ASSUME NEW t, NEW i
  PROVE  /\ \A u \in Users, r \in Round : CallOK(AddAnswer(u, r), t, i)
         /\ \A u \in Users, r \in Round, ballot \in Ballot : CallOK(AddVote(u, r, ballot), t, i)
         /\ \A p \in Profiles, n \in Nat :
              (n > 0 => Earned(p, t, i)) => CallOK(AddScore(p, n), t, i)
         /\ \A from \in GameSubstate, to \in GameSubstate :
              /\ Begun(t)
              /\ to = "voting" => Heard("allAnswersSubmitted", t)
              /\ to = "showing_results" => Heard("allVotesSubmitted", t)
              => CallOK(SwitchSubstate(from, to), t, i)
         /\ Begun(t) /\ Finale \subseteq t =>
              CallOK(SwitchState("in_progress", "final_results"), t, i)
<1>1. NoJob \in Job /\ NoJob.pc = "load" /\ NoJob.view = NewGame /\ GameOK(NewGame, t, i)
  BY NoJobOK, NewGameOK DEF CallOK, NoJob
<1>2. \A u \in Users, r \in Round : CallOK(AddAnswer(u, r), t, i)
  <2> TAKE u \in Users, r \in Round
  <2> DEFINE c == AddAnswer(u, r)
  <2>1. c \in Job /\ c.task = "addAnswer" /\ c.pc = "load" /\ c.view = NewGame
    BY <1>1 DEF AddAnswer, Job, Tasks
  <2> HIDE DEF c
  <2>2. QED
    BY <1>1, <2>1 DEF CallOK, c
<1>3. \A u \in Users, r \in Round, ballot \in Ballot : CallOK(AddVote(u, r, ballot), t, i)
  <2> TAKE u \in Users, r \in Round, ballot \in Ballot
  <2> DEFINE c == AddVote(u, r, ballot)
  <2>1. c \in Job /\ c.task = "addVote" /\ c.pc = "load" /\ c.view = NewGame
    BY <1>1 DEF AddVote, Job, Tasks
  <2> HIDE DEF c
  <2>2. QED
    BY <1>1, <2>1 DEF CallOK, c
<1>4. \A p \in Profiles, n \in Nat :
        (n > 0 => Earned(p, t, i)) => CallOK(AddScore(p, n), t, i)
  <2> TAKE p \in Profiles, n \in Nat
  <2> HAVE n > 0 => Earned(p, t, i)
  <2> DEFINE c == AddScore(p, n)
  <2>1. /\ c \in Job /\ c.task = "addScore" /\ c.pc = "load"
        /\ c.who = p /\ c.points = n /\ c.view = NewGame
    BY <1>1 DEF AddScore, Job, Tasks
  <2> HIDE DEF c
  <2>2. QED
    BY <1>1, <2>1 DEF CallOK, c
<1>5. \A from \in GameSubstate, to \in GameSubstate :
        /\ Begun(t)
        /\ to = "voting" => Heard("allAnswersSubmitted", t)
        /\ to = "showing_results" => Heard("allVotesSubmitted", t)
        => CallOK(SwitchSubstate(from, to), t, i)
  <2> TAKE from \in GameSubstate, to \in GameSubstate
  <2> HAVE /\ Begun(t)
           /\ to = "voting" => Heard("allAnswersSubmitted", t)
           /\ to = "showing_results" => Heard("allVotesSubmitted", t)
  <2> DEFINE c == SwitchSubstate(from, to)
  <2>1. c \in Job /\ c.task = "switchSubstate" /\ c.pc = "load" /\ c.to = to /\ c.view = NewGame
    BY <1>1 DEF SwitchSubstate, Job, Tasks
  <2> HIDE DEF c
  <2>2. QED
    BY <1>1, <2>1 DEF CallOK, c
<1>6. Begun(t) /\ Finale \subseteq t =>
        CallOK(SwitchState("in_progress", "final_results"), t, i)
  <2> HAVE Begun(t) /\ Finale \subseteq t
  <2> DEFINE c == SwitchState("in_progress", "final_results")
  <2>1. /\ c \in Job /\ c.task = "switchState" /\ c.pc = "load"
        /\ c.to = "final_results" /\ c.view = NewGame
    BY <1>1 DEF SwitchState, Job, Tasks, GameState
  <2> HIDE DEF c
  <2>2. QED
    BY <1>1, <2>1 DEF CallOK, c
<1>7. QED
  BY <1>2, <1>3, <1>4, <1>5, <1>6

-----------------------------------------------------------------------------
(* Steps that leave the rows alone                                          *)

LEMMA InvariantParts ==
  ASSUME IInv
  PROVE  /\ req \in [Handlers -> Request] /\ job \in [Jobs -> Job]
         /\ ids \in [round : Nat, answer : [Profiles -> Nat], vote : [Profiles -> Nat]]
         /\ told \subseteq Announcement /\ gamers \subseteq Users /\ up \in BOOLEAN
         /\ Later(told, ids, told, ids)
         /\ \A h \in Handlers : RequestOK(req[h], told, ids)
         /\ \A j \in Jobs : CallOK(job[j], told, ids)
BY DEF IInv, TypeOK, Later

\* When the rows are not written, what a step tells must follow from what was told.
LEMMA MemoryStep ==
  ASSUME IInv, db' = db, ids' = ids, gamers' \subseteq Users, up' \in BOOLEAN,
         told \subseteq told', told' \subseteq Announcement, ToldInOrder',
         req' \in [Handlers -> Request], job' \in [Jobs -> Job],
         \A h \in Handlers : req'[h] # req[h] => RequestOK(req'[h], told', ids'),
         \A j \in Jobs : job'[j] # job[j] => CallOK(job'[j], told', ids')
  PROVE  IInv'
<1>1. Later(told, ids, told', ids')
  BY DEF Later
<1>2. GameOK(db, told, ids)
  BY DEF IInv
<1>3. GameOK(db', told', ids')
  BY <1>1, <1>2, GameOKLater
<1>4. Started(db') => Begun(told')
  BY DEF IInv, Started, Begun
<1>5. ids' \in [round : Nat, answer : [Profiles -> Nat], vote : [Profiles -> Nat]]
  BY InvariantParts
<1>6. QED
  BY <1>1, <1>3, <1>4, <1>5, StepKeepsIInv

\* The same when nothing is told either.
LEMMA SilentStep ==
  ASSUME IInv, db' = db, ids' = ids, told' = told, gamers' \subseteq Users, up' \in BOOLEAN,
         req' \in [Handlers -> Request], job' \in [Jobs -> Job],
         \A h \in Handlers : req'[h] # req[h] => RequestOK(req'[h], told', ids'),
         \A j \in Jobs : job'[j] # job[j] => CallOK(job'[j], told', ids')
  PROVE  IInv'
<1>1. told \subseteq told' /\ told' \subseteq Announcement /\ ToldInOrder'
  BY InvariantParts DEF IInv, ToldInOrder
<1>2. QED
  BY <1>1, MemoryStep

LEMMA StartGameKeeps ==
  ASSUME IInv, NEW h \in Handlers, NEW u \in Users, StartGame(h, u)
  PROVE  IInv'
<1> DEFINE g == [db EXCEPT !.status = "in_progress"]
           r == [pc |-> "start.preload", view |-> g, round |-> NoRound, todo |-> {}]
<1>1. /\ db' = db /\ ids' = ids /\ told' = told /\ job' = job
      /\ gamers' = gamers /\ up' = up
      /\ Await(h, "start.preload", g, NoRound, {})
  BY DEF StartGame
<1>2. GameOK(db, told, ids)
  BY DEF IInv
<1>3. GameOK(g, told, ids)
  BY <1>2 DEF GameOK, Game, GameState
<1>4. RequestOK(r, told', ids')
  BY <1>1, <1>3 DEF RequestOK, Request, Waits, NoRound, Round, GameOK
<1>5. QED
  BY <1>1, <1>4, AwaitOK, SilentStep, InvariantParts

LEMMA UpdateGameKeeps ==
  ASSUME IInv, NEW h \in Handlers, NEW u \in Users, UpdateGame(h, u)
  PROVE  IInv'
<1> DEFINE r == [pc |-> "update.preload", view |-> db, round |-> NoRound, todo |-> {}]
<1>1. /\ db' = db /\ ids' = ids /\ told' = told /\ job' = job
      /\ gamers' = gamers /\ up' = up
      /\ Await(h, "update.preload", db, NoRound, {})
  BY DEF UpdateGame
<1>2. GameOK(db, told, ids) /\ (Started(db) => Begun(told))
  BY DEF IInv
<1>3. RequestOK(r, told', ids')
  BY <1>1, <1>2 DEF RequestOK, Request, Waits, NoRound, Round, GameOK
<1>4. QED
  BY <1>1, <1>3, AwaitOK, SilentStep, InvariantParts

\* What preload adds to the object of an update was in the tables.
LEMMA UpdatePreloadKeeps ==
  ASSUME IInv, NEW h \in Handlers, UpdatePreload(h)
  PROVE  IInv'
<1> DEFINE v == req[h].view
           g == Preload(db, v)
<1>1. /\ db' = db /\ ids' = ids /\ told' = told /\ job' = job
      /\ gamers' = gamers /\ up' = up
  BY DEF UpdatePreload
<1>2. GameOK(db, told, ids) /\ RequestOK(req[h], told, ids) /\ (Started(db) => Begun(told))
  BY DEF IInv
<1>3. GameOK(v, told, ids)
  BY <1>2 DEF RequestOK
<1>4. GameOK(g, told, ids) /\ g.status = v.status /\ g.rounds = v.rounds \cup db.rounds
  BY <1>2, <1>3, PreloadOK
<1>5. Started(g) => Started(v) \/ Started(db)
  BY <1>4 DEF Started
<1>6. ASSUME NEW pc \in {"start.save", "update.save"}, Await(h, pc, g, NoRound, {}),
             pc = "update.save" => req[h].pc = "update.preload"
      PROVE  IInv'
  <2> DEFINE r == [pc |-> pc, view |-> g, round |-> NoRound, todo |-> {}]
  <2>1. pc = "update.save" /\ Started(g) => Begun(told)
    BY <1>2, <1>5, <1>6 DEF RequestOK
  <2> HIDE DEF g
  <2>2. RequestOK(r, told', ids')
    BY <1>1, <1>4, <2>1 DEF RequestOK, Request, Waits, NoRound, Round, GameOK
  <2>3. QED
    BY <1>1, <1>6, <2>2, AwaitOK, SilentStep, InvariantParts
<1>7. QED
  BY <1>6 DEF UpdatePreload

LEMMA ChooseTopicKeeps ==
  ASSUME IInv, NEW h \in Handlers, ChooseTopic(h)
  PROVE  IInv'
<1> DEFINE r == [pc |-> "round.create", view |-> db, round |-> NoRound, todo |-> {}]
<1>1. /\ db' = db /\ ids' = ids /\ told' = told /\ job' = job
      /\ gamers' = gamers /\ up' = up
      /\ Await(h, "round.create", db, NoRound, {})
      /\ db.status = "in_progress" /\ Cardinality(db.rounds) < TotalRounds
  BY DEF ChooseTopic, InState, RoundsRemain
<1>2. GameOK(db, told, ids) /\ Begun(told)
  BY <1>1 DEF IInv, Started
<1>3. RequestOK(r, told', ids')
  BY <1>1, <1>2 DEF RequestOK, Request, Waits, NoRound, Round, GameOK
<1>4. QED
  BY <1>1, <1>3, AwaitOK, SilentStep, InvariantParts

LEMMA EndGameKeeps ==
  ASSUME IInv, NEW h \in Handlers, NEW u \in Users, EndGame(h, u)
  PROVE  IInv'
<1> DEFINE g == [db EXCEPT !.status = "finished"]
           r == [pc |-> "end.save", view |-> g, round |-> NoRound, todo |-> {}]
<1>1. /\ db' = db /\ ids' = ids /\ told' = told /\ job' = job
      /\ gamers' = gamers /\ up' = up
      /\ Await(h, "end.save", g, NoRound, {})
      /\ db.status = "final_results"
  BY DEF EndGame, InState
<1>2. GameOK(db, told, ids) /\ Begun(told)
  BY <1>1 DEF IInv, Started
<1>3. GameOK(g, told, ids) /\ g.status = "finished"
  BY <1>1, <1>2 DEF GameOK, Game, GameState
<1>4. RequestOK(r, told', ids')
  BY <1>1, <1>2, <1>3 DEF RequestOK, Request, Waits, NoRound, Round, GameOK
<1>5. QED
  BY <1>1, <1>4, AwaitOK, SilentStep, InvariantParts

LEMMA SubmitAnswerKeeps ==
  ASSUME IInv, NEW h \in Handlers, NEW u \in Users, SubmitAnswer(h, u)
  PROVE  IInv'
<1>1. /\ db' = db /\ ids' = ids /\ told' = told /\ gamers' = gamers /\ up' = up
  BY DEF SubmitAnswer
<1>2. PICK round \in db.rounds, j \in Jobs :
        Start(j, AddAnswer(u, round)) /\ Await(h, "answers.count", NewGame, round, {})
  BY DEF SubmitAnswer, CurrentRounds
<1> DEFINE r == [pc |-> "answers.count", view |-> NewGame, round |-> round, todo |-> {}]
<1>3. GameOK(db, told, ids) /\ Begun(told)
  BY DEF IInv, Started
<1>4. round \in Round /\ round.number \in 1..TotalRounds
  BY <1>3 DEF GameOK, Game
<1>5. GameOK(NewGame, told, ids)
  BY NewGameOK
<1>6. RequestOK(r, told', ids')
  BY <1>1, <1>3, <1>4, <1>5 DEF RequestOK, Request, Waits, GameOK
<1>7. CallOK(AddAnswer(u, round), told', ids')
  BY <1>1, <1>4, CallsOK
<1>8. QED
  BY <1>1, <1>2, <1>6, <1>7, AwaitOK, StartOK, SilentStep, InvariantParts

LEMMA SubmitVoteKeeps ==
  ASSUME IInv, NEW h \in Handlers, NEW u \in Users, NEW ballot \in Ballots,
         SubmitVote(h, u, ballot)
  PROVE  IInv'
<1>1. /\ db' = db /\ ids' = ids /\ told' = told /\ gamers' = gamers /\ up' = up
  BY DEF SubmitVote
<1>2. PICK round \in db.rounds, j \in Jobs :
        Start(j, AddVote(u, round, ballot)) /\ Await(h, "votes.count", NewGame, round, {})
  BY DEF SubmitVote, CurrentRounds
<1> DEFINE r == [pc |-> "votes.count", view |-> NewGame, round |-> round, todo |-> {}]
<1>3. GameOK(db, told, ids) /\ Begun(told)
  BY DEF IInv, Started
<1>4. round \in Round /\ round.number \in 1..TotalRounds
  BY <1>3 DEF GameOK, Game
<1>5. GameOK(NewGame, told, ids)
  BY NewGameOK
<1>6. RequestOK(r, told', ids')
  BY <1>1, <1>3, <1>4, <1>5 DEF RequestOK, Request, Waits, GameOK
<1>7. CallOK(AddVote(u, round, ballot), told', ids')
  BY <1>1, <1>4, CallsOK, BallotsAssumption
<1>8. QED
  BY <1>1, <1>2, <1>6, <1>7, AwaitOK, StartOK, SilentStep, InvariantParts

\* A switch of the substate is in order once the game is started and, for the
\* voting and the results, once the room has heard that it is time for them.
LEMMA SwitchOK ==
  ASSUME NEW from \in GameSubstate, NEW to \in GameSubstate, Begun(told'),
         to = "voting" => Heard("allAnswersSubmitted", told'),
         to = "showing_results" => Heard("allVotesSubmitted", told')
  PROVE  CallOK(SwitchSubstate(from, to), told', ids')
BY CallsOK

\* What has been said of some round has been heard.
LEMMA SaidIsHeard ==
  ASSUME NEW e, NEW n, NEW t, Say(e, n) \in t
  PROVE  Heard(e, t)
<1>1. Say(e, n).event = e
  BY DEF Say
<1>2. QED
  BY <1>1 DEF Heard

\* Telling a prompt, a request for a topic or completed answers keeps the order
\* when the room knows that the game has started.
LEMMA TellOK ==
  ASSUME IInv, NEW a \in Announcement, told' = told \cup {a},
         a.event \in {"gameStarted", "chooseTopic", "answerPrompt", "allAnswersSubmitted",
                      "allVotesSubmitted"},
         a.event \in {"chooseTopic", "answerPrompt"} => Begun(told)
  PROVE  told \subseteq told' /\ told' \subseteq Announcement /\ ToldInOrder'
BY InvariantParts DEF IInv, ToldInOrder, Begun

LEMMA ChoseTopicKeeps ==
  ASSUME IInv, NEW h \in Handlers, ChoseTopic(h)
  PROVE  IInv'
<1>1. /\ db' = db /\ ids' = ids /\ gamers' = gamers /\ up' = up /\ Reply(h)
      /\ req[h].pc = "topics"
  BY DEF ChoseTopic
<1>2. CASE job' = job /\ told' = told
  BY <1>1, <1>2, ReplyOK, SilentStep, InvariantParts
<1>3. ASSUME NEW j \in Jobs, Start(j, SwitchSubstate(req[h].view.substate, "choosing_topic")),
             told' = told \cup {Say("chooseTopic", 0)}
      PROVE  IInv'
  <2>1. RequestOK(req[h], told, ids)
    BY DEF IInv
  <2>2. Begun(told) /\ req[h].view.substate \in GameSubstate
    BY <1>1, <2>1 DEF RequestOK, GameOK, Game
  <2>3. Begun(told')
    BY <1>3, <2>2 DEF Begun
  <2>4. CallOK(SwitchSubstate(req[h].view.substate, "choosing_topic"), told', ids')
    BY <2>2, <2>3, SwitchOK DEF GameSubstate
  <2>5. told \subseteq told' /\ told' \subseteq Announcement /\ ToldInOrder'
    BY <1>3, <2>2, TellOK DEF Say, Announcement, Event
  <2>6. QED
    BY <1>1, <1>3, <2>4, <2>5, ReplyOK, StartOK, MemoryStep, InvariantParts
<1>4. QED
  BY <1>2, <1>3 DEF ChoseTopic, Tell

LEMMA CountAnswersKeeps ==
  ASSUME IInv, NEW h \in Handlers, CountAnswers(h)
  PROVE  IInv'
<1> DEFINE n == req[h].round.number
<1>1. /\ db' = db /\ ids' = ids /\ gamers' = gamers /\ up' = up /\ Reply(h)
      /\ req[h].pc = "answers.count"
  BY DEF CountAnswers
<1>2. CASE job' = job /\ told' = told
  BY <1>1, <1>2, ReplyOK, SilentStep, InvariantParts
<1>3. ASSUME NEW j \in Jobs, Start(j, SwitchSubstate("giving_answer", "voting")),
             told' = told \cup {Say("allAnswersSubmitted", n)}
      PROVE  IInv'
  <2>1. RequestOK(req[h], told, ids)
    BY DEF IInv
  <2>2. Begun(told') /\ n \in Nat
    BY <1>1, <1>3, <2>1, RoundsAssumption DEF RequestOK, Begun
  <2>3. told \subseteq told' /\ told' \subseteq Announcement /\ ToldInOrder'
    BY <1>3, <2>2, TellOK DEF Say, Announcement, Event
  <2>4. Heard("allAnswersSubmitted", told')
    BY <1>3, SaidIsHeard
  <2>5. CallOK(SwitchSubstate("giving_answer", "voting"), told', ids')
    BY <2>2, <2>4, SwitchOK DEF GameSubstate
  <2>6. QED
    BY <1>1, <1>3, <2>3, <2>5, ReplyOK, StartOK, MemoryStep, InvariantParts
<1>4. QED
  BY <1>2, <1>3 DEF CountAnswers, Tell

LEMMA CountVotesKeeps ==
  ASSUME IInv, NEW h \in Handlers, CountVotes(h)
  PROVE  IInv'
<1> DEFINE round == req[h].round
           n == req[h].round.number
           r == [pc |-> "score", view |-> db, round |-> round, todo |-> db.players]
<1>1. /\ db' = db /\ ids' = ids /\ gamers' = gamers /\ up' = up
      /\ req[h].pc = "votes.count"
  BY DEF CountVotes
<1>2. CASE Reply(h) /\ job' = job /\ told' = told
  BY <1>1, <1>2, ReplyOK, SilentStep, InvariantParts
<1>3. ASSUME NEW j \in Jobs, Start(j, SwitchSubstate("voting", "showing_results")),
             told' = told \cup {Say("allVotesSubmitted", n)},
             Await(h, "score", db, round, db.players)
      PROVE  IInv'
  <2>1. RequestOK(req[h], told, ids) /\ GameOK(db, told, ids)
    BY DEF IInv
  <2>2. Begun(told') /\ n \in 1..TotalRounds /\ n \in Nat /\ round \in Round
    BY <1>1, <1>3, <2>1, RoundsAssumption DEF RequestOK, Request, Begun
  <2>3. told \subseteq told' /\ told' \subseteq Announcement /\ ToldInOrder'
    BY <1>3, <2>2, TellOK DEF Say, Announcement, Event
  <2>4. Heard("allVotesSubmitted", told')
    BY <1>3, SaidIsHeard
  <2>5. CallOK(SwitchSubstate("voting", "showing_results"), told', ids')
    BY <2>2, <2>4, SwitchOK DEF GameSubstate
  <2>6. GameOK(db, told', ids')
    BY <1>1, <2>1, <2>3, GameOKLater DEF Later
  <2>7. RequestOK(r, told', ids')
    BY <1>3, <2>2, <2>6 DEF RequestOK, Request, Waits, GameOK, Game
  <2>8. QED
    BY <1>1, <1>3, <2>3, <2>5, <2>7, AwaitOK, StartOK, MemoryStep, InvariantParts
<1>4. QED
  BY <1>2, <1>3 DEF CountVotes, Tell

\* No vote is linked to an answer, so a player scores only by an own right vote.
LEMMA PointsAre ==
  ASSUME NEW g, NEW t, NEW i, GameOK(db, t, i), GameOK(g, t, i),
         NEW a \in g.answers, NEW right
  PROVE  Points(a, right) = IF right THEN 20 ELSE 0
<1>1. a.id \in Nat /\ a.id > 0
  BY DEF GameOK, Game, Answer
<1>2. VotesForAnswer(db, a) = {}
  BY <1>1 DEF GameOK, NoAnswer, VotesForAnswer
<1>3. Cardinality(VotesForAnswer(db, a)) = 0
  BY <1>2, FS_EmptySet
<1>4. QED
  BY <1>3 DEF Points

LEMMA PointsOK ==
  ASSUME NEW g, NEW t, NEW i, GameOK(db, t, i), GameOK(g, t, i),
         NEW a \in g.answers, NEW votes, NEW right \in FoundOut(votes)
  PROVE  Points(a, right) \in Nat /\ (Points(a, right) > 0 => votes # {})
<1>1. Points(a, right) = IF right THEN 20 ELSE 0
  BY PointsAre
<1>2. right => votes # {}
  BY DEF FoundOut
<1>3. QED
  BY <1>1, <1>2

LEMMA ScorePlayerKeeps ==
  ASSUME IInv, NEW h \in Handlers, ScorePlayer(h)
  PROVE  IInv'
<1> DEFINE g == req[h].view
           round == req[h].round
<1>1. /\ db' = db /\ ids' = ids /\ told' = told /\ gamers' = gamers /\ up' = up
      /\ req[h].pc = "score"
  BY DEF ScorePlayer
<1>2. GameOK(db, told, ids) /\ RequestOK(req[h], told, ids)
  BY DEF IInv
<1>3. /\ GameOK(g, told, ids) /\ Begun(told) /\ round \in Round
      /\ round.number \in 1..TotalRounds /\ req[h].todo \subseteq Profiles
      /\ Say("allVotesSubmitted", round.number) \in told
  BY <1>1, <1>2 DEF RequestOK, Request
<1>4. CASE Reply(h) /\ job' = job
  BY <1>1, <1>4, ReplyOK, SilentStep, InvariantParts
<1>5. ASSUME NEW p \in req[h].todo, NEW j \in Jobs,
             NEW a \in RowsOf(g.answers, p), NEW votes \in SUBSET RowsOf(g.votes, p),
             NEW right \in FoundOut(votes),
             Start(j, AddScore(p, Points(a, right))),
             Await(h, "score", g, round, req[h].todo \ {p})
      PROVE  IInv'
  <2> DEFINE points == Points(a, right)
             r == [pc |-> "score", view |-> g, round |-> round, todo |-> req[h].todo \ {p}]
  <2>1. p \in Profiles /\ a \in g.answers /\ a.by = p
    BY <1>3 DEF RowsOf
  <2>2. points \in Nat /\ (points > 0 => votes # {})
    BY <1>2, <1>3, <2>1, PointsOK
  <2>3. points > 0 => Earned(p, told', ids')
    <3>1. ids.answer[p] > 0
      BY <1>3, <2>1 DEF GameOK
    <3>2. votes # {} => ids.vote[p] > 0
      BY <1>3 DEF RowsOf, GameOK
    <3>3. Heard("allVotesSubmitted", told)
      BY <1>3, SaidIsHeard
    <3> HIDE DEF points
    <3>4. QED
      BY <1>1, <2>2, <3>1, <3>2, <3>3 DEF Earned
  <2>4. CallOK(AddScore(p, points), told', ids')
    <3> HIDE DEF points
    <3>1. QED
      BY <2>1, <2>2, <2>3, CallsOK
  <2>5. RequestOK(r, told', ids')
    BY <1>1, <1>3 DEF RequestOK, Request, Waits, GameOK
  <2>6. QED
    BY <1>1, <1>5, <2>4, <2>5, AwaitOK, StartOK, SilentStep, InvariantParts
<1>6. QED
  <2>1. PICK p \in req[h].todo :
          LET n       == round.number
              answers == {a \in RowsOf(g.answers, p) : a.round.number = n}
              votes   == {v \in RowsOf(g.votes, p) : v.number = n}
          IN  IF answers # {} /\ AnswersReadable(g)
              THEN /\ \E j \in Jobs, answer \in Firsts(answers), right \in FoundOut(votes) :
                        Start(j, AddScore(p, Points(answer, right)))
                   /\ Await(h, "score", g, round, req[h].todo \ {p})
              ELSE Reply(h) /\ UNCHANGED job
    BY DEF ScorePlayer
  <2> DEFINE answers == {a \in RowsOf(g.answers, p) : a.round.number = round.number}
             votes   == {v \in RowsOf(g.votes, p) : v.number = round.number}
  <2>2. Firsts(answers) \subseteq RowsOf(g.answers, p) /\ votes \in SUBSET RowsOf(g.votes, p)
    BY DEF Firsts
  <2>3. CASE answers # {} /\ AnswersReadable(g)
    <3>1. PICK j \in Jobs, a \in Firsts(answers), right \in FoundOut(votes) :
            Start(j, AddScore(p, Points(a, right)))
      BY <2>1, <2>3
    <3>2. Await(h, "score", g, round, req[h].todo \ {p})
      BY <2>1, <2>3
    <3> HIDE DEF answers, votes, g, round
    <3>3. QED
      BY <1>5, <2>2, <3>1, <3>2
  <2>4. CASE ~(answers # {} /\ AnswersReadable(g))
    BY <1>4, <2>1, <2>4
  <2>5. QED
    BY <2>3, <2>4

\* A player is asked for a topic of a game that is all right.
LEMMA AskForTopicOK ==
  ASSUME NEW h \in Handlers, NEW g, req \in [Handlers -> Request], AskForTopic(h, g),
         GameOK(g, told', ids'), Begun(told')
  PROVE  /\ req' \in [Handlers -> Request]
         /\ \A k \in Handlers : req'[k] # req[k] => RequestOK(req'[k], told', ids')
<1>1. RequestOK([pc |-> "topics", view |-> g, round |-> NoRound, todo |-> {}],
                told', ids')
  BY DEF RequestOK, Request, Waits, NoRound, Round, GameOK
<1>2. QED
  BY <1>1, AwaitOK, ReplyOK DEF AskForTopic

LEMMA ShareScoresKeeps ==
  ASSUME IInv, NEW h \in Handlers, ShareScores(h)
  PROVE  IInv'
<1> DEFINE n == req[h].round.number
<1>1. /\ db' = db /\ ids' = ids /\ gamers' = gamers /\ up' = up
      /\ req[h].pc = "score"
  BY DEF ShareScores
<1>2. GameOK(db, told, ids) /\ RequestOK(req[h], told, ids)
  BY DEF IInv
<1>3. /\ Begun(told') /\ n \in 1..TotalRounds /\ n \in Nat
      /\ Say("allVotesSubmitted", n) \in told
  BY <1>1, <1>2, RoundsAssumption DEF RequestOK, Begun, ShareScores, Tell
<1>4. CASE n < TotalRounds
  <2>1. /\ told' = told \cup {Say("scoresUpdated", n)} /\ job' = job
        /\ AskForTopic(h, db)
    BY <1>4 DEF ShareScores, Tell
  <2>2. told \subseteq told' /\ told' \subseteq Announcement /\ ToldInOrder'
    BY <1>3, <2>1, InvariantParts DEF IInv, ToldInOrder, Say, Announcement, Event
  <2>3. GameOK(db, told', ids')
    BY <1>1, <1>2, <2>2, GameOKLater DEF Later
  <2>4. QED
    BY <1>1, <1>3, <2>1, <2>2, <2>3, AskForTopicOK, MemoryStep, InvariantParts
<1>5. CASE ~(n < TotalRounds)
  <2>1. /\ told' = told \cup {Say("scoresUpdated", n), Say("finalResults", 0)}
        /\ Reply(h)
    BY <1>5 DEF ShareScores, Tell
  <2>2. PICK j \in Jobs : Start(j, SwitchState("in_progress", "final_results"))
    BY <1>5 DEF ShareScores
  <2>3. n = TotalRounds
    BY <1>3, <1>5, RoundsAssumption
  <2>4. told \subseteq told' /\ told' \subseteq Announcement /\ ToldInOrder'
    BY <1>3, <2>1, <2>3, InvariantParts DEF IInv, ToldInOrder, Say, Announcement, Event
  <2>5. Finale \subseteq told'
    BY <1>3, <2>1, <2>3 DEF Finale
  <2>6. CallOK(SwitchState("in_progress", "final_results"), told', ids')
    BY <1>3, <2>5, CallsOK
  <2>7. QED
    BY <1>1, <2>1, <2>2, <2>4, <2>6, ReplyOK, StartOK, MemoryStep, InvariantParts
<1>6. QED
  BY <1>4, <1>5

-----------------------------------------------------------------------------
(* Steps of a handler that write the rows                                   *)

\* When a handler saves its game, no call moves and no row is inserted.
LEMMA HandlerSaves ==
  ASSUME IInv, NEW g, GameOK(g, told, ids), Started(g) => Begun(told'), db' = Save(db, g),
         ids' = ids, job' = job, gamers' = gamers, up' = up,
         told \subseteq told', told' \subseteq Announcement, ToldInOrder',
         req' \in [Handlers -> Request],
         \A k \in Handlers : req'[k] # req[k] => RequestOK(req'[k], told', ids')
  PROVE  IInv'
<1>1. Later(told, ids, told', ids')
  BY DEF Later
<1>2. GameOK(db, told', ids') /\ GameOK(g, told', ids')
  BY <1>1, GameOKLater DEF IInv
<1>3. GameOK(db', told', ids') /\ db'.status = g.status /\ db'.rounds = g.rounds
  BY <1>2, SaveOK
<1>4. Started(db') => Begun(told')
  BY <1>3 DEF Started
<1>5. QED
  BY <1>1, <1>3, <1>4, StepKeepsIInv, InvariantParts

LEMMA StartGameSaveKeeps ==
  ASSUME IInv, NEW h \in Handlers, StartGameSave(h)
  PROVE  IInv'
<1> DEFINE g == req[h].view
<1>1. /\ db' = Save(db, g) /\ ids' = ids /\ job' = job /\ gamers' = gamers /\ up' = up
      /\ told' = told \cup {Say("gameStarted", 0)} /\ AskForTopic(h, g)
      /\ req[h].pc = "start.save"
  BY DEF StartGameSave, Tell
<1>2. RequestOK(req[h], told, ids) /\ GameOK(db, told, ids)
  BY DEF IInv
<1>3. GameOK(g, told, ids)
  BY <1>1, <1>2 DEF RequestOK
<1>4. told \subseteq told' /\ told' \subseteq Announcement /\ ToldInOrder'
  BY <1>1, TellOK DEF Say, Announcement, Event
<1>5. GameOK(g, told', ids')
  BY <1>1, <1>3, <1>4, GameOKLater DEF Later
<1>6. Begun(told')
  BY <1>1 DEF Begun
<1>7. /\ req' \in [Handlers -> Request]
      /\ \A k \in Handlers : req'[k] # req[k] => RequestOK(req'[k], told', ids')
  BY <1>1, <1>5, <1>6, AskForTopicOK, InvariantParts
<1>8. QED
  BY <1>1, <1>3, <1>4, <1>6, <1>7, HandlerSaves

LEMMA UpdateGameSaveKeeps ==
  ASSUME IInv, NEW h \in Handlers, UpdateGameSave(h)
  PROVE  IInv'
<1> DEFINE g == req[h].view
<1>1. /\ db' = Save(db, g) /\ ids' = ids /\ job' = job /\ gamers' = gamers /\ up' = up
      /\ told' = told /\ Reply(h) /\ req[h].pc = "update.save"
  BY DEF UpdateGameSave
<1>2. RequestOK(req[h], told, ids)
  BY DEF IInv
<1>3. GameOK(g, told, ids) /\ (Started(g) => Begun(told))
  BY <1>1, <1>2 DEF RequestOK
<1>4. told \subseteq told' /\ told' \subseteq Announcement /\ ToldInOrder'
  BY <1>1, InvariantParts DEF IInv, ToldInOrder
<1>5. QED
  BY <1>1, <1>3, <1>4, HandlerSaves, ReplyOK, InvariantParts

LEMMA SaveRoundKeeps ==
  ASSUME IInv, NEW h \in Handlers, SaveRound(h)
  PROVE  IInv'
<1> DEFINE g == req[h].view
           n == req[h].round.number
<1>1. /\ db' = Save(db, g) /\ ids' = ids /\ job' = job /\ gamers' = gamers /\ up' = up
      /\ told' = told \cup {Say("answerPrompt", n)} /\ Reply(h)
      /\ req[h].pc = "round.save"
  BY DEF SaveRound, Tell
<1>2. RequestOK(req[h], told, ids)
  BY DEF IInv
<1>3. GameOK(g, told, ids) /\ n \in Nat
  BY <1>1, <1>2, RoundsAssumption DEF RequestOK
<1>4. Begun(told) /\ Begun(told')
  BY <1>1, <1>2 DEF RequestOK, Begun
<1>5. told \subseteq told' /\ told' \subseteq Announcement /\ ToldInOrder'
  BY <1>1, <1>3, <1>4, TellOK DEF Say, Announcement, Event
<1>6. QED
  BY <1>1, <1>3, <1>4, <1>5, HandlerSaves, ReplyOK, InvariantParts

LEMMA EndGameSaveKeeps ==
  ASSUME IInv, NEW h \in Handlers, EndGameSave(h)
  PROVE  IInv'
<1> DEFINE g == req[h].view
<1>1. /\ db' = Save(db, g) /\ ids' = ids /\ job' = job /\ gamers' = gamers /\ up' = up
      /\ told' = told \cup {Say("gameEnded", 0)} /\ Reply(h)
      /\ req[h].pc = "end.save"
  BY DEF EndGameSave, Tell
<1>2. RequestOK(req[h], told, ids)
  BY DEF IInv
<1>3. GameOK(g, told, ids) /\ Begun(told) /\ g.status = "finished"
  BY <1>1, <1>2 DEF RequestOK
<1>4. Begun(told') /\ Say("finalResults", 0) \in told
  BY <1>1, <1>3 DEF Begun, GameOK, Finale
<1>5. told \subseteq told' /\ told' \subseteq Announcement /\ ToldInOrder'
  BY <1>1, <1>4, InvariantParts DEF IInv, ToldInOrder, Say, Announcement, Event
<1>6. QED
  BY <1>1, <1>3, <1>4, <1>5, HandlerSaves, ReplyOK, InvariantParts

\* The number of a new round is one more than the rounds of the game the handler
\* loaded, which were fewer than the total, whatever rounds the tables hold now.
LEMMA CreateRoundKeeps ==
  ASSUME IInv, NEW h \in Handlers, CreateRound(h)
  PROVE  IInv'
<1> DEFINE g     == req[h].view
           round == [id |-> ids.round + 1, number |-> Cardinality(g.rounds) + 1]
           g2    == [g EXCEPT !.rounds = @ \cup {round}, !.substate = "giving_answer"]
           r     == [pc |-> "round.save", view |-> g2, round |-> round, todo |-> {}]
<1>1. /\ db' = [db EXCEPT !.rounds = @ \cup {round}]
      /\ Await(h, "round.save", g2, round, {})
      /\ ids' = [ids EXCEPT !.round = @ + 1]
      /\ told' = told /\ job' = job /\ gamers' = gamers /\ up' = up
      /\ req[h].pc = "round.create"
  BY DEF CreateRound
<1>2. RequestOK(req[h], told, ids) /\ GameOK(db, told, ids)
  BY DEF IInv
<1>3. /\ GameOK(g, told, ids) /\ Begun(told)
      /\ Cardinality(g.rounds) < TotalRounds
  BY <1>1, <1>2 DEF RequestOK
<1>4. /\ ids' \in [round : Nat, answer : [Profiles -> Nat], vote : [Profiles -> Nat]]
      /\ ids'.vote = ids.vote /\ ids'.answer = ids.answer
  BY <1>1, InvariantParts
<1>5. Later(told, ids, told', ids')
  BY <1>1, <1>4 DEF Later
<1>6. round \in Round /\ round.number \in 1..TotalRounds
  <2>1. Cardinality(g.rounds) \in Nat
    BY <1>3, FS_CardinalityType DEF GameOK
  <2>2. ids.round \in Nat
    BY InvariantParts
  <2>3. QED
    BY <1>3, <2>1, <2>2, RoundsAssumption DEF Round
<1>7. ASSUME NEW x, GameOK(x, told', ids')
      PROVE  GameOK([x EXCEPT !.rounds = @ \cup {round}], told', ids')
  <2> DEFINE y == [x EXCEPT !.rounds = @ \cup {round}]
  <2>1. x \in Game /\ IsFiniteSet(x.rounds)
    BY <1>7 DEF GameOK
  <2>2. IsFiniteSet(x.rounds \cup {round})
    BY <2>1, FS_AddElement
  <2> HIDE DEF round
  <2>3. y \in Game
    BY <1>6, <2>1 DEF Game
  <2>4. /\ y.status = x.status /\ y.substate = x.substate /\ y.score = x.score
        /\ y.rounds = x.rounds \cup {round} /\ y.answers = x.answers /\ y.votes = x.votes
    BY <2>1 DEF Game
  <2>5. QED
    BY <1>6, <1>7, <2>2, <2>3, <2>4 DEF GameOK
<1>8. GameOK(db', told', ids')
  BY <1>1, <1>2, <1>5, <1>7, GameOKLater
<1>9. GameOK([g EXCEPT !.rounds = @ \cup {round}], told', ids')
  BY <1>3, <1>5, <1>7, GameOKLater
<1>10. GameOK(g2, told', ids')
  <2>1. g \in Game
    BY <1>3 DEF GameOK
  <2> HIDE DEF round, g
  <2>2. QED
    BY <1>3, <1>9, <2>1 DEF GameOK, Game, GameSubstate
<1>11. Begun(told')
  BY <1>1, <1>3
<1>12. RequestOK(r, told', ids')
  <2> HIDE DEF round, g2
  <2>1. QED
    BY <1>6, <1>10, <1>11 DEF RequestOK, Request, Waits, GameOK
<1>13. ToldInOrder'
  BY <1>1 DEF IInv, ToldInOrder
<1>14. /\ req' \in [Handlers -> Request]
       /\ \A k \in Handlers : req'[k] # req[k] => RequestOK(req'[k], told', ids')
  <2> HIDE DEF round, g2
  <2>1. QED
    BY <1>1, <1>12, AwaitOK, InvariantParts
<1>15. QED
  <2> HIDE DEF round, g2, g
  <2>1. /\ job' \in [Jobs -> Job] /\ told' \subseteq Announcement
        /\ gamers' \subseteq Users /\ up' \in BOOLEAN
    BY <1>1, InvariantParts
  <2>2. \A j \in Jobs : job'[j] = job[j]
    BY <1>1
  <2>3. QED
    BY <1>4, <1>5, <1>8, <1>11, <1>13, <1>14, <2>1, <2>2, StepKeepsIInv

-----------------------------------------------------------------------------
(* Steps of a call                                                          *)

\* What a step of a call has to leave behind: no handler moves and nothing is told.
LEMMA JobStep ==
  ASSUME IInv, NEW j \in Jobs, NEW c, job' = [job EXCEPT ![j] = c],
         req' = req, told' = told, gamers' = gamers, up' = up,
         Later(told, ids, told', ids'),
         ids' \in [round : Nat, answer : [Profiles -> Nat], vote : [Profiles -> Nat]],
         GameOK(db', told', ids'), Started(db') => Begun(told),
         CallOK(c, told', ids')
  PROVE  IInv'
<1>1. /\ job' \in [Jobs -> Job]
      /\ \A k \in Jobs : job'[k] # job[k] => CallOK(job'[k], told', ids')
  BY InvariantParts DEF CallOK
<1>2. ToldInOrder'
  BY DEF IInv, ToldInOrder
<1>3. \A h \in Handlers : req'[h] = req[h]
  OBVIOUS
<1>4. /\ req' \in [Handlers -> Request] /\ told' \subseteq Announcement
      /\ gamers' \subseteq Users /\ up' \in BOOLEAN
  BY InvariantParts
<1>5. QED
  BY <1>1, <1>2, <1>3, <1>4, StepKeepsIInv

\* A call that only moves on to its next await with a game that is all right.
LEMMA GotoKeeps ==
  ASSUME IInv, NEW j \in Jobs, NEW pc \in {"insert", "preload", "save"}, NEW view,
         Goto(j, pc, view), GameOK(view, told, ids), db' = db, ids' = ids,
         req' = req, told' = told, gamers' = gamers, up' = up,
         job[j].task # "none",
         PlayerTask(j) => job[j].who \in Profiles
  PROVE  IInv'
<1> DEFINE c == [job[j] EXCEPT !.pc = pc, !.view = view]
<1>1. CallOK(job[j], told, ids) /\ job \in [Jobs -> Job]
  BY InvariantParts
<1>2. job[j] \in Job /\ job' = [job EXCEPT ![j] = c]
  BY <1>1 DEF Goto
<1>3. /\ c \in Job /\ c.pc = pc /\ c.view = view /\ c.task = job[j].task
      /\ c.who = job[j].who /\ c.to = job[j].to
      /\ c.points = job[j].points
  BY <1>2 DEF Job, GameOK
<1>4. CallOK(c, told', ids')
  <2> HIDE DEF c
  <2>1. QED
    BY <1>1, <1>3 DEF CallOK, PlayerTask
<1>5. GameOK(db', told', ids') /\ (Started(db') => Begun(told))
  BY DEF IInv, Started
<1>6. /\ Later(told, ids, told', ids')
      /\ ids' \in [round : Nat, answer : [Profiles -> Nat], vote : [Profiles -> Nat]]
  BY InvariantParts
<1>7. QED
  <2> HIDE DEF c
  <2>1. QED
    BY <1>2, <1>4, <1>5, <1>6, JobStep

LEMMA JobLoadPlayerKeeps ==
  ASSUME IInv, NEW j \in Jobs, JobLoadPlayer(j)
  PROVE  IInv'
<1> DEFINE p == job[j].who
           v == PlayerView(db, p)
           scored == [v EXCEPT !.score[p] = @ + job[j].points]
<1>1. /\ PlayerTask(j) /\ p \in Profiles /\ job[j].task # "none" /\ ~SwitchTask(j)
      /\ db' = db /\ ids' = ids /\ req' = req /\ told' = told
      /\ gamers' = gamers /\ up' = up
  BY DEF JobLoadPlayer, PlayerTask, SwitchTask
<1>2. CallOK(job[j], told, ids) /\ GameOK(db, told, ids)
  BY InvariantParts DEF IInv
<1>3. GameOK(v, told, ids)
  BY <1>1, <1>2, PlayerViewOK
<1>4. CASE job[j].task = "addScore"
  <2>1. Goto(j, "preload", scored)
    BY <1>4 DEF JobLoadPlayer
  <2>2. job[j].points \in Nat /\ (job[j].points > 0 => Earned(p, told, ids))
    BY <1>2, <1>4 DEF CallOK, Job
  <2>3. GameOK(scored, told, ids)
    <3> HIDE DEF p, v
    <3>1. v \in Game
      BY <1>3 DEF GameOK
    <3>2. /\ scored.score = [v.score EXCEPT ![p] = @ + job[j].points]
          /\ scored.status = v.status /\ scored.substate = v.substate
          /\ scored.rounds = v.rounds /\ scored.answers = v.answers
          /\ scored.votes = v.votes
      BY <3>1 DEF Game
    <3>3. scored \in Game
      BY <1>1, <2>2, <3>1 DEF Game
    <3>4. \A q \in Profiles : scored.score[q] > 0 => Earned(q, told, ids)
      BY <1>1, <1>3, <2>2, <3>1, <3>2 DEF GameOK, Game
    <3>5. QED
      <4> HIDE DEF scored
      <4>1. QED
        BY <1>3, <3>2, <3>3, <3>4 DEF GameOK
  <2>4. QED
    <3> HIDE DEF scored
    <3>1. QED
      BY <1>1, <2>1, <2>3, GotoKeeps
<1>5. CASE job[j].task # "addScore"
  <2>1. Goto(j, "insert", v)
    BY <1>5 DEF JobLoadPlayer
  <2>2. QED
    BY <1>1, <1>3, <2>1, GotoKeeps
<1>6. QED
  BY <1>4, <1>5

LEMMA JobLoadGameKeeps ==
  ASSUME IInv, NEW j \in Jobs, JobLoadGame(j)
  PROVE  IInv'
<1> DEFINE sub == [db EXCEPT !.substate = job[j].to]
           sta == [db EXCEPT !.status = job[j].to]
<1>1. /\ SwitchTask(j) /\ job[j].task # "none" /\ ~PlayerTask(j)
      /\ db' = db /\ ids' = ids /\ req' = req /\ told' = told
      /\ gamers' = gamers /\ up' = up
  BY DEF JobLoadGame, PlayerTask, SwitchTask
<1>2. CallOK(job[j], told, ids) /\ GameOK(db, told, ids) /\ db \in Game
  BY InvariantParts DEF IInv, GameOK
<1>4. CASE job[j].task = "switchSubstate"
  <2>1. Goto(j, "preload", sub)
    BY <1>4 DEF JobLoadGame
  <2>2. GameOK(sub, told, ids)
    BY <1>2, <1>4 DEF CallOK, GameOK, Game
  <2>3. QED
    <3> HIDE DEF sub
    <3>1. QED
      BY <1>1, <2>1, <2>2, GotoKeeps
<1>5. CASE job[j].task = "switchState"
  <2>1. Goto(j, "preload", sta)
    BY <1>5 DEF JobLoadGame
  <2>2. GameOK(sta, told, ids)
    BY <1>2, <1>5 DEF CallOK, GameOK, Game, GameState
  <2>3. QED
    <3> HIDE DEF sta
    <3>1. QED
      BY <1>1, <2>1, <2>2, GotoKeeps
<1>6. QED
  BY <1>1, <1>4, <1>5 DEF SwitchTask

LEMMA JobPreloadKeeps ==
  ASSUME IInv, NEW j \in Jobs, JobPreload(j)
  PROVE  IInv'
<1> DEFINE v == job[j].view
<1>1. /\ job[j].pc = "preload"
      /\ db' = db /\ ids' = ids /\ req' = req /\ told' = told
      /\ gamers' = gamers /\ up' = up
  BY DEF JobPreload
<1>2. CallOK(job[j], told, ids) /\ GameOK(db, told, ids)
  BY InvariantParts DEF IInv
<1>3. GameOK(v, told, ids) /\ job[j].task # "none"
  BY <1>1, <1>2 DEF CallOK
<1>4. CASE PlayerTask(j)
  <2>1. Goto(j, "save", PreloadPlayer(db, v, job[j].who))
    BY <1>4 DEF JobPreload
  <2>2. job[j].who \in Profiles /\ ~SwitchTask(j)
    BY <1>1, <1>2, <1>4 DEF CallOK, PlayerTask, SwitchTask
  <2>3. GameOK(PreloadPlayer(db, v, job[j].who), told, ids)
    BY <1>2, <1>3, <2>2, PreloadPlayerOK
  <2>4. QED
    BY <1>1, <1>3, <2>1, <2>2, <2>3, GotoKeeps
<1>5. CASE ~PlayerTask(j)
  <2>1. Goto(j, "save", Preload(db, v))
    BY <1>5 DEF JobPreload
  <2>2. GameOK(Preload(db, v), told, ids)
    BY <1>2, <1>3, PreloadOK
  <2>3. QED
    BY <1>1, <1>3, <1>5, <2>1, <2>2, GotoKeeps
<1>6. QED
  BY <1>4, <1>5

LEMMA JobSaveKeeps ==
  ASSUME IInv, NEW j \in Jobs, JobSave(j)
  PROVE  IInv'
<1> DEFINE v == job[j].view
           p == job[j].who
<1>1. /\ job[j].pc = "save" /\ job' = [job EXCEPT ![j] = NoJob]
      /\ ids' = ids /\ req' = req /\ told' = told
      /\ gamers' = gamers /\ up' = up
  BY DEF JobSave
<1>2. CallOK(job[j], told, ids) /\ GameOK(db, told, ids)
  BY InvariantParts DEF IInv
<1>3. GameOK(v, told, ids) /\ job[j].task # "none" /\ job[j].task \in Tasks
  BY <1>1, <1>2 DEF CallOK, Job
<1>4. GameOK(db', told', ids') /\ (Started(db') => Begun(told))
  <2>1. CASE PlayerTask(j)
    <3>1. db' = SavePlayer(db, v, p)
      BY <2>1 DEF JobSave
    <3>2. p \in Profiles
      BY <1>1, <1>2, <2>1 DEF CallOK, PlayerTask
    <3>3. GameOK(db', told, ids) /\ db'.status = db.status /\ db'.rounds = db.rounds
      BY <1>2, <1>3, <3>1, <3>2, SavePlayerOK
    <3>4. QED
      BY <1>1, <3>3 DEF IInv, Started
  <2>2. CASE ~PlayerTask(j)
    <3>1. db' = Save(db, v) /\ SwitchTask(j)
      BY <1>3, <2>2 DEF JobSave, PlayerTask, SwitchTask, Tasks
    <3>2. Begun(told)
      BY <1>1, <1>2, <3>1 DEF CallOK, SwitchTask
    <3>3. GameOK(db', told, ids)
      BY <1>2, <1>3, <3>1, SaveOK
    <3>4. QED
      BY <1>1, <3>2, <3>3
  <2>3. QED
    BY <2>1, <2>2
<1>5. CallOK(NoJob, told', ids')
  BY NoJobOK
<1>6. QED
  BY <1>1, <1>4, <1>5, JobStep, InvariantParts

\* The new row has an id, and is not on the table yet.
LEMMA JobInsertAnswerKeeps ==
  ASSUME IInv, NEW j \in Jobs, JobInsertAnswer(j)
  PROVE  IInv'
<1> DEFINE p   == job[j].who
           row == [id |-> ids.answer[p] + 1, by |-> p, round |-> job[j].round]
           v   == [job[j].view EXCEPT !.answers = @ \cup {row}]
           c   == [job[j] EXCEPT !.pc = "preload", !.view = v]
<1>1. /\ job[j].task = "addAnswer" /\ job[j].pc = "insert"
      /\ job' = [job EXCEPT ![j].pc = "preload", ![j].view = v]
      /\ ids' = [ids EXCEPT !.answer[p] = @ + 1]
      /\ db' = db /\ req' = req /\ told' = told /\ gamers' = gamers /\ up' = up
  BY DEF JobInsertAnswer, Goto
<1>2. CallOK(job[j], told, ids) /\ GameOK(db, told, ids)
  BY InvariantParts DEF IInv
<1>3. /\ p \in Profiles /\ job[j] \in Job
      /\ GameOK(job[j].view, told, ids)
  BY <1>1, <1>2 DEF CallOK
<1>4. /\ ids' \in [round : Nat, answer : [Profiles -> Nat], vote : [Profiles -> Nat]]
      /\ ids'.vote = ids.vote /\ ids'.answer = [ids.answer EXCEPT ![p] = @ + 1]
      /\ ids'.answer[p] = ids.answer[p] + 1
  BY <1>1, <1>3, InvariantParts
<1>5. ids.answer \in [Profiles -> Nat]
  BY InvariantParts
<1>6. Later(told, ids, told', ids')
  BY <1>1, <1>3, <1>4, <1>5 DEF Later
<1>7. /\ row \in Answer /\ row.id > 0
      /\ row.by = p /\ ids'.answer[row.by] > 0
  BY <1>3, <1>4, <1>5 DEF Answer, Job
<1>8. GameOK(v, told', ids')
  <2>1. GameOK(job[j].view, told', ids') /\ job[j].view \in Game
    BY <1>3, <1>6, GameOKLater DEF GameOK
  <2> HIDE DEF row
  <2>2. v \in Game /\ v.answers = job[j].view.answers \cup {row}
    BY <1>7, <2>1 DEF Game
  <2>3. /\ v.status = job[j].view.status /\ v.substate = job[j].view.substate
        /\ v.score = job[j].view.score /\ v.rounds = job[j].view.rounds
        /\ v.votes = job[j].view.votes
    BY <2>1 DEF Game
  <2> HIDE DEF v
  <2>4. QED
    BY <1>7, <2>1, <2>2, <2>3 DEF GameOK
<1>9. CallOK(c, told', ids')
  <2> HIDE DEF v
  <2>1. c \in Job /\ c.task = "addAnswer" /\ c.who = p /\ c.view = v
    BY <1>1, <1>3, <1>8 DEF Job, GameOK
  <2> HIDE DEF c
  <2>2. QED
    BY <1>3, <1>8, <2>1 DEF CallOK
<1>10. job' = [job EXCEPT ![j] = c]
  <2> HIDE DEF v
  <2>1. QED
    BY <1>1, InvariantParts
<1>11. GameOK(db', told', ids') /\ (Started(db') => Begun(told))
  BY <1>1, <1>2, <1>6, GameOKLater DEF IInv, Started
<1>12. QED
  <2> HIDE DEF c
  <2>1. QED
    BY <1>1, <1>4, <1>6, <1>9, <1>10, <1>11, JobStep

\* The new row is on the table at once and is linked to no answer.
LEMMA JobInsertVoteKeeps ==
  ASSUME IInv, NEW j \in Jobs, JobInsertVote(j)
  PROVE  IInv'
<1> DEFINE p   == job[j].who
           row == [id |-> ids.vote[p] + 1, by |-> p, number |-> job[j].round.number,
                   right |-> job[j].ballot = "truth", answer |-> NoAnswer]
           v   == [job[j].view EXCEPT !.votes = @ \cup {row}]
           c   == [job[j] EXCEPT !.pc = "preload", !.view = v]
<1>1. /\ job[j].task = "addVote" /\ job[j].pc = "insert"
      /\ db' = [db EXCEPT !.votes = @ \cup {row}]
      /\ job' = [job EXCEPT ![j].pc = "preload", ![j].view = v]
      /\ ids' = [ids EXCEPT !.vote[p] = @ + 1]
      /\ req' = req /\ told' = told /\ gamers' = gamers /\ up' = up
  BY DEF JobInsertVote, Goto
<1>2. CallOK(job[j], told, ids) /\ GameOK(db, told, ids)
  BY InvariantParts DEF IInv
<1>3. p \in Profiles /\ job[j] \in Job /\ GameOK(job[j].view, told, ids)
  BY <1>1, <1>2 DEF CallOK
<1>4. /\ ids' \in [round : Nat, answer : [Profiles -> Nat], vote : [Profiles -> Nat]]
      /\ ids'.answer = ids.answer /\ ids'.vote = [ids.vote EXCEPT ![p] = @ + 1]
      /\ ids'.vote[p] = ids.vote[p] + 1
  BY <1>1, <1>3, InvariantParts
<1>5. ids.vote \in [Profiles -> Nat]
  BY InvariantParts
<1>6. Later(told, ids, told', ids')
  BY <1>1, <1>3, <1>4, <1>5 DEF Later
<1>7. /\ row \in Vote /\ row.answer = NoAnswer
      /\ row.by = p /\ ids'.vote[row.by] > 0
  BY <1>3, <1>4, <1>5 DEF Vote, Job, Round, NoAnswer
<1>8. ASSUME NEW x, GameOK(x, told', ids')
      PROVE  GameOK([x EXCEPT !.votes = @ \cup {row}], told', ids')
  <2> DEFINE y == [x EXCEPT !.votes = @ \cup {row}]
  <2>1. x \in Game
    BY <1>8 DEF GameOK
  <2> HIDE DEF row
  <2>2. y \in Game /\ y.votes = x.votes \cup {row}
    BY <1>7, <2>1 DEF Game
  <2>3. /\ y.status = x.status /\ y.substate = x.substate /\ y.score = x.score
        /\ y.rounds = x.rounds /\ y.answers = x.answers
    BY <2>1 DEF Game
  <2> HIDE DEF y
  <2>4. GameOK(y, told', ids')
    BY <1>7, <1>8, <2>2, <2>3 DEF GameOK
  <2>5. QED
    BY <2>4 DEF y
<1>9. GameOK(v, told', ids') /\ GameOK(db', told', ids')
  BY <1>1, <1>2, <1>3, <1>6, <1>8, GameOKLater
<1>10. CallOK(c, told', ids')
  <2> HIDE DEF v
  <2>1. c \in Job /\ c.task = "addVote" /\ c.who = p /\ c.view = v
    BY <1>1, <1>3, <1>9 DEF Job, GameOK
  <2> HIDE DEF c
  <2>2. QED
    BY <1>3, <1>9, <2>1 DEF CallOK
<1>11. job' = [job EXCEPT ![j] = c]
  <2> HIDE DEF v
  <2>1. QED
    BY <1>1, InvariantParts
<1>12. Started(db') => Begun(told)
  <2>1. db \in Game
    BY <1>2 DEF GameOK
  <2>2. db'.status = db.status /\ db'.rounds = db.rounds
    BY <1>1, <2>1 DEF Game
  <2>3. QED
    BY <2>2 DEF IInv, Started
<1>13. QED
  <2> HIDE DEF c, row
  <2>1. QED
    BY <1>1, <1>4, <1>6, <1>9, <1>10, <1>11, <1>12, JobStep

-----------------------------------------------------------------------------
(* The process, and the whole                                               *)

LEMMA DieKeeps ==
  ASSUME IInv, Die
  PROVE  IInv'
<1>1. /\ db' = db /\ ids' = ids /\ told' = told /\ gamers' = {} /\ up' = FALSE
      /\ req' = [h \in Handlers |-> Idle] /\ job' = [j \in Jobs |-> NoJob]
  BY DEF Die
<1>3. RequestOK(Idle, told', ids') /\ CallOK(NoJob, told', ids')
  BY IdleOK, NoJobOK
<1>4. req' \in [Handlers -> Request] /\ job' \in [Jobs -> Job]
  BY <1>1, <1>3 DEF RequestOK, CallOK
<1>5. QED
  BY <1>1, <1>3, <1>4, SilentStep

\* Stopping, starting and connecting change neither the rows nor what was told.
LEMMA ProcessKeeps ==
  ASSUME IInv, Process
  PROVE  IInv'
<1>1. CASE Stop
  BY <1>1, DieKeeps DEF Stop
<1>2. CASE Restart
  <2>1. /\ db' = db /\ ids' = ids /\ told' = told /\ gamers' = gamers /\ up' = TRUE
        /\ req' = req /\ job' = job
    BY <1>2 DEF Restart
  <2>2. QED
    BY <2>1, SilentStep, InvariantParts
<1>3. ASSUME NEW u \in Users, Connect(u)
      PROVE  IInv'
  <2>1. /\ db' = db /\ ids' = ids /\ told' = told /\ gamers' = gamers \cup {u} /\ up' = up
        /\ req' = req /\ job' = job
    BY <1>3 DEF Connect
  <2>2. gamers' \subseteq Users
    BY <2>1, InvariantParts
  <2>3. QED
    BY <2>1, <2>2, SilentStep, InvariantParts
<1>4. QED
  BY <1>1, <1>2, <1>3 DEF Process

LEMMA StutterKeeps ==
  ASSUME IInv, UNCHANGED vars
  PROVE  IInv'
<1>1. /\ db' = db /\ ids' = ids /\ told' = told /\ gamers' = gamers /\ up' = up
      /\ req' = req /\ job' = job
  BY DEF vars
<1>2. QED
  BY <1>1, SilentStep, InvariantParts

LEMMA ArriveKeeps ==
  ASSUME IInv, NEW h \in Handlers, Arrive(h)
  PROVE  IInv'
<1>1. CASE ChooseTopic(h)
  BY <1>1, ChooseTopicKeeps
<1>2. ASSUME NEW u \in Users, StartGame(h, u)
      PROVE  IInv'
  BY <1>2, StartGameKeeps
<1>3. ASSUME NEW u \in Users, EndGame(h, u)
      PROVE  IInv'
  BY <1>3, EndGameKeeps
<1>4. ASSUME NEW u \in Users, SubmitAnswer(h, u)
      PROVE  IInv'
  BY <1>4, SubmitAnswerKeeps
<1>5. ASSUME NEW u \in Users, NEW ballot \in Ballots, SubmitVote(h, u, ballot)
      PROVE  IInv'
  BY <1>5, SubmitVoteKeeps
<1>6. ASSUME NEW u \in Users, UpdateGame(h, u)
      PROVE  IInv'
  BY <1>6, UpdateGameKeeps
<1>7. QED
  BY <1>1, <1>2, <1>3, <1>4, <1>5, <1>6 DEF Arrive

LEMMA ContinueKeeps ==
  ASSUME IInv, NEW h \in Handlers, Continue(h)
  PROVE  IInv'
BY ChoseTopicKeeps, UpdatePreloadKeeps, StartGameSaveKeeps, UpdateGameSaveKeeps,
   CreateRoundKeeps, SaveRoundKeeps, CountAnswersKeeps, CountVotesKeeps, ScorePlayerKeeps, ShareScoresKeeps,
   EndGameSaveKeeps
   DEF Continue

LEMMA RunJobKeeps ==
  ASSUME IInv, NEW j \in Jobs, RunJob(j)
  PROVE  IInv'
BY JobLoadPlayerKeeps, JobInsertAnswerKeeps, JobInsertVoteKeeps, JobLoadGameKeeps,
   JobPreloadKeeps, JobSaveKeeps, DieKeeps
   DEF RunJob, JobReject

LEMMA StepKeeps ==
  ASSUME IInv, [Next]_vars
  PROVE  IInv'
<1>1. ASSUME NEW h \in Handlers, Arrive(h) \/ Continue(h)
      PROVE  IInv'
  BY <1>1, ArriveKeeps, ContinueKeeps
<1>2. ASSUME NEW j \in Jobs, RunJob(j)
      PROVE  IInv'
  BY <1>2, RunJobKeeps
<1>3. QED
  BY <1>1, <1>2, ProcessKeeps, StutterKeeps DEF Next

LEMMA InitOK ==
  ASSUME Init
  PROVE  IInv
<1>1. /\ db = NewGame /\ told = {} /\ gamers = Users /\ up = TRUE
      /\ ids = [round |-> 0, answer |-> [p \in Profiles |-> 0], vote |-> [p \in Profiles |-> 0]]
      /\ req = [h \in Handlers |-> Idle] /\ job = [j \in Jobs |-> NoJob]
  BY DEF Init
<1>2. GameOK(db, told, ids)
  BY <1>1, NewGameOK
<1>3. ~Started(db)
  BY <1>1 DEF Started, NewGame
<1>4. RequestOK(Idle, told, ids) /\ CallOK(NoJob, told, ids)
  BY IdleOK, NoJobOK
<1>5. /\ \A h \in Handlers : RequestOK(req[h], told, ids)
      /\ \A j \in Jobs : CallOK(job[j], told, ids)
  BY <1>1, <1>4
<1>6. TypeOK
  <2>1. Idle \in Request /\ NoJob \in Job
    BY <1>4 DEF RequestOK, CallOK
  <2>2. req \in [Handlers -> Request] /\ job \in [Jobs -> Job]
    BY <1>1, <2>1
  <2>3. /\ \A h \in Handlers : IsFiniteSet(req[h].view.rounds)
        /\ \A j \in Jobs : IsFiniteSet(job[j].view.rounds)
    BY <1>5 DEF RequestOK, CallOK, GameOK
  <2>4. ids \in [round : Nat, answer : [Profiles -> Nat], vote : [Profiles -> Nat]]
    BY <1>1
  <2>5. QED
    BY <1>1, <1>2, <2>2, <2>3, <2>4 DEF TypeOK, GameOK
<1>7. ToldInOrder
  BY <1>1 DEF ToldInOrder
<1>8. QED
  BY <1>2, <1>3, <1>5, <1>6, <1>7 DEF IInv

\* The invariant holds in every state of every run, whatever the constants.
THEOREM Invariant == Spec => []IInv
<1>1. Init => IInv
  BY InitOK
<1>2. IInv /\ [Next]_vars => IInv'
  BY StepKeeps
<1>3. QED
  BY <1>1, <1>2, PTL DEF Spec

\* Every variable keeps to its type, however many handlers and calls interleave.
THEOREM TypeCorrect == Spec => []TypeOK
<1>1. IInv => TypeOK
  BY DEF IInv
<1>2. QED
  BY <1>1, Invariant, PTL

\* Stale copies and racing chooseTopic handlers never number a round beyond the
\* total of the game.
THEOREM RoundsStayWithinTotal == Spec => []RoundsWithinTotal
<1>1. IInv => RoundsWithinTotal
  BY DEF IInv, GameOK, RoundsWithinTotal
<1>2. QED
  BY <1>1, Invariant, PTL

\* Voting and results are never reached unless the room was told of the answers or
\* of the votes.
THEOREM PhasesAreAnnounced == Spec => []PhaseWasAnnounced
<1>1. IInv => PhaseWasAnnounced
  BY DEF IInv, GameOK, PhaseWasAnnounced, Heard
<1>2. QED
  BY <1>1, Invariant, PTL

\* No game comes to its final results, or is finished, without its last round
\* having been scored before the room.
THEOREM OutcomesAreAnnounced == Spec => []OutcomeWasAnnounced
<1>1. IInv => OutcomeWasAnnounced
  BY DEF IInv, GameOK, OutcomeWasAnnounced, Finale
<1>2. QED
  BY <1>1, Invariant, PTL

\* Points are only ever those of a player who voted and answered.
THEOREM NoUnearnedPoints == Spec => []PointsAreEarned
<1>1. IInv => PointsAreEarned
  BY DEF IInv, GameOK, PointsAreEarned, Earned, Heard
<1>2. QED
  BY <1>1, Invariant, PTL

\* The room is told things in the order in which they follow from one another.
THEOREM AnnouncementsInOrder == Spec => []ToldInOrder
<1>1. IInv => ToldInOrder
  BY DEF IInv
<1>2. QED
  BY <1>1, Invariant, PTL
=============================================================================
