--------------------------- MODULE DeparturesProofs ---------------------------
(***************************************************************************)
(* Proofs that players may leave a game in play, at any moment and however  *)
(* many, without harm to what GameLoop keeps to, and that nobody else loses *)
(* the seat and no other departure aborts the game.                         *)
(***************************************************************************)
EXTENDS Departures, GameLoopProofs

-----------------------------------------------------------------------------
(* Copies of the game that list those who stayed                            *)

LEMMA NewGameKept ==
  ASSUME NEW q
  PROVE  Kept(NewGame, q)
BY DEF Kept, NewGame

\* The mapper keeps the status of the object and adds players to its list.
LEMMA PreloadKept ==
  ASSUME NEW d \in Game, NEW g \in Game, NEW q, Kept(d, q), Kept(g, q)
  PROVE  Kept(Preload(d, g), q)
<1>1. Preload(d, g).players = g.players \cup d.players /\ Preload(d, g).status = g.status
  BY DEF Preload, Game
<1>2. QED
  BY <1>1 DEF Kept

LEMMA SaveKept ==
  ASSUME NEW d \in Game, NEW g \in Game, NEW q, Kept(g, q)
  PROVE  Kept(Save(d, g), q)
<1>1. Save(d, g).players = g.players /\ Save(d, g).status = g.status
  BY DEF Save, Game
<1>2. QED
  BY <1>1 DEF Kept

LEMMA SavePlayerKept ==
  ASSUME NEW d \in Game, NEW g, NEW p, NEW q, Kept(d, q)
  PROVE  Kept(SavePlayer(d, g, p), q)
<1>1. SavePlayer(d, g, p).players = d.players /\ SavePlayer(d, g, p).status = d.status
  BY DEF SavePlayer, Game
<1>2. QED
  BY <1>1 DEF Kept

\* A switch of the status aborts nothing.
LEMMA StatusKept ==
  ASSUME NEW g \in Game, NEW q, Kept(g, q), NEW s, s # "aborted"
  PROVE  Kept([g EXCEPT !.status = s], q)
<1>1. /\ [g EXCEPT !.status = s].players = g.players
      /\ [g EXCEPT !.status = s].status = s
  BY DEF Game
<1>2. QED
  BY <1>1 DEF Kept

\* Whoever leaves later, a copy goes on to be all right.
LEMMA KeptLater ==
  ASSUME NEW g, NEW q, NEW q2, q \subseteq q2, Kept(g, q)
  PROVE  Kept(g, q2)
BY DEF Kept, Struck

-----------------------------------------------------------------------------
(* What a step of GameLoop does to the copies                               *)

LEMMA LoopStep ==
  ASSUME LoopKept, quit' = quit, Kept(db', quit),
         \A h \in Handlers : req'[h] = req[h] \/ Kept(req'[h].view, quit),
         \A j \in Jobs : job'[j] = job[j] \/ Kept(job'[j].view, quit)
                         \/ job'[j].task \notin {"switchSubstate", "switchState"},
         Say("gameAborted", 0) \in told' => Say("gameAborted", 0) \in told
  PROVE  LoopKept'
BY DEF LoopKept, SwitchTask

\* A handler that comes to an await, or ends, and a call that starts.
LEMMA AwaitMoves ==
  ASSUME req \in [Handlers -> Request], NEW h \in Handlers, NEW pc, NEW view, NEW round,
         NEW todo, Await(h, pc, view, round, todo)
  PROVE  \A k \in Handlers : req'[k] = req[k] \/ req'[k].view = view
BY DEF Await

LEMMA ReplyMoves ==
  ASSUME req \in [Handlers -> Request], NEW h \in Handlers, Reply(h), quit' = quit
  PROVE  \A k \in Handlers : req'[k] = req[k] \/ Kept(req'[k].view, quit)
<1>1. \A k \in Handlers : req'[k] = req[k] \/ req'[k] = Idle
  BY DEF Reply
<1>2. Idle.view = NewGame
  BY DEF Idle
<1>3. QED
  BY <1>1, <1>2, NewGameKept

\* Calls start with no game in hand.
LEMMA CallsStartFresh ==
  ASSUME job \in [Jobs -> Job], NEW j \in Jobs, NEW c,
         c.view = NewGame, Start(j, c)
  PROVE  \A k \in Jobs : job'[k] = job[k] \/ Kept(job'[k].view, quit)
<1>1. \A k \in Jobs : job'[k] = job[k] \/ job'[k] = c
  BY DEF Start
<1>2. QED
  BY <1>1, NewGameKept

LEMMA FreshCalls ==
  /\ \A u, r : AddAnswer(u, r).view = NewGame
  /\ \A u, r, b : AddVote(u, r, b).view = NewGame
  /\ \A p, n : AddScore(p, n).view = NewGame
  /\ \A a, b : SwitchSubstate(a, b).view = NewGame
  /\ \A a, b : SwitchState(a, b).view = NewGame
BY DEF AddAnswer, AddVote, AddScore, SwitchSubstate, SwitchState, NoJob

\* What the copies are before a step.
LEMMA CopiesAreGames ==
  ASSUME IInv
  PROVE  /\ db \in Game
         /\ req \in [Handlers -> Request] /\ \A h \in Handlers : req[h].view \in Game
         /\ job \in [Jobs -> Job] /\ \A j \in Jobs : job[j].view \in Game
BY DEF IInv, TypeOK, Request, Job

LEMMA ArriveLoopKept ==
  ASSUME IInv, LoopKept, quit' = quit, NEW h \in Handlers, Arrive(h)
  PROVE  LoopKept'
<1>1. /\ db' = db /\ told' = told
      /\ Kept(db', quit)
  BY DEF Arrive, ChooseTopic, StartGame, EndGame, UpdateGame, SubmitAnswer, SubmitVote, LoopKept
<1>2. CASE ChooseTopic(h)
  <2>1. Await(h, "round.create", db, NoRound, {}) /\ job' = job
    BY <1>2 DEF ChooseTopic
  <2>2. QED
    BY <1>1, <2>1, AwaitMoves, LoopStep, CopiesAreGames
<1>3. ASSUME NEW u \in Users, StartGame(h, u) \/ EndGame(h, u) \/ UpdateGame(h, u)
      PROVE  LoopKept'
  <2>1. /\ \/ Await(h, "start.preload", [db EXCEPT !.status = "in_progress"], NoRound, {})
           \/ Await(h, "end.save", [db EXCEPT !.status = "finished"], NoRound, {})
           \/ Await(h, "update.preload", db, NoRound, {})
        /\ job' = job
    BY <1>3 DEF StartGame, EndGame, UpdateGame
  <2>2. /\ Kept([db EXCEPT !.status = "in_progress"], quit)
        /\ Kept([db EXCEPT !.status = "finished"], quit)
        /\ Kept(db, quit)
    BY StatusKept, CopiesAreGames DEF LoopKept
  <2>3. \A k \in Handlers : req'[k] = req[k] \/ Kept(req'[k].view, quit)
    BY <2>1, <2>2, AwaitMoves, CopiesAreGames
  <2>4. QED
    BY <1>1, <2>1, <2>3, LoopStep
<1>4. ASSUME NEW u \in Users, NEW c, SubmitAnswer(h, u) \/ SubmitVote(h, u, c)
      PROVE  LoopKept'
  <2>1. /\ \E r, pc : Await(h, pc, NewGame, r, {})
        /\ \E j \in Jobs : \E r : Start(j, AddAnswer(u, r)) \/ Start(j, AddVote(u, r, c))
    BY <1>4 DEF SubmitAnswer, SubmitVote
  <2>2. \A k \in Handlers : req'[k] = req[k] \/ Kept(req'[k].view, quit)
    BY <2>1, AwaitMoves, NewGameKept, CopiesAreGames
  <2>3. \A k \in Jobs : job'[k] = job[k] \/ Kept(job'[k].view, quit)
    BY <2>1, CallsStartFresh, FreshCalls, CopiesAreGames
  <2>4. QED
    BY <1>1, <2>2, <2>3, LoopStep
<1>5. QED
  BY <1>2, <1>3, <1>4 DEF Arrive

LEMMA AskForTopicMoves ==
  ASSUME req \in [Handlers -> Request], NEW h \in Handlers, NEW g, AskForTopic(h, g),
         Kept(g, quit), quit' = quit
  PROVE  \A k \in Handlers : req'[k] = req[k] \/ Kept(req'[k].view, quit)
<1>1. Await(h, "topics", g, NoRound, {}) \/ Reply(h)
  BY DEF AskForTopic
<1>2. QED
  BY <1>1, AwaitMoves, ReplyMoves

\* Steps of a handler that tell something, and start calls.
LEMMA TellLoopKept ==
  ASSUME IInv, LoopKept, quit' = quit, NEW h \in Handlers,
         ChoseTopic(h) \/ CountAnswers(h) \/ CountVotes(h) \/ ScorePlayer(h) \/ ShareScores(h)
  PROVE  LoopKept'
<1>1. /\ db' = db /\ Kept(db', quit) /\ Kept(req[h].view, quit)
      /\ Say("gameAborted", 0) \in told' => Say("gameAborted", 0) \in told
  BY DEF ChoseTopic, CountAnswers, CountVotes, ScorePlayer, ShareScores, LoopKept, Tell, Say
<1>2. \/ Reply(h)
      \/ \E r, todo : Await(h, "score", db, r, todo) \/ Await(h, "score", req[h].view, r, todo)
      \/ AskForTopic(h, db)
  BY DEF ChoseTopic, CountAnswers, CountVotes, ScorePlayer, ShareScores
<1>3. \A k \in Handlers : req'[k] = req[k] \/ Kept(req'[k].view, quit)
  <2>1. CASE Reply(h)
    BY <2>1, ReplyMoves, CopiesAreGames
  <2>2. CASE AskForTopic(h, db)
    BY <1>1, <2>2, AskForTopicMoves, CopiesAreGames
  <2>3. CASE \E r, todo : Await(h, "score", db, r, todo) \/ Await(h, "score", req[h].view, r, todo)
    BY <1>1, <2>3, AwaitMoves, CopiesAreGames
  <2>4. QED
    BY <1>2, <2>1, <2>2, <2>3
<1>4. \/ job' = job
      \/ \E j \in Jobs : \E a, b : \/ Start(j, SwitchSubstate(a, b)) \/ Start(j, SwitchState(a, b))
                                 \/ Start(j, AddScore(a, b))
  BY DEF ChoseTopic, CountAnswers, CountVotes, ScorePlayer, ShareScores
<1>5. \A k \in Jobs : job'[k] = job[k] \/ Kept(job'[k].view, quit)
  BY <1>4, CallsStartFresh, FreshCalls, CopiesAreGames
<1>6. QED
  BY <1>1, <1>3, <1>5, LoopStep

\* Steps of a handler that preload or write the rows.
LEMMA WriteLoopKept ==
  ASSUME IInv, LoopKept, quit' = quit, NEW h \in Handlers,
         \/ UpdatePreload(h) \/ StartGameSave(h) \/ UpdateGameSave(h) \/ CreateRound(h)
         \/ SaveRound(h) \/ EndGameSave(h)
  PROVE  LoopKept'
<1> DEFINE g == req[h].view
<1>1. /\ Kept(db, quit) /\ Kept(g, quit) /\ g \in Game /\ db \in Game /\ job' = job
      /\ Say("gameAborted", 0) \in told' => Say("gameAborted", 0) \in told
  BY CopiesAreGames
     DEF UpdatePreload, StartGameSave, UpdateGameSave, CreateRound, SaveRound, EndGameSave,
         LoopKept, Tell, Say
<1>2. CASE UpdatePreload(h)
  <2>1. /\ db' = db
        /\ \/ Await(h, "start.save", Preload(db, g), NoRound, {})
           \/ Await(h, "update.save", Preload(db, g), NoRound, {})
    BY <1>2 DEF UpdatePreload
  <2>2. \A k \in Handlers : req'[k] = req[k] \/ Kept(req'[k].view, quit)
    BY <1>1, <2>1, PreloadKept, AwaitMoves, CopiesAreGames
  <2>3. QED
    BY <1>1, <2>1, <2>2, LoopStep
<1>3. CASE StartGameSave(h) \/ UpdateGameSave(h) \/ SaveRound(h) \/ EndGameSave(h)
  <2>1. db' = Save(db, g) /\ (AskForTopic(h, g) \/ Reply(h))
    BY <1>3 DEF StartGameSave, UpdateGameSave, SaveRound, EndGameSave
  <2>2. \A k \in Handlers : req'[k] = req[k] \/ Kept(req'[k].view, quit)
    BY <1>1, <2>1, AskForTopicMoves, ReplyMoves, CopiesAreGames
  <2>3. QED
    BY <1>1, <2>1, <2>2, SaveKept, LoopStep
<1>4. CASE CreateRound(h)
  <2> DEFINE round == [id |-> ids.round + 1, number |-> Cardinality(g.rounds) + 1]
             g2    == [g EXCEPT !.rounds = @ \cup {round}, !.substate = "giving_answer"]
  <2>1. /\ db' = [db EXCEPT !.rounds = @ \cup {round}]
        /\ Await(h, "round.save", g2, round, {})
    BY <1>4 DEF CreateRound
  <2>2. /\ db'.players = db.players /\ db'.status = db.status
        /\ g2.players = g.players /\ g2.status = g.status
    <3> HIDE DEF round
    <3>1. QED
      BY <1>1, <2>1 DEF Game
  <2>3. Kept(db', quit) /\ Kept(g2, quit)
    BY <1>1, <2>2 DEF Kept
  <2>4. \A k \in Handlers : req'[k] = req[k] \/ Kept(req'[k].view, quit)
    <3> HIDE DEF g2, round
    <3>1. QED
      BY <2>1, <2>3, AwaitMoves, CopiesAreGames
  <2>5. QED
    BY <1>1, <2>3, <2>4, LoopStep
<1>5. QED
  BY <1>2, <1>3, <1>4

\* A call that moves changes its own slot only.
LEMMA JobMoves ==
  ASSUME IInv, LoopKept, quit' = quit, NEW j \in Jobs, NEW c, job' = [job EXCEPT ![j] = c],
         req' = req, told' = told, Kept(db', quit),
         Kept(c.view, quit) \/ c.task \notin {"switchSubstate", "switchState"}
  PROVE  LoopKept'
<1>1. \A k \in Jobs : job'[k] = job[k] \/ job'[k] = c
  BY CopiesAreGames
<1>2. \A h \in Handlers : req'[h] = req[h]
  OBVIOUS
<1>3. QED
  BY <1>1, <1>2, LoopStep

LEMMA DieLoopKept ==
  ASSUME IInv, LoopKept, quit' = quit, Die
  PROVE  LoopKept'
<1>1. /\ db' = db /\ told' = told
      /\ \A h \in Handlers : req'[h] = Idle
      /\ \A k \in Jobs : job'[k] = NoJob
  BY DEF Die
<1>2. Kept(Idle.view, quit) /\ Kept(NoJob.view, quit) /\ Kept(db', quit)
  BY <1>1, NewGameKept DEF Idle, NoJob, LoopKept
<1>3. QED
  BY <1>1, <1>2, LoopStep

LEMMA RunJobLoopKept ==
  ASSUME IInv, LoopKept, quit' = quit, NEW j \in Jobs, RunJob(j)
  PROVE  LoopKept'
<1> DEFINE v == job[j].view
<1>1. /\ Kept(db, quit) /\ db \in Game /\ v \in Game
      /\ SwitchTask(j) => Kept(v, quit)
      /\ job \in [Jobs -> Job] /\ job[j] \in Job
  BY CopiesAreGames DEF LoopKept
<1>2. CASE JobReject(j)
  BY <1>2, DieLoopKept DEF JobReject
<1>3. ASSUME PlayerTask(j), NEW pc, NEW view, Goto(j, pc, view),
             req' = req, told' = told, Kept(db', quit)
      PROVE  LoopKept'
  <2> DEFINE c == [job[j] EXCEPT !.pc = pc, !.view = view]
  <2>1. job' = [job EXCEPT ![j] = c] /\ c.task = job[j].task
    BY <1>1, <1>3 DEF Goto, Job
  <2>2. c.task \notin {"switchSubstate", "switchState"}
    BY <1>3, <2>1 DEF PlayerTask
  <2> HIDE DEF c
  <2>3. QED
    BY <1>3, <2>1, <2>2, JobMoves
<1>4. ASSUME NEW pc, NEW view, Goto(j, pc, view), Kept(view, quit),
             req' = req, told' = told, db' = db
      PROVE  LoopKept'
  <2> DEFINE c == [job[j] EXCEPT !.pc = pc, !.view = view]
  <2>1. job' = [job EXCEPT ![j] = c] /\ c.view = view
    BY <1>1, <1>4 DEF Goto, Job
  <2> HIDE DEF c
  <2>2. QED
    BY <1>1, <1>4, <2>1, JobMoves
<1>5. CASE JobLoadPlayer(j)
  <2>1. /\ PlayerTask(j) /\ req' = req /\ told' = told /\ db' = db
        /\ \E pc, view : Goto(j, pc, view)
    BY <1>5 DEF JobLoadPlayer
  <2>2. QED
    BY <1>1, <1>3, <2>1
<1>6. CASE JobInsertAnswer(j)
  <2>1. /\ PlayerTask(j) /\ req' = req /\ told' = told /\ db' = db
        /\ \E pc, view : Goto(j, pc, view)
    BY <1>6 DEF JobInsertAnswer, PlayerTask
  <2>2. QED
    BY <1>1, <1>3, <2>1
<1>7. CASE JobInsertVote(j)
  <2>1. /\ PlayerTask(j) /\ req' = req /\ told' = told
        /\ \E votes : db' = [db EXCEPT !.votes = votes]
        /\ \E pc, view : Goto(j, pc, view)
    BY <1>7 DEF JobInsertVote, PlayerTask
  <2>2. Kept(db', quit)
    BY <1>1, <2>1 DEF Kept, Game
  <2>3. QED
    BY <1>3, <2>1, <2>2
<1>8. CASE JobLoadGame(j)
  <2> DEFINE byState    == [db EXCEPT !.status = job[j].to]
             bySubstate == [db EXCEPT !.substate = job[j].to]
  <2>1. CallOK(job[j], told, ids)
    BY InvariantParts
  <2>2. /\ req' = req /\ told' = told /\ db' = db
        /\ \/ job[j].task = "switchState" /\ Goto(j, "preload", byState)
           \/ Goto(j, "preload", bySubstate)
    BY <1>8 DEF JobLoadGame, SwitchTask
  <2>3. job[j].task = "switchState" => Kept(byState, quit)
    BY <1>1, <2>1, StatusKept DEF CallOK
  <2>4. Kept(bySubstate, quit)
    BY <1>1 DEF Kept, Game
  <2> HIDE DEF byState, bySubstate
  <2>5. QED
    BY <1>4, <2>2, <2>3, <2>4
<1>9. CASE JobPreload(j)
  <2>1. job[j].task # "none"
    BY <1>9, InvariantParts DEF CallOK, JobPreload
  <2>2. CASE PlayerTask(j)
    <3>1. req' = req /\ told' = told /\ db' = db /\ \E pc, view : Goto(j, pc, view)
      BY <1>9 DEF JobPreload
    <3>2. QED
      BY <1>1, <1>3, <2>2, <3>1
  <2>3. CASE ~PlayerTask(j)
    <3>1. SwitchTask(j)
      BY <1>1, <2>1, <2>3 DEF PlayerTask, SwitchTask, Job, Tasks
    <3>2. Goto(j, "save", Preload(db, v)) /\ req' = req /\ told' = told /\ db' = db
      BY <1>9, <2>3 DEF JobPreload
    <3>3. Kept(Preload(db, v), quit)
      BY <1>1, <3>1, PreloadKept
    <3>4. QED
      BY <1>4, <3>2, <3>3
  <2>4. QED
    BY <2>2, <2>3
<1>10. CASE JobSave(j)
  <2>1. job[j].task # "none"
    BY <1>10, InvariantParts DEF CallOK, JobSave
  <2>3. Kept(db', quit)
    <3>1. CASE PlayerTask(j)
      <4>1. db' = SavePlayer(db, v, job[j].who)
        BY <1>10, <3>1 DEF JobSave
      <4>2. QED
        BY <1>1, <4>1, SavePlayerKept
    <3>2. CASE ~PlayerTask(j)
      <4>1. db' = Save(db, v) /\ SwitchTask(j)
        BY <1>1, <1>10, <2>1, <3>2 DEF JobSave, PlayerTask, SwitchTask, Job, Tasks
      <4>2. QED
        BY <1>1, <4>1, SaveKept
    <3>3. QED
      BY <3>1, <3>2
  <2>4. NoJob.view = NewGame /\ job' = [job EXCEPT ![j] = NoJob] /\ req' = req /\ told' = told
    BY <1>10 DEF JobSave, NoJob
  <2>5. QED
    BY <2>3, <2>4, NewGameKept, JobMoves
<1>11. QED
  BY <1>2, <1>5, <1>6, <1>7, <1>8, <1>9, <1>10 DEF RunJob

LEMMA ProcessLoopKept ==
  ASSUME IInv, LoopKept, quit' = quit, Process
  PROVE  LoopKept'
<1>1. CASE Stop
  BY <1>1, DieLoopKept DEF Stop
<1>2. CASE Restart \/ \E u \in Users : Connect(u)
  <2>1. db' = db /\ told' = told /\ req' = req /\ job' = job
    BY <1>2 DEF Restart, Connect
  <2>2. QED
    BY <2>1 DEF LoopKept, SwitchTask
<1>3. QED
  BY <1>1, <1>2 DEF Process

LEMMA LoopStepKept ==
  ASSUME IInv, LoopKept, quit' = quit,
         \/ \E h \in Handlers : Arrive(h) \/ Continue(h)
         \/ \E j \in Jobs : RunJob(j)
         \/ Process
  PROVE  LoopKept'
<1>1. ASSUME NEW h \in Handlers, Continue(h)
      PROVE  LoopKept'
  BY <1>1, TellLoopKept, WriteLoopKept DEF Continue
<1>2. QED
  BY <1>1, ArriveLoopKept, RunJobLoopKept, ProcessLoopKept

-----------------------------------------------------------------------------
(* What a step of GameLoop leaves to the departures                         *)

\* More is told and inserted, never less.
LEMMA LoopLater ==
  ASSUME IInv, \/ \E h \in Handlers : Arrive(h) \/ Continue(h)
               \/ \E j \in Jobs : RunJob(j)
               \/ Process
  PROVE  Later(told, ids, told', ids')
<1> USE InvariantParts
<1>1. ASSUME told \subseteq told', ids' = ids
      PROVE  Later(told, ids, told', ids')
  BY <1>1 DEF Later
<1>2. ASSUME NEW h \in Handlers, Arrive(h)
      PROVE  Later(told, ids, told', ids')
  BY <1>1, <1>2 DEF Arrive, ChooseTopic, StartGame, EndGame, UpdateGame, SubmitAnswer, SubmitVote
<1>3. ASSUME NEW h \in Handlers, CreateRound(h)
      PROVE  Later(told, ids, told', ids')
  <2>1. told' = told /\ ids'.vote = ids.vote /\ ids'.answer = ids.answer
    BY <1>3 DEF CreateRound
  <2>2. QED
    BY <2>1 DEF Later
<1>4. ASSUME NEW h \in Handlers, Continue(h)
      PROVE  Later(told, ids, told', ids')
  <2>1. CASE CreateRound(h)
    BY <1>3, <2>1
  <2>2. CASE ~CreateRound(h)
    BY <1>1, <1>4, <2>2
       DEF Continue, ChoseTopic, UpdatePreload, StartGameSave, UpdateGameSave, SaveRound,
           CountAnswers, CountVotes, ScorePlayer, ShareScores, EndGameSave, Tell
  <2>3. QED
    BY <2>1, <2>2
<1>5. ASSUME NEW j \in Jobs, JobInsertAnswer(j)
      PROVE  Later(told, ids, told', ids')
  <2>1. /\ told' = told /\ ids'.vote = ids.vote
        /\ ids'.answer = [ids.answer EXCEPT ![job[j].who] = @ + 1]
    BY <1>5 DEF JobInsertAnswer
  <2>2. QED
    BY <2>1 DEF Later
<1>6. ASSUME NEW j \in Jobs, JobInsertVote(j)
      PROVE  Later(told, ids, told', ids')
  <2>1. /\ told' = told /\ ids'.answer = ids.answer
        /\ ids'.vote = [ids.vote EXCEPT ![job[j].who] = @ + 1]
    BY <1>6 DEF JobInsertVote
  <2>2. QED
    BY <2>1 DEF Later
<1>7. ASSUME NEW j \in Jobs, RunJob(j)
      PROVE  Later(told, ids, told', ids')
  <2>1. CASE JobLoadPlayer(j) \/ JobLoadGame(j) \/ JobPreload(j) \/ JobSave(j) \/ JobReject(j)
    BY <1>1, <2>1 DEF JobLoadPlayer, JobLoadGame, JobPreload, JobSave, JobReject, Die
  <2>2. QED
    BY <1>5, <1>6, <1>7, <2>1 DEF RunJob
<1>8. CASE Process
  BY <1>1, <1>8 DEF Process, Stop, Die, Restart, Connect
<1>9. QED
  BY <1>2, <1>4, <1>7, <1>8

LEMMA PartingLater ==
  ASSUME NEW part, NEW q, NEW t, NEW i, NEW q2, NEW t2, NEW i2,
         Later(t, i, t2, i2), q \subseteq q2, PartingOK(part, q, t, i)
  PROVE  PartingOK(part, q2, t2, i2)
<1>1. GameOK(part.view, t2, i2)
  BY GameOKLater DEF PartingOK
<1>2. Begun(t) => Begun(t2)
  BY DEF Later, Begun
<1>3. QED
  BY <1>1, <1>2 DEF PartingOK

\* A departure that has not begun, or is over.
LEMMA NotYetOK ==
  ASSUME NEW q, NEW t, NEW i,
         NEW part \in {NotYet, [NotYet EXCEPT !.pc = "done"]}
  PROVE  PartingOK(part, q, t, i) /\ Kept(part.view, q)
<1>1. GameOK(NewGame, t, i) /\ Kept(NewGame, q)
  BY NewGameOK, NewGameKept
<1>2. /\ NotYet \in Parting /\ NotYet.remove = FALSE /\ NotYet.view = NewGame
      /\ NotYet.pc = "idle"
  BY <1>1, UsersAssumption DEF NotYet, Parting, GameOK
<1>3. /\ part \in Parting /\ part.pc \in {"idle", "done"}
      /\ part.remove = FALSE /\ part.view = NewGame
  BY <1>2 DEF Parting
<1>4. QED
  BY <1>1, <1>3 DEF PartingOK

\* What a step has to leave behind for the invariant to hold after it: that of GameLoop,
\* the rows of the players, and the departures it changes.
LEMMA DepartStep ==
  ASSUME DepartInv, IInv', LoopKept',
         Later(told, ids, told', ids'),
         quit \subseteq quit', quit' \subseteq Users,
         Seats = db'.players \cup deleted' \cup loose',
         db'.players \cap (deleted' \cup loose') = {},
         dropping' \in [Users -> {"no", "leave", "read"}],
         parting' \in [Leavers -> Parting],
         \A l \in Leavers : \/ parting'[l] = parting[l]
                            \/ /\ PartingOK(parting'[l], quit', told', ids')
                               /\ Kept(parting'[l].view, quit')
  PROVE  DepartInv'
<1>1. \A l \in Leavers : PartingOK(parting'[l], quit', told', ids')
  <2> SUFFICES ASSUME NEW l \in Leavers, parting'[l] = parting[l]
               PROVE  PartingOK(parting'[l], quit', told', ids')
    OBVIOUS
  <2>1. PartingOK(parting[l], quit, told, ids)
    BY DEF DepartInv
  <2>2. QED
    BY <2>1, PartingLater
<1>2. \A l \in Leavers : Kept(parting'[l].view, quit')
  BY KeptLater DEF DepartInv, CopiesKept
<1>3. QED
  BY <1>1, <1>2 DEF DepartInv, CopiesKept

\* GameLoop's own steps relink the players and, if the process ends, sweep the rest.
LEMMA RelinkKeepsRows ==
  ASSUME DepartInv, db'.players \subseteq Seats, Relink
  PROVE  /\ Seats = db'.players \cup deleted' \cup loose'
         /\ db'.players \cap (deleted' \cup loose') = {}
BY DEF DepartInv, Relink

LEMMA SweptLeaves ==
  ASSUME DepartInv, Swept, quit' = quit
  PROVE  /\ dropping' \in [Users -> {"no", "leave", "read"}]
         /\ parting' \in [Leavers -> Parting]
         /\ \A l \in Leavers : \/ parting'[l] = parting[l]
                               \/ /\ PartingOK(parting'[l], quit', told', ids')
                                  /\ Kept(parting'[l].view, quit')
<1> DEFINE over == [NotYet EXCEPT !.pc = "done"]
<1>1. PartingOK(over, quit', told', ids') /\ Kept(over.view, quit')
  BY NotYetOK
<1>2. over \in Parting
  BY <1>1 DEF PartingOK
<1>3. /\ parting \in [Leavers -> Parting]
      /\ dropping \in [Users -> {"no", "leave", "read"}]
  BY DEF DepartInv
<1>4. /\ dropping' = [u \in Users |-> IF up' THEN dropping[u] ELSE "no"]
      /\ parting' = [l \in Leavers |-> IF up' \/ parting[l].pc = "idle" THEN parting[l] ELSE over]
  BY DEF Swept
<1> HIDE DEF over
<1>5. /\ parting' \in [Leavers -> Parting]
      /\ \A l \in Leavers : parting'[l] \in {parting[l], over}
  BY <1>2, <1>3, <1>4
<1>6. dropping' \in [Users -> {"no", "leave", "read"}]
  BY <1>3, <1>4
<1>7. QED
  BY <1>1, <1>5, <1>6

LEMMA LoopStepAside ==
  ASSUME DepartInv, Aside,
         \/ \E h \in Handlers : Arrive(h) \/ Continue(h)
         \/ \E j \in Jobs : RunJob(j)
         \/ Process
  PROVE  DepartInv'
<1>1. IInv /\ LoopKept /\ quit' = quit /\ quit \subseteq Users
  BY DEF DepartInv, CopiesKept, Aside
<1>2. [Next]_vars
  BY DEF Next
<1>3. IInv'
  BY <1>1, <1>2, StepKeeps
<1>4. LoopKept' /\ Later(told, ids, told', ids')
  BY <1>1, LoopStepKept, LoopLater
<1>5. db'.players \subseteq Seats
  BY <1>4 DEF LoopKept, Kept
<1>6. QED
  BY <1>1, <1>3, <1>4, <1>5, RelinkKeepsRows, SweptLeaves, DepartStep DEF Aside

-----------------------------------------------------------------------------
(* The steps of a departure                                                 *)

\* Only the departures and sockets move.
LEMMA IdleLoop ==
  ASSUME DepartInv, UNCHANGED playing, quit \subseteq quit'
  PROVE  /\ IInv' /\ LoopKept' /\ Later(told, ids, told', ids')
         /\ db' = db /\ told' = told /\ ids' = ids
<1>1. /\ db' = db /\ ids' = ids /\ req' = req /\ job' = job /\ told' = told
      /\ gamers' = gamers /\ up' = up
  BY DEF playing, vars
<1>2. IInv'
  BY StutterKeeps DEF DepartInv, playing
<1>3. LoopKept'
  <2>1. \A g : Kept(g, quit) => Kept(g, quit')
    BY KeptLater
  <2>2. QED
    BY <1>1, <2>1 DEF DepartInv, CopiesKept, LoopKept, SwitchTask, Kept
<1>4. QED
  BY <1>1, <1>2, <1>3 DEF Later

\* The copy that a leaver makes is aborted only if the leaver hosts the game.
LEMMA AbortedByHostKept ==
  ASSUME NEW g, NEW t, NEW i, NEW q, NEW u \in Users, GameOK(g, t, i), Kept(g, q),
         ~HandsOver(g, u)
  PROVE  LET n == AbortedByHost(g, u)
         IN  GameOK(n, t, i) /\ Kept(n, q \cup {u}) /\ (Started(n) => Started(g))
<1> DEFINE n == AbortedByHost(g, u)
<1>1. g \in Game
  BY DEF GameOK
<1>2. CASE u = Host
  <2>1. n = [g EXCEPT !.status = "aborted"] /\ Started(g)
    BY <1>2 DEF AbortedByHost, HandsOver, Started
  <2>2. /\ n.status = "aborted" /\ n.substate = g.substate /\ n.players = g.players
        /\ n.score = g.score /\ n.rounds = g.rounds /\ n.answers = g.answers
        /\ n.votes = g.votes /\ n \in Game
    BY <1>1, <2>1 DEF Game, GameState
  <2> HIDE DEF n
  <2>3. GameOK(n, t, i)
    BY <2>2 DEF GameOK
  <2>4. QED
    BY <1>2, <2>1, <2>2, <2>3 DEF Kept, Struck, n
<1>3. CASE u # Host
  BY <1>3 DEF AbortedByHost, Kept, Struck
<1>4. QED
  BY <1>2, <1>3

LEMMA SetOutKeeps ==
  ASSUME DepartInv, NEW u \in Users, SetOut(u), UNCHANGED <<playing, rows>>,
         dropping' \in [Users -> {"no", "leave", "read"}]
  PROVE  DepartInv'
<1> DEFINE n == AbortedByHost(db, u)
           p == [who |-> u, remove |-> TRUE, pc |-> "preload", view |-> n]
<1>1. quit' = quit \cup {u} /\ deleted' = deleted /\ loose' = loose
  BY DEF SetOut, rows
<1>2. /\ IInv' /\ LoopKept' /\ Later(told, ids, told', ids')
      /\ db' = db /\ told' = told /\ ids' = ids
  BY <1>1, IdleLoop
<1>3. GameOK(db, told, ids) /\ Kept(db, quit) /\ (Started(db) => Begun(told))
  BY DEF DepartInv, IInv, CopiesKept, LoopKept
<1>4. GameOK(n, told, ids) /\ Kept(n, quit') /\ (Started(n) => Begun(told))
  BY <1>1, <1>3, AbortedByHostKept DEF SetOut
<1>5. u \in Seats
  BY <1>3 DEF SetOut, CanLeave, Kept
<1>6. PartingOK(p, quit', told', ids') /\ Kept(p.view, quit')
  <2> HIDE DEF n
  <2>1. n \in Game
    BY <1>4 DEF GameOK
  <2>2. QED
    BY <1>1, <1>2, <1>4, <1>5, <2>1 DEF PartingOK, Parting
<1>7. PICK l \in Leavers : parting' = [parting EXCEPT ![l] = p]
  BY DEF SetOut
<1>8. parting \in [Leavers -> Parting] /\ p \in Parting
  BY <1>6 DEF DepartInv, PartingOK
<1> HIDE DEF n, p
<1>9. /\ parting' \in [Leavers -> Parting]
      /\ \A k \in Leavers : \/ parting'[k] = parting[k]
                            \/ /\ PartingOK(parting'[k], quit', told', ids')
                               /\ Kept(parting'[k].view, quit')
  BY <1>6, <1>7, <1>8
<1>10. /\ quit' \subseteq Users /\ quit \subseteq quit'
       /\ Seats = db'.players \cup deleted' \cup loose'
       /\ db'.players \cap (deleted' \cup loose') = {}
  BY <1>1, <1>2 DEF DepartInv
<1>11. QED
  BY <1>2, <1>9, <1>10, DepartStep

\* What holds of a departure, and of the rows.
LEMMA DepartParts ==
  ASSUME DepartInv
  PROVE  /\ IInv /\ LoopKept /\ TypeOK
         /\ GameOK(db, told, ids) /\ Kept(db, quit)
         /\ Started(db) => Begun(told)
         /\ ToldInOrder
         /\ Seats = db.players \cup deleted \cup loose
         /\ db.players \cap (deleted \cup loose) = {}
         /\ dropping \in [Users -> {"no", "leave", "read"}]
         /\ parting \in [Leavers -> Parting]
         /\ \A l \in Leavers : PartingOK(parting[l], quit, told, ids)
         /\ \A l \in Leavers : Kept(parting[l].view, quit)
         /\ quit \subseteq Users
BY DEF DepartInv, IInv, CopiesKept, LoopKept

\* Rows of players come and go without a game being less than all right.
LEMMA PlayersOK ==
  ASSUME NEW g, NEW t, NEW i, NEW S \in SUBSET Profiles, GameOK(g, t, i)
  PROVE  LET n == [g EXCEPT !.players = S]
         IN  /\ GameOK(n, t, i) /\ n.players = S
             /\ n.status = g.status /\ n.rounds = g.rounds
<1> DEFINE n == [g EXCEPT !.players = S]
<1>1. /\ n \in Game /\ n.players = S /\ n.status = g.status /\ n.substate = g.substate
      /\ n.score = g.score /\ n.rounds = g.rounds /\ n.answers = g.answers
      /\ n.votes = g.votes
  BY DEF GameOK, Game
<1> HIDE DEF n
<1>2. GameOK(n, t, i)
  BY <1>1 DEF GameOK
<1>3. QED
  BY <1>1, <1>2 DEF n

\* A step of one departure that leaves handlers and calls alone.
LEMMA OneParts ==
  ASSUME DepartInv, NEW l \in Leavers, NEW p, parting' = [parting EXCEPT ![l] = p],
         quit' = quit, dropping' = dropping,
         PartingOK(p, quit', told', ids'), Kept(p.view, quit'),
         IInv', LoopKept', Later(told, ids, told', ids'),
         Seats = db'.players \cup deleted' \cup loose',
         db'.players \cap (deleted' \cup loose') = {}
  PROVE  DepartInv'
<1>1. p \in Parting /\ parting \in [Leavers -> Parting]
  BY DEF PartingOK, DepartInv
<1>2. /\ parting' \in [Leavers -> Parting]
      /\ \A k \in Leavers : \/ parting'[k] = parting[k]
                            \/ /\ PartingOK(parting'[k], quit', told', ids')
                               /\ Kept(parting'[k].view, quit')
  BY <1>1
<1>3. /\ quit \subseteq quit' /\ quit' \subseteq Users
      /\ dropping' \in [Users -> {"no", "leave", "read"}]
  BY DepartParts
<1>4. QED
  BY <1>2, <1>3, DepartStep

LEMMA DeletePlayerKeeps ==
  ASSUME DepartInv, NEW l \in Leavers, DeletePlayer(l)
  PROVE  DepartInv'
<1> DEFINE part == parting[l]
           u == part.who
           p == [part EXCEPT !.remove = FALSE]
           S == db.players \ {u}
<1>1. /\ part.remove
      /\ db' = [db EXCEPT !.players = S] /\ deleted' = deleted \cup {u} /\ loose' = loose
      /\ parting' = [parting EXCEPT ![l] = p]
      /\ ids' = ids /\ req' = req /\ job' = job /\ told' = told /\ gamers' = gamers /\ up' = up
      /\ dropping' = dropping /\ quit' = quit
  BY DepartParts DEF DeletePlayer
<1>2. /\ part \in Parting /\ u \in quit /\ u \in Seats
      /\ PartingOK(part, quit, told, ids) /\ Kept(part.view, quit)
  BY <1>1, DepartParts DEF PartingOK
<1>3. S \in SUBSET Profiles
  BY DepartParts DEF GameOK, Game
<1>4. GameOK(db', told', ids') /\ db'.players = S /\ db'.status = db.status /\ db'.rounds = db.rounds
  <2> HIDE DEF S
  <2>1. QED
    BY <1>1, <1>3, DepartParts, PlayersOK
<1>5. Started(db') => Begun(told')
  BY <1>1, <1>4, DepartParts DEF Started
<1>6. IInv'
  <2>1. /\ \A h \in Handlers : req'[h] = req[h]
        /\ \A j \in Jobs : job'[j] = job[j]
        /\ ToldInOrder' /\ Later(told, ids, told', ids')
    BY <1>1, DepartParts DEF ToldInOrder, Later
  <2>2. /\ req' \in [Handlers -> Request] /\ job' \in [Jobs -> Job]
        /\ ids' \in [round : Nat, answer : [Profiles -> Nat], vote : [Profiles -> Nat]]
        /\ told' \subseteq Announcement /\ gamers' \subseteq Users /\ up' \in BOOLEAN
    BY <1>1, DepartParts, InvariantParts
  <2>3. QED
    BY <1>4, <1>5, <2>1, <2>2, DepartParts, StepKeepsIInv
<1>7. Kept(db', quit) /\ Kept(p.view, quit')
  <2>1. u \in Struck(quit)
    BY <1>2, SeatsAssumption DEF Struck
  <2>2. p.view = part.view
    BY <1>2 DEF Parting
  <2>3. Kept(db, quit) /\ db'.players = S /\ db'.status = db.status
    BY <1>4, DepartParts
  <2> HIDE DEF p, part, u
  <2>4. Kept(db', quit)
    BY <2>1, <2>3 DEF Kept
  <2>5. QED
    BY <1>1, <1>2, <2>2, <2>4
<1>8. LoopKept'
  BY <1>1, <1>7, DepartParts, LoopStep
<1>9. PartingOK(p, quit', told', ids')
  <2>1. /\ p \in Parting /\ p.who = part.who /\ p.view = part.view /\ p.pc = part.pc
        /\ p.remove = FALSE
    BY <1>2 DEF Parting
  <2> HIDE DEF p, part
  <2>2. QED
    BY <1>1, <1>2, <2>1 DEF PartingOK
<1>10. /\ Seats = db'.players \cup deleted' \cup loose'
       /\ db'.players \cap (deleted' \cup loose') = {}
  BY <1>1, <1>2, <1>4, DepartParts
<1>11. Later(told, ids, told', ids')
  BY <1>1 DEF Later
<1> HIDE DEF p
<1>12. QED
  BY <1>1, <1>6, <1>7, <1>8, <1>9, <1>10, <1>11, OneParts

LEMMA LeavePreloadKeeps ==
  ASSUME DepartInv, NEW l \in Leavers, LeavePreload(l)
  PROVE  DepartInv'
<1> DEFINE part == parting[l]
           n == Preload(db, part.view)
           p == [part EXCEPT !.pc = "save", !.view = n]
<1>1. /\ part.pc = "preload" /\ parting' = [parting EXCEPT ![l] = p]
      /\ UNCHANGED playing /\ deleted' = deleted /\ loose' = loose
      /\ dropping' = dropping /\ quit' = quit
  BY DepartParts DEF LeavePreload, rows
<1>2. /\ IInv' /\ LoopKept' /\ Later(told, ids, told', ids')
      /\ db' = db /\ told' = told /\ ids' = ids
  BY <1>1, IdleLoop
<1>3. PartingOK(part, quit, told, ids) /\ Kept(part.view, quit)
  BY DepartParts
<1>4. /\ GameOK(n, told, ids) /\ Kept(n, quit) /\ (Started(n) => Begun(told))
  <2>1. GameOK(part.view, told, ids) /\ (Started(part.view) => Begun(told))
    BY <1>1, <1>3 DEF PartingOK
  <2>2. /\ GameOK(n, told, ids) /\ n.status = part.view.status
        /\ n.rounds = part.view.rounds \cup db.rounds
    BY <2>1, DepartParts, PreloadOK
  <2>3. Kept(n, quit)
    BY <1>3, <2>1, DepartParts, PreloadKept DEF GameOK
  <2>4. Started(n) => Started(part.view) \/ Started(db)
    BY <2>2 DEF Started
  <2>5. QED
    BY <2>1, <2>2, <2>3, <2>4, DepartParts
<1>5. PartingOK(p, quit', told', ids') /\ Kept(p.view, quit')
  <2> HIDE DEF n
  <2>1. /\ p \in Parting /\ p.who = part.who /\ p.view = n /\ p.pc = "save"
        /\ p.remove = part.remove
    BY <1>3, <1>4 DEF PartingOK, Parting, GameOK
  <2> HIDE DEF p, part
  <2>2. QED
    BY <1>1, <1>2, <1>3, <1>4, <2>1 DEF PartingOK
<1> HIDE DEF p
<1>6. QED
  BY <1>1, <1>2, <1>5, DepartParts, OneParts

LEMMA LeaveSaveKeeps ==
  ASSUME DepartInv, NEW l \in Leavers, LeaveSave(l)
  PROVE  DepartInv'
<1> DEFINE part == parting[l]
           p == [part EXCEPT !.pc = "done", !.view = NewGame]
<1>1. /\ part.pc = "save" /\ parting' = [parting EXCEPT ![l] = p]
      /\ db' = Save(db, part.view) /\ Relink
      /\ ids' = ids /\ req' = req /\ job' = job /\ told' = told /\ gamers' = gamers /\ up' = up
      /\ dropping' = dropping /\ quit' = quit
  BY DepartParts DEF LeaveSave
<1>2. PartingOK(part, quit, told, ids) /\ Kept(part.view, quit)
  BY DepartParts
<1>3. /\ GameOK(part.view, told, ids) /\ (Started(part.view) => Begun(told))
      /\ part.who \in quit
  BY <1>1, <1>2 DEF PartingOK
<1>4. IInv'
  <2>1. /\ req' \in [Handlers -> Request] /\ \A k \in Handlers : req'[k] = req[k]
        /\ told' \subseteq Announcement /\ ToldInOrder' /\ Begun(told) = Begun(told')
    BY <1>1, <1>3, DepartParts, InvariantParts DEF ToldInOrder
  <2>2. QED
    BY <1>1, <1>3, <2>1, DepartParts, HandlerSaves
<1>5. Kept(db', quit)
  BY <1>1, <1>2, <1>3, DepartParts, SaveKept DEF GameOK
<1>6. LoopKept'
  BY <1>1, <1>5, DepartParts, LoopStep
<1>7. Later(told, ids, told', ids')
  BY <1>1 DEF Later
<1>8. PartingOK(p, quit', told', ids') /\ Kept(p.view, quit')
  <2>1. GameOK(NewGame, told', ids') /\ Kept(NewGame, quit')
    BY NewGameOK, NewGameKept
  <2>2. /\ p \in Parting /\ p.who = part.who /\ p.view = NewGame /\ p.pc = "done"
        /\ p.remove = part.remove
    BY <1>2, <2>1 DEF PartingOK, Parting, GameOK
  <2> HIDE DEF p, part
  <2>3. QED
    BY <1>1, <1>2, <2>1, <2>2 DEF PartingOK
<1> HIDE DEF p
<1>9. QED
  BY <1>1, <1>4, <1>5, <1>6, <1>7, <1>8, RelinkKeepsRows, OneParts DEF Kept

LEMMA DepartKeeps ==
  ASSUME DepartInv, NEW l \in Leavers, Depart(l)
  PROVE  DepartInv'
BY DeletePlayerKeeps, LeavePreloadKeeps, LeaveSaveKeeps DEF Depart

-----------------------------------------------------------------------------
(* The steps of a lost socket                                               *)

\* Only the sockets of some users move.
LEMMA SocketStep ==
  ASSUME DepartInv, IInv', LoopKept', db' = db, ids' = ids, told \subseteq told',
         UNCHANGED <<rows, parting, quit>>,
         dropping' \in [Users -> {"no", "leave", "read"}]
  PROVE  DepartInv'
<1>1. /\ deleted' = deleted /\ loose' = loose /\ parting' = parting /\ quit' = quit
      /\ \A l \in Leavers : parting'[l] = parting[l]
  BY DEF rows
<1>2. Later(told, ids, told', ids')
  BY DEF Later
<1>3. QED
  BY <1>1, <1>2, DepartParts, DepartStep

LEMMA DisconnectKeeps ==
  ASSUME DepartInv, NEW u \in Users, Disconnect(u)
  PROVE  DepartInv'
<1>1. /\ UNCHANGED playing /\ UNCHANGED <<rows, parting, quit>>
      /\ dropping' = [dropping EXCEPT ![u] = "leave"]
  BY DEF Disconnect
<1>2. dropping' \in [Users -> {"no", "leave", "read"}]
  BY <1>1, DepartParts
<1>3. IInv' /\ LoopKept' /\ db' = db /\ ids' = ids /\ told' = told
  BY <1>1, IdleLoop
<1>4. QED
  BY <1>1, <1>2, <1>3, SocketStep

LEMMA DropReadKeeps ==
  ASSUME DepartInv, NEW u \in Users, DropRead(u)
  PROVE  DepartInv'
<1>1. /\ gamers' = gamers \ {u}
      /\ told' = told \cup {a \in {Say("gameAborted", 0)} : db.status = "aborted"}
      /\ dropping' = [dropping EXCEPT ![u] = "no"]
      /\ db' = db /\ ids' = ids /\ req' = req /\ job' = job /\ up' = up
      /\ UNCHANGED <<rows, parting, quit>> /\ quit' = quit
  BY DEF DropRead
<1>2. told \subseteq told' /\ told' \subseteq Announcement
  BY <1>1, DepartParts, InvariantParts DEF Say, Announcement, Event
<1>3. \A a \in told' \ told : a.event = "gameAborted"
  BY <1>1 DEF Say
<1>4. ToldInOrder'
  BY <1>2, <1>3, DepartParts DEF ToldInOrder
<1>5. IInv'
  <2>1. /\ gamers' \subseteq Users /\ up' \in BOOLEAN
        /\ req' \in [Handlers -> Request] /\ \A h \in Handlers : req'[h] = req[h]
        /\ job' \in [Jobs -> Job] /\ \A j \in Jobs : job'[j] = job[j]
    BY <1>1, DepartParts, InvariantParts
  <2>2. QED
    BY <1>1, <1>2, <1>4, <2>1, DepartParts, MemoryStep
<1>6. LoopKept'
  BY <1>1, DepartParts DEF LoopKept, Kept, SwitchTask
<1>7. dropping' \in [Users -> {"no", "leave", "read"}]
  BY <1>1, DepartParts
<1>8. QED
  BY <1>1, <1>2, <1>5, <1>6, <1>7, SocketStep

\* The process ends, and with it what is under way.
LEMMA EndKeeps ==
  ASSUME DepartInv, Die, Swept, quit' = quit, Relink \/ UNCHANGED rows
  PROVE  DepartInv'
<1>1. db' = db /\ ids' = ids /\ told' = told
  BY DEF Die
<1>2. IInv' /\ LoopKept'
  BY DepartParts, DieKeeps, DieLoopKept
<1>3. /\ Seats = db'.players \cup deleted' \cup loose'
      /\ db'.players \cap (deleted' \cup loose') = {}
  <2>1. db'.players \subseteq Seats
    BY <1>1, DepartParts
  <2>2. CASE Relink
    BY <2>1, <2>2, RelinkKeepsRows
  <2>3. CASE UNCHANGED rows
    BY <1>1, <2>3, DepartParts DEF rows
  <2>4. QED
    BY <2>1, <2>2, <2>3
<1>4. Later(told, ids, told', ids') /\ quit \subseteq quit' /\ quit' \subseteq Users
  BY <1>1, DepartParts DEF Later
<1>5. QED
  BY <1>1, <1>2, <1>3, <1>4, SweptLeaves, DepartStep

LEMMA DropOutKeeps ==
  ASSUME DepartInv, NEW u \in Users, DropOut(u)
  PROVE  DepartInv'
<1>1. CASE Drop(u)
  <2>1. /\ SetOut(u) /\ UNCHANGED <<playing, rows>> /\ dropping[u] = "leave"
        /\ dropping' = [dropping EXCEPT ![u] = "read"]
    BY <1>1 DEF Drop
  <2>2. dropping' \in [Users -> {"no", "leave", "read"}]
    BY <2>1, DepartParts
  <2>3. QED
    BY <2>1, <2>2, SetOutKeeps
<1>2. CASE DropReject(u)
  <2>1. Die /\ Swept /\ UNCHANGED rows /\ quit' = quit
    BY <1>2 DEF DropReject
  <2>2. QED
    BY <2>1, EndKeeps
<1>3. QED
  BY <1>1, <1>2, DropReadKeeps DEF DropOut

LEMMA LeaveGameKeeps ==
  ASSUME DepartInv, NEW u \in Users, LeaveGame(u)
  PROVE  DepartInv'
<1>1. /\ SetOut(u) /\ UNCHANGED <<playing, rows>>
      /\ dropping' = dropping
  BY DEF LeaveGame
<1>2. QED
  BY <1>1, DepartParts, SetOutKeeps

-----------------------------------------------------------------------------
(* The steps of a call about a player who is gone                           *)

\* The row comes back, and the seat with it unless the row has lost its link.
LEMMA JobSaveGoneKeeps ==
  ASSUME DepartInv, NEW j \in Jobs, JobSaveGone(j), Swept, quit' = quit
  PROVE  DepartInv'
<1> DEFINE v == job[j].view
           p == job[j].who
           d == SavePlayer(db, v, p)
           S == d.players \cup ({p} \ loose)
<1>1. /\ PlayerTask(j) /\ p \in deleted /\ job[j].pc = "save"
      /\ db' = [d EXCEPT !.players = S] /\ deleted' = deleted \ {p} /\ loose' = loose
      /\ job' = [job EXCEPT ![j] = NoJob]
      /\ ids' = ids /\ req' = req /\ told' = told /\ gamers' = gamers /\ up' = up
  BY DEF JobSaveGone, Gone
<1>2. p \in Seats /\ p \in Profiles
  BY <1>1, DepartParts, SeatsAssumption
<1>3. CallOK(job[j], told, ids) /\ GameOK(v, told, ids) /\ db \in Game
  BY DepartParts, InvariantParts DEF CallOK, GameOK
<1>4. /\ GameOK(d, told, ids) /\ d.status = db.status /\ d.rounds = db.rounds
      /\ d.players = db.players
  <2>1. d.players = db.players
    BY <1>3 DEF SavePlayer, Game
  <2>2. QED
    BY <1>2, <1>3, <2>1, DepartParts, SavePlayerOK
<1>5. S \in SUBSET Profiles
  BY <1>2, <1>4 DEF GameOK, Game
<1> HIDE DEF d
<1>6. /\ GameOK(db', told', ids') /\ db'.players = S
      /\ db'.status = db.status /\ db'.rounds = db.rounds
  <2> HIDE DEF S
  <2>1. QED
    BY <1>1, <1>4, <1>5, PlayersOK
<1>7. Later(told, ids, told', ids') /\ (Started(db') => Begun(told))
  BY <1>1, <1>6, DepartParts DEF Later, Started
<1>8. IInv'
  <2>1. CallOK(NoJob, told', ids')
    BY NoJobOK
  <2>2. ids' \in [round : Nat, answer : [Profiles -> Nat], vote : [Profiles -> Nat]]
    BY <1>1, DepartParts, InvariantParts
  <2>3. QED
    BY <1>1, <1>6, <1>7, <2>1, <2>2, DepartParts, JobStep
<1>9. Kept(db', quit)
  BY <1>2, <1>4, <1>6, DepartParts DEF Kept, Struck
<1>10. LoopKept'
  <2>1. Kept(NoJob.view, quit)
    BY NewGameKept DEF NoJob
  <2>2. QED
    BY <1>1, <1>9, <2>1, DepartParts, JobMoves
<1>11. /\ Seats = db'.players \cup deleted' \cup loose'
       /\ db'.players \cap (deleted' \cup loose') = {}
  BY <1>1, <1>2, <1>4, <1>6, DepartParts
<1>12. quit \subseteq quit' /\ quit' \subseteq Users
  BY DepartParts
<1>13. QED
  BY <1>7, <1>8, <1>10, <1>11, <1>12, SweptLeaves, DepartStep

LEMMA RunCallKeeps ==
  ASSUME DepartInv, NEW j \in Jobs, RunCall(j)
  PROVE  DepartInv'
<1>1. CASE RunJobAsBefore(j) /\ Aside
  BY <1>1, LoopStepAside DEF RunJobAsBefore
<1>2. CASE JobRejectGone(j) /\ Aside
  BY <1>2, EndKeeps DEF JobRejectGone, Aside
<1>3. CASE JobSaveGone(j) /\ Swept /\ UNCHANGED quit
  BY <1>3, JobSaveGoneKeeps
<1>4. QED
  BY <1>1, <1>2, <1>3 DEF RunCall

-----------------------------------------------------------------------------
(* The whole                                                                *)

LEMMA DepartStepKeeps ==
  ASSUME DepartInv, [DepartNext]_allvars
  PROVE  DepartInv'
<1>1. CASE UNCHANGED allvars
  <2>1. /\ UNCHANGED playing /\ UNCHANGED <<rows, parting, quit>> /\ dropping' = dropping
    BY <1>1 DEF allvars
  <2>2. IInv' /\ LoopKept' /\ db' = db /\ ids' = ids /\ told' = told
    BY <2>1, IdleLoop
  <2>3. QED
    BY <2>1, <2>2, DepartParts, SocketStep
<1>2. ASSUME NEW h \in Handlers, (Arrive(h) \/ Continue(h)) /\ Aside
      PROVE  DepartInv'
  BY <1>2, LoopStepAside
<1>3. CASE Process /\ Aside
  BY <1>3, LoopStepAside
<1>4. QED
  BY <1>1, <1>2, <1>3, RunCallKeeps, DepartKeeps, LeaveGameKeeps, DisconnectKeeps, DropOutKeeps
     DEF DepartNext, GoOn, Proceed

LEMMA DepartInitOK ==
  ASSUME DepartInit
  PROVE  DepartInv
<1>1. /\ Init /\ deleted = {} /\ loose = {} /\ quit = {}
      /\ dropping = [u \in Users |-> "no"] /\ parting = [l \in Leavers |-> NotYet]
  BY DEF DepartInit
<1>2. /\ db = NewGame /\ told = {} /\ req = [h \in Handlers |-> Idle]
      /\ job = [j \in Jobs |-> NoJob]
  BY <1>1 DEF Init
<1>3. IInv /\ LoopKept
  BY <1>1, <1>2, InitOK, NewGameKept DEF LoopKept, SwitchTask, Idle, NoJob
<1>4. PartingOK(NotYet, quit, told, ids) /\ Kept(NotYet.view, quit)
  BY NotYetOK
<1>5. NotYet \in Parting
  BY <1>4 DEF PartingOK
<1>6. Seats = db.players
  BY <1>2 DEF NewGame
<1>7. QED
  BY <1>1, <1>3, <1>4, <1>5, <1>6 DEF DepartInv, CopiesKept

\* Players may leave at any moment, however many, by the command or by losing their
\* socket: what GameLoop keeps to survives, and every seat is accounted for.
THEOREM DeparturesAreKept == DepartSpec => []DepartInv
<1>1. DepartInit => DepartInv
  BY DepartInitOK
<1>2. DepartInv /\ [DepartNext]_allvars => DepartInv'
  BY DepartStepKeeps
<1>3. QED
  BY <1>1, <1>2, PTL DEF DepartSpec

\* No order in which copies of the game are saved aborts it but with its host gone.
THEOREM NobodyElseAborts == DepartSpec => []AbortedOnlyByHost
<1>1. DepartInv => AbortedOnlyByHost
  BY DEF DepartInv, CopiesKept, LoopKept, Kept, AbortedOnlyByHost
<1>2. QED
  BY <1>1, DeparturesAreKept, PTL

\* No list of players saved over another empties a seat, but one that has the number of
\* a user who left, which is what leaveGame deletes, whosever seat it is.
THEOREM OnlyNumberedSeatsGo == DepartSpec => []OnlyNumberedSeatsEmpty
<1>1. DepartInv => OnlyNumberedSeatsEmpty
  BY DEF DepartInv, CopiesKept, LoopKept, Kept, OnlyNumberedSeatsEmpty
<1>2. QED
  BY <1>1, DeparturesAreKept, PTL

\* What GameLoop keeps to without departures it keeps to with them: rounds stay within
\* the total, no phase, outcome or announcement comes before its time, and points are
\* earned.
THEOREM TheGameIsKept ==
  DepartSpec => []/\ RoundsWithinTotal /\ PhaseWasAnnounced
                  /\ OutcomeWasAnnounced /\ ToldInOrder /\ PointsAreEarned
<1>1. DepartInv => IInv
  BY DEF DepartInv
<1>2. IInv => RoundsWithinTotal
  BY DEF IInv, GameOK, RoundsWithinTotal
<1>3. IInv => PhaseWasAnnounced
  BY DEF IInv, GameOK, PhaseWasAnnounced, Heard
<1>4. IInv => OutcomeWasAnnounced
  BY DEF IInv, GameOK, OutcomeWasAnnounced, Finale
<1>5. IInv => ToldInOrder
  BY DEF IInv
<1>6. IInv => PointsAreEarned
  BY DEF IInv, GameOK, PointsAreEarned, Earned, Heard
<1>7. QED
  BY <1>1, <1>2, <1>3, <1>4, <1>5, <1>6, DeparturesAreKept, PTL

\* Players who keep to their turns as long as they stay are among those.
THEOREM TurnsAreDepartures == FairDepartTurnSpec => DepartSpec
<1>1. \A h \in Handlers : TakeTurn(h) => Arrive(h)
  BY UsersAssumption
     DEF TakeTurn, StartInTurn, TopicInTurn, AnswerInTurn, VoteInTurn, EndInTurn, Arrive
<1>2. [DepartTurnNext]_allvars => [DepartNext]_allvars
  BY <1>1 DEF DepartTurnNext, DepartNext
<1>3. QED
  BY <1>2, PTL DEF FairDepartTurnSpec, DepartSpec
=============================================================================
