---------------------------- MODULE TurnPlayProofs ----------------------------
(***************************************************************************)
(* Played in turn, with no call awaited and stops at any moment, GameLoop   *)
(* implements DeceptionRules: for any number of players, rounds, handlers   *)
(* and calls, and whichever user each player belongs to.                    *)
(***************************************************************************)
EXTENDS TallyProofs, WellFoundedInduction

-----------------------------------------------------------------------------
(* What is in memory stays in order when no prompt is told                  *)

\* The step asks for no answers.
Unprompted ==
  /\ told \subseteq told' /\ \A a \in told' : a.event = "answerPrompt" => a \in told
  /\ \A a \in told' : a.event = "allVotesSubmitted" => a \in told \/ Asked(told, a.number)

LEMMA ToldUnprompted ==
  ASSUME AsksInOrder, NEW s, told' = told \/ told' = told \cup s,
         \A a \in s : a.event # "answerPrompt",
         \A a \in s : a.event = "allVotesSubmitted" => Asked(told, a.number)
  PROVE  Unprompted
BY DEF Unprompted

LEMMA AskedLater ==
  ASSUME Unprompted
  PROVE  /\ \A k : Asked(told', k) <=> Asked(told, k)
         /\ \A k : Tallied(told, k) => Tallied(told', k)
         /\ AllTallied(told) => AllTallied(told')
BY DEF Unprompted, Asked, Tallied, AllTallied, Say

LEMMA PhaseLater ==
  ASSUME Unprompted, NEW g, NEW f, NEW n, PhaseInOrder(g, n, told),
         f.substate = g.substate, f.status = g.status
  PROVE  PhaseInOrder(f, n, told')
BY AskedLater DEF PhaseInOrder

LEMMA RequestAskedLater ==
  ASSUME Unprompted, NEW r, NEW g, NEW f, NEW n, RequestAsked(r, g, n, told),
         Opening(r) => f.substate = g.substate /\ f.score = g.score
  PROVE  RequestAsked(r, f, n, told')
<1>1. PhaseInOrder(r.view, n, told) => PhaseInOrder(r.view, n, told')
  BY PhaseLater
<1>2. QED
  BY <1>1, AskedLater DEF RequestAsked

LEMMA CallAskedLater ==
  ASSUME Unprompted, NEW c, NEW n, CallAsked(c, n, told)
  PROVE  CallAsked(c, n, told')
<1>1. PhaseInOrder(c.view, n, told) => PhaseInOrder(c.view, n, told')
  BY PhaseLater
<1>2. QED
  BY <1>1, AskedLater DEF CallAsked

LEMMA NothingAsked ==
  ASSUME NEW g, NEW n, NEW t
  PROVE  RequestAsked(Idle, g, n, t) /\ CallAsked(NoJob, n, t)
BY NothingTallied DEF RequestAsked, CallAsked, Idle, NoJob, Opening

LEMMA AsksParts ==
  ASSUME AsksInOrder
  PROVE  /\ PhaseInOrder(db, ids.round, told) /\ AnnouncedInOrder(ids.round, told)
         /\ \A h \in Handlers : RequestAsked(req[h], db, ids.round, told)
         /\ \A j \in Jobs : CallAsked(job[j], ids.round, told)
BY DEF AsksInOrder

\* A step that opens no round and asks for no answers.
LEMMA AsksStep ==
  ASSUME AsksInOrder, Unprompted, ids'.round = ids.round,
         \A v \in SeatVotes(db') : v \in SeatVotes(db) \/ Asked(told, v.number),
         PhaseInOrder(db', ids.round, told'),
         \A h \in Handlers : RequestAsked(req'[h], db', ids.round, told'),
         \A j \in Jobs : CallAsked(job'[j], ids.round, told')
  PROVE  AsksInOrder'
<1> DEFINE n == ids.round
<1>1. \A v \in SeatVotes(db') : Asked(told', v.number)
  BY AskedLater DEF AsksInOrder
<1>2. AnnouncedInOrder(n, told')
  <2>1. \A a \in told' : a.event = "answerPrompt" =>
          a.number \in 1..n /\ (a.number < n => Tallied(told', a.number))
    BY AskedLater DEF Unprompted, AsksInOrder, AnnouncedInOrder
  <2>2. \A a \in told' : a.event = "allVotesSubmitted" => Asked(told', a.number)
    BY AskedLater DEF Unprompted, AsksInOrder, AnnouncedInOrder
  <2>3. QED
    BY <2>1, <2>2 DEF AnnouncedInOrder
<1>3. QED
  BY <1>1, <1>2 DEF AsksInOrder

\* A handler begins, goes on or returns, and may leave a call behind.
LEMMA HandlerAsks ==
  ASSUME IInv, TallyInOrder, AsksInOrder, NEW h \in Handlers, NoHandler \/ req[h] # Idle,
         NEW r, NEW c, req' = [req EXCEPT ![h] = r],
         (job' = job /\ c = NoJob) \/ (\E j \in Jobs : Start(j, c)),
         Unprompted, ids'.round = ids.round, SeatVotes(db') = SeatVotes(db),
         PhaseInOrder(db', ids.round, told),
         RequestAsked(r, db', ids.round, told), CallAsked(c, ids.round, told)
  PROVE  AsksInOrder'
<1> DEFINE n == ids.round
<1>1. req'[h] = r /\ \A k \in Handlers : k # h => req'[k] = Idle
  BY TallyParts DEF Apart, NoHandler
<1>2. \A j \in Jobs : job'[j] = job[j] \/ job'[j] = c
  BY TallyParts DEF Start
<1>3. PhaseInOrder(db', n, told')
  BY PhaseLater
<1>4. \A k \in Handlers : RequestAsked(req'[k], db', n, told')
  BY <1>1, RequestAskedLater, NothingAsked
<1>5. \A j \in Jobs : CallAsked(job'[j], n, told')
  BY <1>2, CallAskedLater, AsksParts
<1>6. QED
  BY <1>3, <1>4, <1>5, AsksStep

\* The same when the handler writes nothing.
LEMMA HandlerAsksAlone ==
  ASSUME IInv, TallyInOrder, AsksInOrder, NEW h \in Handlers, NoHandler \/ req[h] # Idle,
         NEW r, NEW c, req' = [req EXCEPT ![h] = r],
         (job' = job /\ c = NoJob) \/ (\E j \in Jobs : Start(j, c)),
         Unprompted, ids' = ids, db' = db,
         RequestAsked(r, db, ids.round, told), CallAsked(c, ids.round, told)
  PROVE  AsksInOrder'
BY HandlerAsks, AsksParts

-----------------------------------------------------------------------------
(* Turns                                                                    *)

LEMMA StartTurnAsks ==
  ASSUME IInv, TallyInOrder, AsksInOrder, Quiet, NEW h \in Handlers,
         StartInTurn(h) \/ TopicInTurn(h) \/ EndInTurn(h)
  PROVE  AsksInOrder'
<1> DEFINE n == ids.round
<1>1. db \in Game /\ PhaseInOrder(db, n, told)
  BY TallyParts, AsksParts
<1>2. told' = told /\ db' = db /\ ids' = ids /\ job' = job /\ Unprompted /\ NoHandler
  BY DEF StartInTurn, TopicInTurn, EndInTurn, StartGame, ChooseTopic, EndGame, Unprompted, Quiet
<1>3. CallAsked(NoJob, n, told)
  BY NothingAsked
<1>4. CASE StartInTurn(h)
  <2> DEFINE f == [db EXCEPT !.status = "in_progress"]
             r == [pc |-> "start.preload", view |-> f, round |-> NoRound, todo |-> {}]
  <2>1. f.substate = db.substate /\ f.status = "in_progress" /\ db.status = "preparing"
    BY <1>1, <1>4 DEF Game, StartInTurn, StartGame, InState
  <2>2. r.pc = "start.preload" /\ r.view = f /\ req' = [req EXCEPT ![h] = r]
    BY <1>4 DEF StartInTurn, StartGame, Await
  <2> HIDE DEF f, r
  <2>3. RequestAsked(r, db, n, told)
    BY <1>1, <2>1, <2>2 DEF RequestAsked, PhaseInOrder, Opening
  <2>4. QED
    BY <1>2, <1>3, <2>2, <2>3, HandlerAsksAlone
<1>5. CASE TopicInTurn(h)
  <2> DEFINE r == [pc |-> "round.create", view |-> db, round |-> NoRound, todo |-> {}]
  <2>1. db.substate = "choosing_topic" /\ db.status = "in_progress"
    BY <1>5 DEF TopicInTurn, ChooseTopic, InState
  <2>2. r.pc = "round.create" /\ r.view = db /\ req' = [req EXCEPT ![h] = r]
    BY <1>5 DEF TopicInTurn, ChooseTopic, Await
  <2> HIDE DEF r
  <2>3. RequestAsked(r, db, n, told)
    BY <1>1, <2>1, <2>2 DEF RequestAsked
  <2>4. QED
    BY <1>2, <1>3, <2>2, <2>3, HandlerAsksAlone
<1>6. CASE EndInTurn(h)
  <2> DEFINE f == [db EXCEPT !.status = "finished"]
             r == [pc |-> "end.save", view |-> f, round |-> NoRound, todo |-> {}]
  <2>1. f.substate = db.substate /\ f.status = "finished"
    BY <1>1 DEF Game
  <2>2. r.pc = "end.save" /\ r.view = f /\ req' = [req EXCEPT ![h] = r]
    BY <1>6 DEF EndInTurn, EndGame, Await
  <2> HIDE DEF f, r
  <2>3. RequestAsked(r, db, n, told)
    BY <1>1, <2>1, <2>2 DEF RequestAsked, PhaseInOrder, Opening
  <2>4. QED
    BY <1>2, <1>3, <2>2, <2>3, HandlerAsksAlone
<1>7. QED
  BY <1>4, <1>5, <1>6

LEMMA PlayerTurnAsks ==
  ASSUME IInv, TallyInOrder, AsksInOrder, Quiet, NEW h \in Handlers,
         AnswerInTurn(h) \/ VoteInTurn(h)
  PROVE  AsksInOrder'
<1> DEFINE n == ids.round
<1>1. PhaseInOrder(db, n, told) /\ NoHandler
  BY AsksParts DEF Quiet
<1>2. told' = told /\ db' = db /\ ids' = ids /\ Unprompted
  BY DEF AnswerInTurn, VoteInTurn, SubmitAnswer, SubmitVote, Unprompted
<1>3. n > 0 /\ Asked(told, n)
  BY <1>1 DEF AnswerInTurn, VoteInTurn, PhaseInOrder
<1>4. ASSUME NEW pc \in {"answers.count", "votes.count"}, NEW round, NEW c,
             c.task = "addAnswer" \/ c.task = "addVote",
             \E j \in Jobs : Start(j, c), Await(h, pc, NewGame, round, {})
      PROVE  AsksInOrder'
  <2> DEFINE r == [pc |-> pc, view |-> NewGame, round |-> round, todo |-> {}]
  <2>1. r.pc = pc /\ req' = [req EXCEPT ![h] = r]
    BY <1>4 DEF Await
  <2> HIDE DEF r
  <2>2. RequestAsked(r, db, n, told)
    BY <1>3, <2>1 DEF RequestAsked, Opening
  <2>3. CallAsked(c, n, told)
    BY <1>3, <1>4 DEF CallAsked
  <2>4. QED
    BY <1>1, <1>2, <1>4, <2>1, <2>2, <2>3, HandlerAsksAlone
<1>5. CASE AnswerInTurn(h)
  <2>1. PICK u \in Users : SubmitAnswer(h, u)
    BY <1>5 DEF AnswerInTurn
  <2>2. PICK round \in CurrentRounds(db) :
          /\ \E j \in Jobs : Start(j, AddAnswer(u, round))
          /\ Await(h, "answers.count", NewGame, round, {})
    BY <2>1 DEF SubmitAnswer
  <2>3. AddAnswer(u, round).task = "addAnswer"
    BY DEF AddAnswer, NoJob
  <2>4. QED
    BY <1>4, <2>2, <2>3
<1>6. CASE VoteInTurn(h)
  <2>1. PICK u \in Users, ballot \in Ballots : SubmitVote(h, u, ballot)
    BY <1>6 DEF VoteInTurn
  <2>2. PICK round \in CurrentRounds(db) :
          /\ \E j \in Jobs : Start(j, AddVote(u, round, ballot))
          /\ Await(h, "votes.count", NewGame, round, {})
    BY <2>1 DEF SubmitVote
  <2>3. AddVote(u, round, ballot).task = "addVote"
    BY DEF AddVote, NoJob
  <2>4. QED
    BY <1>4, <2>2, <2>3
<1>7. QED
  BY <1>5, <1>6

-----------------------------------------------------------------------------
(* How a handler goes on                                                    *)

\* A handler returns, or asks for a topic, and leaves a switch behind or nothing.
LEMMA HandlerLeaves ==
  ASSUME IInv, TallyInOrder, AsksInOrder, NEW h \in Handlers, req[h].pc # "idle", NEW c,
         req' = [req EXCEPT ![h] = Idle]
           \/ (AllTallied(told) /\ \E view : Await(h, "topics", view, NoRound, {})),
         (job' = job /\ c = NoJob) \/ (\E j \in Jobs : Start(j, c)),
         Unprompted, ids'.round = ids.round, SeatVotes(db') = SeatVotes(db),
         PhaseInOrder(db', ids.round, told),
         CallAsked(c, ids.round, told)
  PROVE  AsksInOrder'
<1>1. req[h] # Idle
  BY WaitingTallied
<1>2. CASE req' = [req EXCEPT ![h] = Idle]
  BY <1>1, <1>2, NothingAsked, HandlerAsks
<1>3. ASSUME NEW view, AllTallied(told), Await(h, "topics", view, NoRound, {})
      PROVE  AsksInOrder'
  <2> DEFINE r == [pc |-> "topics", view |-> view, round |-> NoRound, todo |-> {}]
  <2>1. r.pc = "topics" /\ req' = [req EXCEPT ![h] = r]
    BY <1>3 DEF Await
  <2> HIDE DEF r
  <2>2. RequestAsked(r, db', ids.round, told)
    BY <1>3, <2>1 DEF RequestAsked, Opening
  <2>3. QED
    BY <1>1, <2>1, <2>2, HandlerAsks
<1>4. QED
  BY <1>2, <1>3

LEMMA SwitchAsked ==
  ASSUME NEW n, NEW from, NEW to,
         to \in {"giving_answer", "voting"} => n > 0 /\ Asked(told, n),
         to = "choosing_topic" => AllTallied(told)
  PROVE  CallAsked(SwitchSubstate(from, to), n, told) /\ CallAsked(SwitchState(from, to), n, told)
BY DEF CallAsked, SwitchSubstate, SwitchState, NoJob, Casting

LEMMA ReplyAsks ==
  ASSUME IInv, TallyInOrder, AsksInOrder, NEW h \in Handlers,
         ChoseTopic(h) \/ CountAnswers(h)
  PROVE  AsksInOrder'
<1> DEFINE n == ids.round
<1>1. /\ req' = [req EXCEPT ![h] = Idle] /\ db' = db /\ ids' = ids
      /\ PhaseInOrder(db, n, told) /\ RequestAsked(req[h], db, n, told)
      /\ CallAsked(NoJob, n, told)
  BY AsksParts, NothingAsked DEF ChoseTopic, CountAnswers, Reply
<1>2. CASE ChoseTopic(h)
  <2> DEFINE c == SwitchSubstate(req[h].view.substate, "choosing_topic")
             s == {Say("chooseTopic", 0)}
  <2>1. req[h].pc = "topics" /\ AllTallied(told)
    BY <1>1, <1>2 DEF ChoseTopic, RequestAsked
  <2>2. CallAsked(c, n, told)
    BY <2>1, SwitchAsked
  <2>3. (job' = job \/ \E j \in Jobs : Start(j, c)) /\ (told' = told \/ told' = told \cup s)
    BY <1>2 DEF ChoseTopic, Tell
  <2>4. \A a \in s : a.event = "chooseTopic"
    BY DEF Say
  <2> HIDE DEF c, s
  <2>5. Unprompted
    BY <2>3, <2>4, ToldUnprompted
  <2>6. QED
    BY <1>1, <2>1, <2>2, <2>3, <2>5, HandlerLeaves
<1>3. CASE CountAnswers(h)
  <2> DEFINE c == SwitchSubstate("giving_answer", "voting")
             s == {Say("allAnswersSubmitted", req[h].round.number)}
  <2>1. req[h].pc = "answers.count" /\ n > 0 /\ Asked(told, n)
    BY <1>1, <1>3 DEF CountAnswers, RequestAsked
  <2>2. CallAsked(c, n, told)
    BY <2>1, SwitchAsked
  <2>3. (job' = job \/ \E j \in Jobs : Start(j, c)) /\ (told' = told \/ told' = told \cup s)
    BY <1>3 DEF CountAnswers, Tell
  <2>4. \A a \in s : a.event = "allAnswersSubmitted"
    BY DEF Say
  <2> HIDE DEF c, s
  <2>5. Unprompted
    BY <2>3, <2>4, ToldUnprompted
  <2>6. QED
    BY <1>1, <2>1, <2>2, <2>3, <2>5, HandlerLeaves
<1>4. QED
  BY <1>2, <1>3

LEMMA UpdatePreloadAsks ==
  ASSUME IInv, TallyInOrder, AsksInOrder, NEW h \in Handlers, UpdatePreload(h)
  PROVE  AsksInOrder'
<1> DEFINE n == ids.round
           g == Preload(db, req[h].view)
           r == [pc |-> "start.save", view |-> g, round |-> NoRound, todo |-> {}]
<1>1. /\ req' = [req EXCEPT ![h] = r] /\ db' = db /\ ids' = ids /\ job' = job /\ told' = told
      /\ req[h].pc = "start.preload"
  BY TallyParts DEF UpdatePreload, Await, RequestTallied
<1>2. req[h] # Idle /\ req[h].view \in Game /\ RequestAsked(req[h], db, n, told)
  BY <1>1, WaitingTallied, AsksParts
<1>3. g.substate = req[h].view.substate /\ g.status = req[h].view.status
  BY <1>2 DEF Preload, Game
<1>4. r.pc = "start.save" /\ r.view = g
  OBVIOUS
<1> HIDE DEF r, g
<1>5. RequestAsked(r, db, n, told)
  BY <1>1, <1>2, <1>3, <1>4 DEF RequestAsked, PhaseInOrder, Opening
<1>6. CallAsked(NoJob, n, told) /\ Unprompted
  BY <1>1, NothingAsked DEF Unprompted
<1>7. QED
  BY <1>1, <1>2, <1>5, <1>6, HandlerAsksAlone

\* A start or an end writes the columns of its copy.
LEMMA CopySaveAsks ==
  ASSUME IInv, TallyInOrder, AsksInOrder, NEW h \in Handlers,
         StartGameSave(h) \/ EndGameSave(h)
  PROVE  AsksInOrder'
<1> DEFINE n == ids.round
           s == {Say("gameStarted", 0)}
           e == {Say("gameEnded", 0)}
<1>1. /\ req[h].pc = "start.save" \/ req[h].pc = "end.save"
      /\ db' = Save(db, req[h].view) /\ ids' = ids /\ job' = job
      /\ told' = told \cup s \/ told' = told \cup e
      /\ req' = [req EXCEPT ![h] = Idle]
           \/ (req[h].pc = "start.save" /\ Await(h, "topics", req[h].view, NoRound, {}))
  BY DEF StartGameSave, EndGameSave, AskForTopic, Reply, Tell
<1>2. /\ req[h].view \in Game /\ PhaseInOrder(req[h].view, n, told)
      /\ req[h].pc = "start.save" => AllTallied(told)
  BY <1>1, WaitingTallied, AsksParts DEF RequestAsked
<1>3. SeatVotes(db') = SeatVotes(db)
  BY <1>1, CopyIsSaved DEF RowsStay
<1>4. db'.substate = req[h].view.substate /\ db'.status = req[h].view.status
  BY <1>1, <1>2 DEF Save, Game
<1>5. PhaseInOrder(db', n, told)
  BY <1>2, <1>4 DEF PhaseInOrder
<1>6. Unprompted
  <2>1. (\A a \in s : a.event = "gameStarted") /\ \A a \in e : a.event = "gameEnded"
    BY DEF Say
  <2> HIDE DEF s, e
  <2>2. QED
    BY <1>1, <2>1, ToldUnprompted
<1>7. CallAsked(NoJob, n, told)
  BY NothingAsked
<1>8. QED
  BY <1>1, <1>2, <1>3, <1>5, <1>6, <1>7, HandlerLeaves

LEMMA CountVotesAsks ==
  ASSUME IInv, TallyInOrder, AsksInOrder, NEW h \in Handlers, CountVotes(h)
  PROVE  AsksInOrder'
<1> DEFINE n == ids.round
           c == SwitchSubstate("voting", "showing_results")
           r == [pc |-> "score", view |-> db, round |-> req[h].round, todo |-> db.players]
           s == {Say("allVotesSubmitted", req[h].round.number)}
<1>1. /\ db' = db /\ ids' = ids /\ req[h].pc = "votes.count"
      /\ \/ req' = [req EXCEPT ![h] = r] /\ (\E j \in Jobs : Start(j, c)) /\ told' = told \cup s
         \/ req' = [req EXCEPT ![h] = Idle] /\ job' = job /\ told' = told
  BY DEF CountVotes, Reply, Await, Tell
<1>2. req[h].round = RoundAt(n) /\ Asked(told, n) /\ req[h] # Idle
  BY <1>1, WaitingTallied, AsksParts DEF RequestTallied, RequestAsked
<1>3. \A a \in s : a.event = "allVotesSubmitted" /\ a.number = n
  BY <1>2 DEF Say, RoundAt
<1>4. CallAsked(c, n, told) /\ CallAsked(NoJob, n, told) /\ RequestAsked(Idle, db, n, told)
  BY SwitchAsked, NothingAsked
<1>5. r.pc = "score"
  OBVIOUS
<1> HIDE DEF c, r, s
<1>6. RequestAsked(r, db, n, told)
  BY <1>5 DEF RequestAsked, Opening
<1>7. Unprompted
  BY <1>1, <1>2, <1>3, ToldUnprompted
<1>8. QED
  BY <1>1, <1>2, <1>4, <1>6, <1>7, HandlerAsksAlone

LEMMA ScorePlayerAsks ==
  ASSUME IInv, TallyInOrder, AsksInOrder, NEW h \in Handlers, ScorePlayer(h)
  PROVE  AsksInOrder'
<1> DEFINE n == ids.round
<1>1. /\ db' = db /\ ids' = ids /\ told' = told /\ req[h].pc = "score" /\ Unprompted
  BY DEF ScorePlayer, Unprompted
<1>2. PICK p \in req[h].todo :
        LET g       == req[h].view
            k       == req[h].round.number
            answers == {a \in RowsOf(g.answers, p) : a.round.number = k}
            votes   == {v \in RowsOf(g.votes, p) : v.number = k}
        IN  \/ /\ \E j \in Jobs, answer \in Firsts(answers), right \in FoundOut(votes) :
                    Start(j, AddScore(p, Points(answer, right)))
               /\ Await(h, "score", g, req[h].round, req[h].todo \ {p})
            \/ Reply(h) /\ job' = job
  BY DEF ScorePlayer
<1> DEFINE given == \E points : /\ \E j \in Jobs : Start(j, AddScore(p, points))
                                /\ Await(h, "score", req[h].view, req[h].round, req[h].todo \ {p})
<1>7. given \/ (Reply(h) /\ job' = job)
  BY <1>2
<1>3. req[h] # Idle /\ CallAsked(NoJob, n, told) /\ RequestAsked(Idle, db, n, told)
  BY <1>1, WaitingTallied, NothingAsked
<1>4. ASSUME NEW points, \E j \in Jobs : Start(j, AddScore(p, points)),
             Await(h, "score", req[h].view, req[h].round, req[h].todo \ {p})
      PROVE  AsksInOrder'
  <2> DEFINE c == AddScore(p, points)
             r == [pc |-> "score", view |-> req[h].view, round |-> req[h].round,
                   todo |-> req[h].todo \ {p}]
  <2>1. r.pc = "score" /\ c.task = "addScore" /\ req' = [req EXCEPT ![h] = r]
        /\ \E j \in Jobs : Start(j, c)
    BY <1>4 DEF Await, AddScore, NoJob
  <2> HIDE DEF r, c
  <2>2. RequestAsked(r, db, n, told) /\ CallAsked(c, n, told)
    BY <2>1 DEF RequestAsked, CallAsked, Opening, Casting
  <2>3. QED
    BY <1>1, <1>3, <2>1, <2>2, HandlerAsksAlone
<1>5. CASE Reply(h) /\ job' = job
  BY <1>1, <1>3, <1>5, HandlerAsksAlone DEF Reply
<1>6. QED
  BY <1>7, <1>4, <1>5

LEMMA ShareScoresAsks ==
  ASSUME IInv, TallyInOrder, AsksInOrder, NEW h \in Handlers, ShareScores(h)
  PROVE  AsksInOrder'
<1> DEFINE n == ids.round
           c == SwitchState("in_progress", "final_results")
           s == {Say("scoresUpdated", req[h].round.number)}
           e == {Say("scoresUpdated", req[h].round.number), Say("finalResults", 0)}
<1>1. /\ req[h].pc = "score" /\ db' = db /\ ids' = ids
      /\ told' = told \cup s \/ told' = told \cup e
      /\ req' = [req EXCEPT ![h] = Idle] \/ Await(h, "topics", db, NoRound, {})
      /\ job' = job \/ \E j \in Jobs : Start(j, c)
  BY DEF ShareScores, AskForTopic, Reply, Tell
<1>2. Tallied(told, n) /\ AnnouncedInOrder(n, told) /\ PhaseInOrder(db, n, told) /\ n \in Nat
  BY <1>1, WaitingTallied, AsksParts, TallyParts DEF RequestTallied
<1>3. AllTallied(told)
  BY <1>2 DEF AllTallied, AnnouncedInOrder
<1>4. CallAsked(c, n, told) /\ CallAsked(NoJob, n, told)
  BY SwitchAsked, NothingAsked
<1>5. Unprompted
  <2>1. /\ \A a \in s : a.event = "scoresUpdated"
        /\ \A a \in e : a.event = "scoresUpdated" \/ a.event = "finalResults"
    BY DEF Say
  <2> HIDE DEF s, e
  <2>2. QED
    BY <1>1, <2>1, ToldUnprompted
<1> HIDE DEF c, s, e
<1>6. QED
  BY <1>1, <1>2, <1>3, <1>4, <1>5, HandlerLeaves

\* A round is inserted when those before are tallied, and nothing else is in progress.
LEMMA CreateRoundAsks ==
  ASSUME IInv, TallyInOrder, AsksInOrder, NEW h \in Handlers, CreateRound(h)
  PROVE  AsksInOrder'
<1> DEFINE n == ids.round
           m == n + 1
           g == req[h].view
           f == [g EXCEPT !.rounds = @ \cup {RoundAt(m)}, !.substate = "giving_answer"]
           r == [pc |-> "round.save", view |-> f, round |-> RoundAt(m), todo |-> {}]
<1>1. req[h].pc = "round.create" /\ job' = job /\ told' = told
  BY DEF CreateRound
<1>2. /\ CopyTallied(g, db, Limit) /\ g \in Game /\ req[h] # Idle
      /\ \A j \in Jobs : job[j] = NoJob
  BY <1>1, WaitingTallied DEF RequestTallied, Opening
<1>3. db \in Game /\ n \in Nat /\ VotesInOrder(db, n)
  BY TallyParts
<1>4. ids'.round = m
  <2>1. ids' = [ids EXCEPT !.round = n + 1]
    BY DEF CreateRound
  <2>2. QED
    BY <2>1 DEF IInv, TypeOK
<1>5. [id |-> n + 1, number |-> Cardinality(g.rounds) + 1] = RoundAt(m)
  BY <1>2, <1>3, RoundsCounted DEF RoundAt, CopyTallied
<1>6. /\ db' = [db EXCEPT !.rounds = @ \cup {RoundAt(m)}]
      /\ req' = [req EXCEPT ![h] = r]
  BY <1>5 DEF CreateRound, Await
<1>7. /\ SeatVotes(db') = SeatVotes(db) /\ db'.score = db.score
      /\ db'.substate = db.substate /\ db'.status = db.status
  BY <1>3, <1>6 DEF Game, SeatVotes
<1>8. f.score = g.score /\ f.status = g.status /\ f.substate = "giving_answer"
  BY <1>2 DEF Game
<1>9. r.pc = "round.save" /\ r.view = f /\ r.round = RoundAt(m)
  OBVIOUS
<1>10. req'[h] = r /\ \A k \in Handlers : k # h => req'[k] = Idle
  BY <1>2, <1>6, TallyParts DEF Apart
<1> HIDE DEF r, f, g
<1>11. /\ db.substate = "choosing_topic" /\ req[h].view.status # "preparing"
       /\ \A p \in Seats : req[h].view.score[p] = db.score[p]
       /\ PhaseInOrder(db, n, told) /\ AnnouncedInOrder(n, told)
  BY <1>1, AsksParts DEF RequestAsked, Opening
<1>12. AllTallied(told)
  BY <1>11 DEF PhaseInOrder
<1>13. ~Asked(told, m)
  BY <1>3, <1>11 DEF AnnouncedInOrder, Asked, Say
<1>14. PhaseInOrder(db', m, told')
  BY <1>1, <1>7, <1>11, <1>12 DEF PhaseInOrder
<1>15. AnnouncedInOrder(m, told')
  BY <1>1, <1>3, <1>11, <1>12 DEF AnnouncedInOrder, AllTallied
<1>16. \A k \in Handlers : RequestAsked(req'[k], db', m, told')
  <2>1. RequestAsked(r, db', m, told')
    BY <1>1, <1>3, <1>7, <1>8, <1>9, <1>11, <1>13 DEF RequestAsked, Opening, g
  <2>2. QED
    BY <1>10, <2>1, NothingAsked
<1>17. \A j \in Jobs : CallAsked(job'[j], m, told')
  BY <1>1, <1>2, NothingAsked
<1>18. \A v \in SeatVotes(db') : Asked(told', v.number)
  BY <1>1, <1>7 DEF AsksInOrder
<1>19. QED
  BY <1>4, <1>14, <1>15, <1>16, <1>17, <1>18 DEF AsksInOrder

\* What is known when a round is saved and its prompt told.
LEMMA SaveRoundParts ==
  ASSUME IInv, TallyInOrder, AsksInOrder, NEW h \in Handlers, SaveRound(h)
  PROVE  LET n == ids.round
         IN  /\ n \in Nat /\ n > 0 /\ req[h].round = RoundAt(n) /\ ~Asked(told, n)
             /\ told' = told \cup {Say("answerPrompt", n)} /\ ids' = ids /\ job' = job
             /\ \A k \in Handlers : req'[k] = Idle
             /\ \A j \in Jobs : job[j] = NoJob
             /\ AllTallied(told) /\ RowsStay
             /\ \A p \in Seats : db'.score[p] = db.score[p]
             /\ db'.substate = "giving_answer" /\ db'.status # "preparing"
<1> DEFINE n == ids.round
           g == req[h].view
<1>1. /\ req[h].pc = "round.save" /\ db' = Save(db, g) /\ ids' = ids /\ job' = job
      /\ told' = told \cup {Say("answerPrompt", req[h].round.number)}
      /\ req' = [req EXCEPT ![h] = Idle]
  BY DEF SaveRound, Reply, Tell
<1>2. /\ n > 0 /\ req[h].round = RoundAt(n) /\ ~Asked(told, n)
      /\ g.substate = "giving_answer" /\ g.status # "preparing"
      /\ db.substate = "choosing_topic" /\ PhaseInOrder(db, n, told)
      /\ \A p \in Seats : g.score[p] = db.score[p]
  BY <1>1, AsksParts DEF RequestAsked, Opening
<1>3. /\ g \in Game /\ req[h] # Idle /\ CopyTallied(g, db, Limit)
      /\ \A j \in Jobs : job[j] = NoJob
  BY <1>1, WaitingTallied DEF RequestTallied, Opening
<1>4. \A k \in Handlers : req'[k] = Idle
  BY <1>1, <1>3, TallyParts DEF Apart
<1>5. RowsStay
  BY <1>1, CopyIsSaved
<1>6. /\ db'.substate = g.substate /\ db'.status = g.status
      /\ db'.score = Merged(db, g)
  BY <1>1, <1>3 DEF Save, Game
<1>7. \A p \in Seats : db'.score[p] = db.score[p]
  BY <1>2, <1>3, <1>6, SeatsAssumption DEF Merged, CopyTallied
<1>8. AllTallied(told)
  BY <1>2 DEF PhaseInOrder
<1>9. n \in Nat /\ told' = told \cup {Say("answerPrompt", n)}
  BY <1>1, <1>2, TallyParts DEF RoundAt
<1>10. QED
  BY <1>1, <1>2, <1>3, <1>4, <1>5, <1>6, <1>7, <1>8, <1>9

LEMMA SaveRoundAsks ==
  ASSUME IInv, TallyInOrder, AsksInOrder, NEW h \in Handlers, SaveRound(h)
  PROVE  AsksInOrder'
<1> DEFINE n == ids.round
           s == {Say("answerPrompt", n)}
<1>1. /\ n \in Nat /\ n > 0 /\ told' = told \cup s /\ ids' = ids /\ job' = job
      /\ \A k \in Handlers : req'[k] = Idle
      /\ \A j \in Jobs : job[j] = NoJob
      /\ AllTallied(told) /\ SeatVotes(db') = SeatVotes(db)
      /\ db'.substate = "giving_answer" /\ db'.status # "preparing"
  BY SaveRoundParts DEF RowsStay
<1>2. \A a \in s : a.event = "answerPrompt" /\ a.number = n
  BY DEF Say
<1>3. Say("answerPrompt", n) \in s
  OBVIOUS
<1> HIDE DEF s
<1>4. /\ \A k : Asked(told, k) => Asked(told', k)
      /\ \A k : Tallied(told, k) => Tallied(told', k)
      /\ Asked(told', n)
  BY <1>1, <1>3 DEF Asked, Tallied
<1>5. \A v \in SeatVotes(db') : Asked(told', v.number)
  BY <1>1, <1>4 DEF AsksInOrder
<1>6. PhaseInOrder(db', n, told')
  BY <1>1, <1>4 DEF PhaseInOrder
<1>7. AnnouncedInOrder(n, told')
  <2>1. AnnouncedInOrder(n, told)
    BY AsksParts
  <2>2. \A a \in told' : a.event = "answerPrompt" =>
          a.number \in 1..n /\ (a.number < n => Tallied(told', a.number))
    <3>1. n \in 1..n /\ ~(n < n)
      BY <1>1
    <3>2. \A a \in s : a.number \in 1..n /\ ~(a.number < n)
      BY <1>2, <3>1
    <3>3. QED
      BY <1>1, <1>4, <2>1, <3>2 DEF AnnouncedInOrder
  <2>3. \A a \in told' : a.event = "allVotesSubmitted" => Asked(told', a.number)
    BY <1>1, <1>2, <1>4, <2>1 DEF AnnouncedInOrder
  <2>4. QED
    BY <2>2, <2>3 DEF AnnouncedInOrder
<1>8. /\ \A k \in Handlers : RequestAsked(req'[k], db', n, told')
      /\ \A j \in Jobs : CallAsked(job'[j], n, told')
  BY <1>1, NothingAsked
<1>9. QED
  BY <1>1, <1>5, <1>6, <1>7, <1>8 DEF AsksInOrder

LEMMA ContinueAsks ==
  ASSUME IInv, TallyInOrder, AsksInOrder, NEW h \in Handlers, Continue(h)
  PROVE  AsksInOrder'
<1>1. ~UpdateGameSave(h)
  BY TallyParts DEF UpdateGameSave, RequestTallied
<1>2. QED
  BY <1>1, ReplyAsks, UpdatePreloadAsks, CopySaveAsks, CountVotesAsks, ScorePlayerAsks,
     ShareScoresAsks, CreateRoundAsks, SaveRoundAsks
  DEF Continue

-----------------------------------------------------------------------------
(* How a call goes on                                                       *)

\* While a call is in progress no round is being opened.
LEMMA CallAsks ==
  ASSUME IInv, TallyInOrder, AsksInOrder, NEW j \in Jobs, job[j] # NoJob, NEW c,
         job' = [job EXCEPT ![j] = c], req' = req, told' = told, ids'.round = ids.round,
         \A v \in SeatVotes(db') : v \in SeatVotes(db) \/ Asked(told, v.number),
         PhaseInOrder(db', ids.round, told), CallAsked(c, ids.round, told)
  PROVE  AsksInOrder'
<1> DEFINE n == ids.round
<1>1. Unprompted
  BY DEF Unprompted
<1>2. \A i \in Jobs : job'[i] = c \/ job'[i] = job[i]
  BY TallyParts
<1>3. \A i \in Jobs : CallAsked(job'[i], n, told')
  BY <1>2, AsksParts
<1>4. \A h \in Handlers : RequestAsked(req'[h], db', n, told')
  <2>1. \A h \in Handlers : ~Opening(req[h])
    BY TallyParts DEF Apart
  <2>2. QED
    BY <1>1, <2>1, AsksParts, RequestAskedLater
<1>5. PhaseInOrder(db', n, told')
  OBVIOUS
<1>6. QED
  BY <1>1, <1>3, <1>4, <1>5, AsksStep

\* A call takes its next await, and the phase and the seats' votes are as before.
LEMMA CallWaitsAsks ==
  ASSUME IInv, TallyInOrder, AsksInOrder, NEW j \in Jobs, job[j] # NoJob, NEW pc, NEW view,
         job' = [job EXCEPT ![j].pc = pc, ![j].view = view], req' = req, told' = told,
         ids'.round = ids.round, db' = db,
         job[j].task = "switchSubstate" \/ job[j].task = "switchState" =>
           PhaseInOrder(view, ids.round, told),
         pc = "preload" \/ pc = "save" \/ (pc = "insert" /\ job[j].pc = "load")
  PROVE  AsksInOrder'
<1> DEFINE c == job[j]
           d == [c EXCEPT !.pc = pc, !.view = view]
           n == ids.round
<1>1. c \in Job /\ CallAsked(c, n, told) /\ PhaseInOrder(db, n, told)
  BY CallTalliedParts, AsksParts
<1>2. job' = [job EXCEPT ![j] = d]
  BY TallyParts
<1>3. d.task = c.task /\ d.who = c.who /\ d.to = c.to /\ d.pc = pc /\ d.view = view
  BY <1>1 DEF Job
<1> HIDE DEF d
<1>4. CallAsked(d, n, told)
  BY <1>1, <1>3 DEF CallAsked, Casting
<1>5. QED
  BY <1>1, <1>2, <1>4, CallAsks

LEMMA PlayerCallAsks ==
  ASSUME IInv, TallyInOrder, AsksInOrder, NEW j \in Jobs,
         JobLoadPlayer(j) \/ JobInsertAnswer(j) \/ (JobPreload(j) /\ PlayerTask(j))
  PROVE  AsksInOrder'
<1> DEFINE c == job[j]
           v == PlayerView(db, c.who)
           w == [v EXCEPT !.score[c.who] = @ + c.points]
           a == [c.view EXCEPT !.answers =
                   @ \cup {[id |-> ids.answer[c.who] + 1, by |-> c.who, round |-> c.round]}]
           p == PreloadPlayer(db, c.view, c.who)
<1>1. /\ c.task # "none" /\ c.task # "switchSubstate" /\ c.task # "switchState"
      /\ db' = db /\ req' = req /\ told' = told
  BY DEF JobLoadPlayer, JobInsertAnswer, JobPreload, PlayerTask
<1>2. c # NoJob
  BY <1>1, CallTalliedParts
<1>3. ids'.round = ids.round
  BY DEF JobLoadPlayer, JobInsertAnswer, JobPreload, IInv, TypeOK
<1>4. CASE JobLoadPlayer(j)
  <2>1. /\ c.pc = "load"
        /\ \/ job' = [job EXCEPT ![j].pc = "preload", ![j].view = w]
           \/ job' = [job EXCEPT ![j].pc = "insert", ![j].view = v]
    BY <1>4 DEF JobLoadPlayer, Goto
  <2> HIDE DEF v, w
  <2>2. QED
    BY <1>1, <1>2, <1>3, <2>1, CallWaitsAsks
<1>5. CASE JobInsertAnswer(j)
  <2>1. job' = [job EXCEPT ![j].pc = "preload", ![j].view = a]
    BY <1>5 DEF JobInsertAnswer, Goto
  <2> HIDE DEF a
  <2>2. QED
    BY <1>1, <1>2, <1>3, <2>1, CallWaitsAsks
<1>6. CASE JobPreload(j) /\ PlayerTask(j)
  <2>1. job' = [job EXCEPT ![j].pc = "save", ![j].view = p]
    BY <1>6 DEF JobPreload, Goto
  <2> HIDE DEF p
  <2>2. QED
    BY <1>1, <1>2, <1>3, <2>1, CallWaitsAsks
<1>7. QED
  BY <1>4, <1>5, <1>6

\* A switch goes where the call says, and takes the rest of the phase along.
LEMMA SwitchAsks ==
  ASSUME IInv, TallyInOrder, AsksInOrder, NEW j \in Jobs,
         JobLoadGame(j) \/ (JobPreload(j) /\ ~PlayerTask(j))
  PROVE  AsksInOrder'
<1> DEFINE n == ids.round
           c == job[j]
           v == IF c.task = "switchSubstate" THEN [db EXCEPT !.substate = c.to]
                                             ELSE [db EXCEPT !.status = c.to]
           p == Preload(db, c.view)
<1>1. db' = db /\ req' = req /\ told' = told /\ ids' = ids
  BY DEF JobLoadGame, JobPreload
<1>2. db \in Game /\ PhaseInOrder(db, n, told) /\ CallAsked(c, n, told) /\ CallOK(c, told, ids)
  BY TallyParts, AsksParts DEF IInv
<1>3. c \in Job /\ c.view \in Game /\ (c.task # "none" \/ c.pc # "load" => c # NoJob)
  BY CallTalliedParts
<1>4. CASE JobLoadGame(j)
  <2>1. /\ c.task = "switchSubstate" \/ c.task = "switchState"
        /\ job' = [job EXCEPT ![j].pc = "preload", ![j].view = v]
    BY <1>4 DEF JobLoadGame, SwitchTask, Goto
  <2>2. CASE c.task = "switchSubstate"
    <3>1. v.substate = c.to /\ v.status = db.status
      BY <1>2, <2>2 DEF Game
    <3>2. PhaseInOrder(v, n, told)
      BY <1>2, <2>2, <3>1 DEF PhaseInOrder, CallAsked
    <3> HIDE DEF v
    <3>3. QED
      BY <1>1, <1>3, <2>1, <3>2, CallWaitsAsks
  <2>3. CASE c.task = "switchState"
    <3>1. v.substate = db.substate /\ v.status = "final_results"
      BY <1>2, <2>3 DEF Game, CallOK
    <3>2. PhaseInOrder(v, n, told)
      BY <1>2, <3>1 DEF PhaseInOrder
    <3> HIDE DEF v
    <3>3. QED
      BY <1>1, <1>3, <2>1, <3>2, CallWaitsAsks
  <2>4. QED
    BY <2>1, <2>2, <2>3
<1>5. CASE JobPreload(j) /\ ~PlayerTask(j)
  <2>1. /\ c.pc = "preload"
        /\ job' = [job EXCEPT ![j].pc = "save", ![j].view = p]
    BY <1>5 DEF JobPreload, Goto
  <2>2. c.task = "switchSubstate" \/ c.task = "switchState"
    BY <1>2, <1>3, <1>5, <2>1 DEF CallOK, PlayerTask, Job, Tasks
  <2>3. p.substate = c.view.substate /\ p.status = c.view.status
    BY <1>3 DEF Preload, Game
  <2>4. PhaseInOrder(p, n, told)
    BY <1>2, <2>1, <2>2, <2>3 DEF PhaseInOrder, CallAsked
  <2> HIDE DEF p
  <2>5. QED
    BY <1>1, <1>3, <2>1, <2>4, CallWaitsAsks
<1>6. QED
  BY <1>4, <1>5

LEMMA JobSaveAsks ==
  ASSUME IInv, TallyInOrder, AsksInOrder, NEW j \in Jobs, JobSave(j)
  PROVE  AsksInOrder'
<1> DEFINE n == ids.round
           c == job[j]
<1>1. /\ c.pc = "save" /\ job' = [job EXCEPT ![j] = NoJob]
      /\ ids' = ids /\ req' = req /\ told' = told
      /\ db' = IF PlayerTask(j) THEN SavePlayer(db, c.view, c.who) ELSE Save(db, c.view)
  BY DEF JobSave
<1>2. /\ c \in Job /\ c.view \in Game /\ c # NoJob /\ db \in Game
      /\ CallAsked(c, n, told) /\ CallOK(c, told, ids) /\ PhaseInOrder(db, n, told)
  BY <1>1, CallTalliedParts, TallyParts, AsksParts DEF IInv
<1>3. SeatVotes(db') = SeatVotes(db)
  BY JobSaveLeaves DEF RowsStay
<1>4. PhaseInOrder(db', n, told)
  <2>1. CASE PlayerTask(j)
    <3>1. db'.substate = db.substate /\ db'.status = db.status
      BY <1>1, <1>2, <2>1 DEF SavePlayer, Game
    <3>2. QED
      BY <1>2, <3>1 DEF PhaseInOrder
  <2>2. CASE ~PlayerTask(j)
    <3>1. c.task = "switchSubstate" \/ c.task = "switchState"
      BY <1>1, <1>2, <2>2 DEF CallOK, PlayerTask, Job, Tasks
    <3>2. db'.substate = c.view.substate /\ db'.status = c.view.status
      BY <1>1, <1>2, <2>2 DEF Save, Game
    <3>3. QED
      BY <1>1, <1>2, <3>1, <3>2 DEF PhaseInOrder, CallAsked
  <2>3. QED
    BY <2>1, <2>2
<1>5. CallAsked(NoJob, n, told)
  BY NothingAsked
<1>6. QED
  BY <1>1, <1>2, <1>3, <1>4, <1>5, CallAsks

\* What inserting a vote leaves.
LEMMA InsertVoteParts ==
  ASSUME IInv, TallyInOrder, AsksInOrder, NEW j \in Jobs, JobInsertVote(j)
  PROVE  /\ \E row : /\ row.by = job[j].who /\ row.number = job[j].round.number
                     /\ row.right = (job[j].ballot = "truth")
                     /\ db' = [db EXCEPT !.votes = @ \cup {row}]
         /\ db'.players = Seats /\ db'.rounds = db.rounds /\ db'.score = db.score
         /\ job[j].who \notin Seats => SeatVotes(db') = SeatVotes(db)
         /\ job[j].who \in Seats =>
              /\ ids.round > 0 /\ job[j].round = RoundAt(ids.round)
              /\ Asked(told, ids.round) /\ ~Tallied(told, ids.round)
              /\ ~VotedIn(db, ids.round, job[j].who)
<1> DEFINE c == job[j]
           row == [id |-> ids.vote[c.who] + 1, by |-> c.who, number |-> c.round.number,
                   right |-> c.ballot = "truth", answer |-> NoAnswer]
<1>1. /\ c.task = "addVote" /\ c.pc = "insert"
      /\ db' = [db EXCEPT !.votes = @ \cup {row}]
  BY DEF JobInsertVote
<1>2. row.by = c.who /\ row.number = c.round.number /\ row.right = (c.ballot = "truth")
  OBVIOUS
<1> HIDE DEF row
<1>3. /\ db'.votes = db.votes \cup {row} /\ db'.players = Seats
      /\ db'.rounds = db.rounds /\ db'.score = db.score
  BY <1>1, TallyParts DEF Game
<1>4. c.who \notin Seats => SeatVotes(db') = SeatVotes(db)
  BY <1>2, <1>3 DEF SeatVotes
<1>5. ASSUME c.who \in Seats
      PROVE  /\ ids.round > 0 /\ c.round = RoundAt(ids.round)
             /\ Asked(told, ids.round) /\ ~Tallied(told, ids.round)
             /\ ~VotedIn(db, ids.round, c.who)
  <2>1. Casting(c)
    BY <1>1, <1>5 DEF Casting
  <2>2. QED
    BY <1>5, <2>1, CallTalliedParts, AsksParts DEF CallTallied, CallAsked, TallyInOrder
<1>6. QED
  BY <1>1, <1>2, <1>3, <1>4, <1>5

LEMMA InsertVoteAsks ==
  ASSUME IInv, TallyInOrder, AsksInOrder, NEW j \in Jobs, JobInsertVote(j)
  PROVE  AsksInOrder'
<1> DEFINE n == ids.round
           c == job[j]
           view == [c.view EXCEPT !.votes =
                      @ \cup {[id |-> ids.vote[c.who] + 1, by |-> c.who, number |-> c.round.number,
                               right |-> c.ballot = "truth", answer |-> NoAnswer]}]
           d == [c EXCEPT !.pc = "preload", !.view = view]
<1>1. /\ c.task = "addVote" /\ c.pc = "insert" /\ req' = req /\ told' = told
      /\ job' = [job EXCEPT ![j].pc = "preload", ![j].view = view]
      /\ ids'.round = n
  BY DEF JobInsertVote, Goto, IInv, TypeOK
<1>2. c \in Job /\ c # NoJob
  BY <1>1, CallTalliedParts
<1>3. job' = [job EXCEPT ![j] = d]
  BY <1>1, TallyParts
<1>4. d.task = c.task /\ d.pc = "preload"
  <2> HIDE DEF view
  <2>1. QED
    BY <1>2 DEF Job
<1> HIDE DEF view, d
<1>5. CallAsked(d, n, told)
  BY <1>1, <1>4 DEF CallAsked, Casting
<1>6. PICK row : /\ row.by = c.who /\ row.number = c.round.number
                 /\ db' = [db EXCEPT !.votes = @ \cup {row}]
  BY InsertVoteParts
<1>7. db'.votes = db.votes \cup {row} /\ db'.substate = db.substate /\ db'.status = db.status
  BY <1>6, TallyParts DEF Game
<1>8. \A v \in SeatVotes(db') : v \in SeatVotes(db) \/ Asked(told, v.number)
  BY <1>6, <1>7, InsertVoteParts DEF SeatVotes, RoundAt
<1>9. PhaseInOrder(db', n, told)
  BY <1>7, AsksParts DEF PhaseInOrder
<1>10. QED
  BY <1>1, <1>2, <1>3, <1>5, <1>8, <1>9, CallAsks

-----------------------------------------------------------------------------
(* Every step                                                               *)

LEMMA DieAsks ==
  ASSUME IInv, TallyInOrder, AsksInOrder, Die
  PROVE  AsksInOrder'
<1>1. /\ db' = db /\ ids' = ids /\ told' = told
      /\ \A h \in Handlers : req'[h] = Idle
      /\ \A j \in Jobs : job'[j] = NoJob
  BY DEF Die
<1>2. QED
  BY <1>1, NothingAsked DEF AsksInOrder

LEMMA StutterAsks ==
  ASSUME AsksInOrder,
         db' = db /\ ids' = ids /\ req' = req /\ job' = job /\ told' = told
  PROVE  AsksInOrder'
BY DEF AsksInOrder

LEMMA RunJobAsks ==
  ASSUME IInv, TallyInOrder, AsksInOrder, NEW j \in Jobs, RunJob(j)
  PROVE  AsksInOrder'
BY PlayerCallAsks, SwitchAsks, JobSaveAsks, InsertVoteAsks, DieAsks DEF RunJob, JobReject

LEMMA StepAsks ==
  ASSUME IInv, TallyInOrder, AsksInOrder, [TurnNext]_vars
  PROVE  AsksInOrder'
<1>1. CASE UNCHANGED vars
  BY <1>1, StutterAsks DEF vars
<1>2. CASE Process
  BY <1>2, DieAsks, StutterAsks DEF Process, Stop, Restart, Connect
<1>3. CASE TurnNext /\ ~Process
  BY <1>3, StartTurnAsks, PlayerTurnAsks, ContinueAsks, RunJobAsks DEF TurnNext, TakeTurn
<1>4. QED
  BY <1>1, <1>2, <1>3

LEMMA InitAsks ==
  ASSUME Init
  PROVE  AsksInOrder
<1>1. /\ db = NewGame /\ ids.round = 0 /\ told = {}
      /\ \A h \in Handlers : req[h] = Idle
      /\ \A j \in Jobs : job[j] = NoJob
  BY DEF Init
<1>2. SeatVotes(db) = {} /\ db.substate = "n/a"
  BY <1>1 DEF NewGame, SeatVotes
<1>3. PhaseInOrder(db, 0, told) /\ AnnouncedInOrder(0, told)
  BY <1>1, <1>2 DEF PhaseInOrder, AnnouncedInOrder, AllTallied
<1>4. QED
  BY <1>1, <1>2, <1>3, NothingAsked DEF AsksInOrder

\* With no call awaited and the process stopped at any moment, a round is asked only when
\* the votes of those before it were shown, votes are stored only for rounds that were
\* asked, and no switch from a game loaded earlier takes the room out of turn.
THEOREM AsksStayInOrder ==
  ASSUME InOrder
  PROVE  TurnSpec => []AsksInOrder
<1>1. Init => AsksInOrder
  BY InitAsks
<1>2. IInv /\ TallyInOrder /\ AsksInOrder /\ [TurnNext]_vars => AsksInOrder'
  BY StepAsks
<1>3. TurnSpec => []IInv
  BY TurnsAreGameLoop, Invariant, PTL
<1>4. QED
  BY <1>1, <1>2, <1>3, TallyStaysInOrder, PTL DEF TurnSpec

-----------------------------------------------------------------------------
(* What the players see                                                     *)

LEMMA Greatest ==
  ASSUME NEW n \in Nat, NEW S \in SUBSET (1..n), S # {}
  PROVE  \E x \in S : \A y \in S : y <= x
<1> DEFINE T == {n - k : k \in S}
           R == OpToRel(<, Nat)
<1>1. /\ \A k \in 1..n : k \in Nat /\ k <= n /\ n - k \in Nat
      /\ T # {} /\ \A k \in S : k \in 1..n
  <2>1. \A k \in 1..n : k \in Nat /\ k <= n /\ n - k \in Nat
    OBVIOUS
  <2>2. T # {}
    OBVIOUS
  <2>3. QED
    BY <2>1, <2>2
<1>2. T \in SUBSET Nat
  BY <1>1
<1>3. IsWellFoundedOn(R, Nat)
  BY NatLessThanWellFounded
<1>4. \A x, y \in Nat : y < x => <<y, x>> \in R
  BY DEF OpToRel
<1> HIDE DEF R
<1>5. PICK x \in T : \A y \in T : ~(<<y, x>> \in R)
  BY <1>1, <1>2, <1>3, WFMin
<1>6. PICK k \in S : x = n - k
  BY <1>5
<1>7. \A y \in S : ~(n - y < n - k)
  BY <1>1, <1>4, <1>5, <1>6
<1> HIDE DEF T
<1>8. ASSUME NEW y \in S PROVE y <= k
  <2>1. y \in Nat /\ k \in Nat /\ ~(n - y < n - k)
    BY <1>1, <1>7
  <2>2. QED
    BY <2>1
<1>9. QED
  BY <1>8

\* The rules count as the model does.
LEMMA CountedAlike == \A S : Rules!Cardinality(S) = Cardinality(S)
BY DEF Rules!Cardinality, Cardinality

\* The rounds that were inserted are no more than the game has.
LEMMA RoundsFit ==
  ASSUME IInv, TallyInOrder
  PROVE  ids.round \in Nat /\ ids.round <= TotalRounds
<1> DEFINE n == ids.round
<1>1. n \in Nat /\ VotesInOrder(db, n) /\ \A r \in db.rounds : r.number \in 1..TotalRounds
  BY TallyParts DEF IInv, GameOK
<1>2. n > 0 => RoundAt(n) \in db.rounds
  BY <1>1 DEF VotesInOrder
<1>3. n > 0 => n \in 1..TotalRounds
  BY <1>1, <1>2 DEF RoundAt
<1>4. QED
  BY <1>1, <1>3, RoundsAssumption

\* The round played is the last that was asked; if it is not the last inserted, or its
\* votes were shown, all rounds that were asked are tallied.
LEMMA RoundIs ==
  ASSUME IInv, TallyInOrder, AsksInOrder
  PROVE  LET n == ids.round
         IN  /\ \A k : k \in Prompted <=> Asked(told, k)
             /\ \A k : k \in RoundsShown <=> Tallied(told, k)
             /\ RoundPlayed \in 0..n
             /\ RoundPlayed > 0 => Asked(told, RoundPlayed)
             /\ n > 0 /\ Asked(told, n) => RoundPlayed = n
<1> DEFINE n == ids.round
<1>1. n \in Nat /\ n <= TotalRounds /\ AnnouncedInOrder(n, told)
  BY RoundsFit, AsksParts
<1>2. \A k : Asked(told, k) => k \in 1..n /\ k \in 1..TotalRounds
  BY <1>1, RoundsAssumption DEF AnnouncedInOrder, Asked, Say
<1>3. \A k : Tallied(told, k) => Asked(told, k)
  BY <1>1 DEF AnnouncedInOrder, Tallied, Say
<1>4. (\A k : k \in Prompted <=> Asked(told, k)) /\ (\A k : k \in RoundsShown <=> Tallied(told, k))
  BY <1>2, <1>3 DEF Prompted, RoundsShown, Asked, Tallied
<1>5. Prompted \in SUBSET (1..n)
  BY <1>2, <1>4
<1>6. CASE Prompted = {}
  BY <1>1, <1>4, <1>6 DEF RoundPlayed
<1>7. CASE Prompted # {}
  <2>1. \E x \in Prompted : \A y \in Prompted : y <= x
    BY <1>1, <1>5, <1>7, Greatest
  <2>2. RoundPlayed \in Prompted /\ \A y \in Prompted : y <= RoundPlayed
    BY <1>7, <2>1 DEF RoundPlayed
  <2>3. n > 0 /\ Asked(told, n) => RoundPlayed = n
    BY <1>1, <1>4, <1>5, <2>2
  <2>4. QED
    BY <1>1, <1>4, <1>5, <2>2, <2>3
<1>8. QED
  BY <1>4, <1>6, <1>7

\* The votes given are finitely many, one of a player in a round.
LEMMA VotesAreFinite ==
  ASSUME IInv, TallyInOrder
  PROVE  IsFiniteSet(VotesGiven)
<1> DEFINE n == ids.round
           S == SeatVotes(db)
           T == Seats \X (1..n)
           f == [v \in S |-> <<v.by, v.number>>]
           g == [v \in S |-> [round |-> v.number, by |-> v.by,
                              for |-> IF v.right THEN "truth" ELSE "unknown"]]
<1>1. VotesInOrder(db, n) /\ n \in Nat
  BY TallyParts
<1>2. IsFiniteSet(T)
  <2>1. IsFiniteSet(1..n) /\ IsFiniteSet(Seats)
    BY <1>1, SeatsAssumption, FS_Interval
  <2>2. QED
    BY <2>1, FS_Product
<1>3. f \in Injection(S, T)
  <2>1. \A v \in S : v.by \in Seats /\ v.number \in 1..n
    BY <1>1 DEF VotesInOrder, SeatVotes
  <2>2. \A v, w \in S : v.by = w.by /\ v.number = w.number => v = w
    BY <1>1 DEF VotesInOrder
  <2> HIDE DEF S
  <2>3. QED
    BY <2>1, <2>2 DEF Injection, IsInjective
<1>4. IsFiniteSet(S)
  <2> HIDE DEF S, T, f
  <2>1. QED
    BY <1>2, <1>3, FS_Injection
<1>5. VotesGiven = {[round |-> v.number, by |-> v.by,
                     for |-> IF v.right THEN "truth" ELSE "unknown"] : v \in S}
  BY DEF VotesGiven, SeatVotes
<1>6. g \in Surjection(S, VotesGiven)
  BY <1>5 DEF Surjection
<1>7. QED
  <2> HIDE DEF S, g
  <2>1. QED
    BY <1>4, <1>6, FS_Surjection

\* Nobody has more points than the shown votes give.
LEMMA ScoreIsDue ==
  ASSUME IInv, TallyInOrder, AsksInOrder, NEW p \in Seats
  PROVE  db.score[p] \in 0..Rules!Due(p)
<1> DEFINE n == ids.round
           K == {k \in 1..Counted(p) : BelievedIn(db, k, p)}
           L == {k \in 1..n : Tallied(told, k) /\ BelievedIn(db, k, p)}
           T == {vote \in Rules!Shown : vote.by = p /\ vote.for = "truth"}
           U == {vote \in Rules!Shown : vote.by # p /\ vote.for = p}
           row(k) == [round |-> k, by |-> p, for |-> "truth"]
           f == [k \in L |-> row(k)]
<1>1. /\ n \in Nat /\ VotesInOrder(db, n) /\ AnnouncedInOrder(n, told)
      /\ db.score[p] <= Limit[p] /\ db.score[p] \in Nat
  BY TallyParts, AsksParts
<1>2. IsFiniteSet(T) /\ IsFiniteSet(U) /\ IsFiniteSet(L)
  <2>1. T \in SUBSET VotesGiven /\ U \in SUBSET VotesGiven
    BY DEF Rules!Shown
  <2>2. L \in SUBSET (1..n) /\ IsFiniteSet(1..n)
    BY <1>1, FS_Interval
  <2> HIDE DEF T, U, L
  <2>3. QED
    BY <2>1, <2>2, VotesAreFinite, FS_Subset
<1>3. K \in SUBSET L
  <2> SUFFICES ASSUME NEW k \in 1..Counted(p), BelievedIn(db, k, p)
               PROVE  k \in 1..n /\ Tallied(told, k)
    OBVIOUS
  <2>1. (Counted(p) = n /\ Tallied(told, n)) \/ Counted(p) = n - 1
    BY DEF Counted
  <2>2. k \in 1..n
    BY <1>1, <2>1
  <2>3. Asked(told, k)
    <3>1. PICK v \in db.votes : v.by = p /\ v.number = k
      BY DEF BelievedIn
    <3>2. QED
      BY <3>1 DEF AsksInOrder, SeatVotes
  <2>4. k < n => Tallied(told, k)
    BY <1>1, <2>3 DEF AnnouncedInOrder, Asked, Say
  <2>5. QED
    BY <1>1, <2>1, <2>2, <2>4
<1>4. f \in Injection(L, T)
  <2>1. \A k \in L : row(k) \in T
    <3> SUFFICES ASSUME NEW k \in L PROVE row(k) \in T
      OBVIOUS
    <3>1. PICK v \in db.votes : v.by = p /\ v.number = k /\ v.right
      BY DEF BelievedIn
    <3>2. row(k) \in VotesGiven
      BY <3>1 DEF VotesGiven
    <3>3. k \in RoundsShown
      BY RoundIs
    <3>4. QED
      BY <3>2, <3>3 DEF Rules!Shown
  <2>2. \A k, m \in L : row(k) = row(m) => k = m
    OBVIOUS
  <2> HIDE DEF L, T, row
  <2>3. QED
    BY <2>1, <2>2 DEF Injection, IsInjective
<1>5. /\ Cardinality(K) <= Cardinality(L) /\ Cardinality(L) <= Cardinality(T)
      /\ Cardinality(K) \in Nat /\ Cardinality(L) \in Nat
      /\ Cardinality(T) \in Nat /\ Cardinality(U) \in Nat
  <2> HIDE DEF K, L, T, U, f
  <2>1. Cardinality(K) <= Cardinality(L) /\ IsFiniteSet(K)
    BY <1>2, <1>3, FS_Subset
  <2>2. Cardinality(L) <= Cardinality(T)
    BY <1>2, <1>4, FS_Injection
  <2>3. QED
    BY <1>2, <2>1, <2>2, FS_CardinalityType
<1>6. Limit[p] = 20 * Cardinality(K)
  BY DEF Limit, DueUpTo
<1>7. Rules!Due(p) = 20 * Cardinality(T) + 10 * Cardinality(U)
  BY CountedAlike DEF Rules!Due
<1> HIDE DEF K, L, T, U
<1>8. QED
  BY <1>1, <1>5, <1>6, <1>7

Settled == \A p \in Seats : db.score[p] \in 0..Rules!Due(p)

LEMMA ScoresAreSettled == IInv /\ TallyInOrder /\ AsksInOrder => Settled
BY ScoreIsDue DEF Settled

LEMMA ScoresStaySettled == IInv' /\ TallyInOrder' /\ AsksInOrder' => Settled'
BY ScoresAreSettled, PTL

-----------------------------------------------------------------------------
(* Each step of the program is a step of the rules                          *)

\* The step stores no vote of a seat, and tells no prompt, no votes and no results.
Unseen ==
  /\ SeatVotes(db') = SeatVotes(db)
  /\ \A e \in {"answerPrompt", "allVotesSubmitted", "finalResults"} : \A k :
       Say(e, k) \in told' <=> Say(e, k) \in told

LEMMA UnseenIsSettle ==
  ASSUME IInv', TallyInOrder', AsksInOrder', Unseen
  PROVE  Rules!Settle
<1>1. /\ Prompted' = Prompted /\ RoundsShown' = RoundsShown
      /\ (Say("finalResults", 0) \in told') = (Say("finalResults", 0) \in told)
  BY DEF Unseen, Prompted, RoundsShown
<1>2. RoundPlayed' = RoundPlayed
  BY <1>1 DEF RoundPlayed
<1>3. VotesGiven' = VotesGiven
  BY DEF Unseen, VotesGiven, SeatVotes
<1>4. \A p \in Seats : Rules!Due(p)' = Rules!Due(p)
  BY <1>1, <1>3 DEF Rules!Due, Rules!Shown
<1>5. \A p \in Seats : db'.score[p] \in 0..Rules!Due(p)
  BY <1>4, ScoresStaySettled DEF Settled
<1>6. QED
  BY <1>1, <1>2, <1>3, <1>5 DEF Rules!Settle

LEMMA QuietIsUnseen ==
  ASSUME SeatVotes(db') = SeatVotes(db), told \subseteq told',
         \A a \in told' : \/ a \in told
                          \/ a.event = "scoresUpdated" \/ a.event = "chooseTopic"
                          \/ a.event = "gameStarted" \/ a.event = "gameEnded"
                          \/ a.event = "allAnswersSubmitted"
  PROVE  Unseen
BY DEF Unseen, Say

LEMMA RoundIsOpened ==
  ASSUME IInv, TallyInOrder, AsksInOrder, NEW h \in Handlers, SaveRound(h)
  PROVE  Rules!OpenRound
<1> DEFINE n == ids.round
           s == {Say("answerPrompt", n)}
<1>1. /\ n \in Nat /\ n > 0 /\ ~Asked(told, n) /\ told' = told \cup s
      /\ AllTallied(told) /\ SeatVotes(db') = SeatVotes(db)
      /\ \A p \in Seats : db'.score[p] = db.score[p]
  BY SaveRoundParts DEF RowsStay
<1>2. n <= TotalRounds /\ n \in 1..TotalRounds
  BY <1>1, RoundsFit, RoundsAssumption
<1>3. /\ \A k : k \in Prompted <=> Asked(told, k)
      /\ \A k : k \in RoundsShown <=> Tallied(told, k)
      /\ RoundPlayed \in 0..n /\ (RoundPlayed > 0 => Asked(told, RoundPlayed))
  BY RoundIs
<1>4. Prompted \in SUBSET (1..n)
  <2>1. AnnouncedInOrder(n, told)
    BY AsksParts
  <2>2. \A k : Asked(told, k) => k \in 1..n
    BY <2>1 DEF AnnouncedInOrder, Asked, Say
  <2>3. QED
    BY <1>3, <2>2
<1>5. Prompted' = Prompted \cup {n}
  <2>1. \A k : Asked(told', k) <=> Asked(told, k) \/ k = n
    BY <1>1 DEF Asked, Say
  <2>2. \A k : k \in Prompted' <=> k \in 1..TotalRounds /\ Asked(told', k)
    BY DEF Prompted, Asked
  <2>3. \A k : k \in Prompted <=> k \in 1..TotalRounds /\ Asked(told, k)
    BY DEF Prompted, Asked
  <2>4. \A k : k \in Prompted' <=> k \in Prompted \/ k = n
    BY <1>2, <2>1, <2>2, <2>3
  <2>5. QED
    BY <2>4
<1>6. RoundPlayed' = n
  <2>1. n \in Prompted' /\ \A k \in Prompted' : k \in Nat /\ k <= n
    BY <1>1, <1>4, <1>5
  <2>2. RoundPlayed' \in Prompted' /\ \A k \in Prompted' : k <= RoundPlayed'
    BY <2>1 DEF RoundPlayed
  <2>3. QED
    BY <1>1, <2>1, <2>2
<1>7. RoundPlayed = 0 \/ RoundPlayed \in RoundsShown
  BY <1>1, <1>3 DEF AllTallied, Asked, Say
<1>8. n \in (RoundPlayed + 1)..TotalRounds
  <2>1. RoundPlayed # n
    BY <1>1, <1>3
  <2>2. QED
    BY <1>1, <1>2, <1>3, <2>1, RoundsAssumption
<1>9. ~(Say("finalResults", 0) \in told)
  <2>1. SUFFICES ASSUME Say("finalResults", 0) \in told PROVE FALSE
    OBVIOUS
  <2>2. Say("scoresUpdated", TotalRounds) \in told
    BY <2>1 DEF IInv, ToldInOrder, Say
  <2>3. Tallied(told, TotalRounds)
    BY <2>2 DEF IInv, ToldInOrder, Say, Tallied
  <2>4. Asked(told, TotalRounds) /\ TotalRounds \in 1..n
    BY <1>1, <2>3, AsksParts DEF AnnouncedInOrder, Asked, Tallied, Say
  <2>5. TotalRounds = n
    BY <1>1, <1>2, <2>4
  <2>6. QED
    BY <1>1, <2>4, <2>5
<1>10. /\ RoundsShown' = RoundsShown
       /\ (Say("finalResults", 0) \in told') = (Say("finalResults", 0) \in told)
  BY <1>1 DEF RoundsShown, Say
<1>11. VotesGiven' = VotesGiven
  BY <1>1 DEF VotesGiven, SeatVotes
<1>12. [p \in Seats |-> db'.score[p]] = [p \in Seats |-> db.score[p]]
  BY <1>1
<1>13. QED
  BY <1>6, <1>7, <1>8, <1>9, <1>10, <1>11, <1>12 DEF Rules!OpenRound

\* Whether a player voted in a round, in the tables and to the players.
LEMMA VotedAlike ==
  ASSUME NEW p \in Seats, RoundPlayed = ids.round
  PROVE  Rules!Voted(p) <=> VotedIn(db, ids.round, p)
<1>1. ASSUME Rules!Voted(p) PROVE VotedIn(db, ids.round, p)
  <2>1. PICK target : [round |-> ids.round, by |-> p, for |-> target] \in VotesGiven
    BY <1>1 DEF Rules!Voted
  <2>2. PICK v \in db.votes : [round |-> ids.round, by |-> p, for |-> target]
           = [round |-> v.number, by |-> v.by, for |-> IF v.right THEN "truth" ELSE "unknown"]
    BY <2>1 DEF VotesGiven
  <2>3. QED
    BY <2>2 DEF VotedIn
<1>2. ASSUME VotedIn(db, ids.round, p) PROVE Rules!Voted(p)
  <2>1. PICK v \in db.votes : v.by = p /\ v.number = ids.round
    BY <1>2 DEF VotedIn
  <2>2. [round |-> ids.round, by |-> p, for |-> IF v.right THEN "truth" ELSE "unknown"] \in VotesGiven
    BY <2>1 DEF VotesGiven
  <2>3. "truth" \in Rules!Target /\ "unknown" \in Rules!Target
    BY DEF Rules!Target
  <2>4. QED
    BY <2>2, <2>3 DEF Rules!Voted
<1>3. QED
  BY <1>1, <1>2

LEMMA VoteIsCast ==
  ASSUME IInv, TallyInOrder, AsksInOrder, NEW j \in Jobs, JobInsertVote(j), job[j].who \in Seats
  PROVE  \E p \in Seats, target \in Rules!Target : Rules!Vote(p, target)
<1> DEFINE n == ids.round
           p == job[j].who
<1>1. PICK row : /\ row.by = p /\ row.number = job[j].round.number
                 /\ row.right = (job[j].ballot = "truth")
                 /\ db' = [db EXCEPT !.votes = @ \cup {row}]
  BY InsertVoteParts
<1>2. /\ n > 0 /\ row.number = n /\ db'.score = db.score
      /\ Asked(told, n) /\ ~Tallied(told, n) /\ ~VotedIn(db, n, p)
  BY <1>1, InsertVoteParts DEF RoundAt
<1>3. db'.votes = db.votes \cup {row} /\ told' = told
  BY <1>1, TallyParts DEF Game, JobInsertVote
<1>4. RoundPlayed = n /\ n \notin RoundsShown
  BY <1>2, RoundIs
<1>5. ~Rules!Voted(p)
  BY <1>2, <1>4, VotedAlike
<1> DEFINE target == IF row.right THEN "truth" ELSE "unknown"
<1>6. target \in Rules!Target
  BY DEF Rules!Target
<1>7. VotesGiven' = VotesGiven \cup {[round |-> n, by |-> p, for |-> target]}
  BY <1>1, <1>2, <1>3 DEF VotesGiven
<1>8. RoundPlayed' = RoundPlayed /\ RoundsShown' = RoundsShown
  BY <1>3 DEF RoundPlayed, Prompted, RoundsShown
<1>9. Rules!Vote(p, target)
  BY <1>2, <1>3, <1>4, <1>5, <1>7, <1>8 DEF Rules!Vote
<1>10. QED
  BY <1>6, <1>9

LEMMA CountIsTally ==
  ASSUME IInv, TallyInOrder, AsksInOrder, NEW h \in Handlers, CountVotes(h)
  PROVE  Rules!Tally \/ (db' = db /\ told' = told)
<1> DEFINE n == ids.round
           s == {Say("allVotesSubmitted", n)}
<1>1. req[h].pc = "votes.count" /\ db' = db
  BY DEF CountVotes
<1>2. req[h].round = RoundAt(n) /\ ~Tallied(told, n) /\ n > 0 /\ Asked(told, n)
  BY <1>1, WaitingTallied, AsksParts DEF RequestTallied, RequestAsked
<1>3. \/ told' = told
      \/ /\ Cardinality(VotesOfRound(db, n)) = Cardinality(db.players)
         /\ told' = told \cup s
  BY <1>2 DEF CountVotes, Tell, RoundAt
<1>4. SUFFICES ASSUME Cardinality(VotesOfRound(db, n)) = Cardinality(db.players),
                      told' = told \cup s
               PROVE  Rules!Tally
  BY <1>1, <1>3
<1>5. RoundPlayed = n /\ n \notin RoundsShown /\ n \in 1..TotalRounds
  BY <1>2, RoundIs, RoundsFit, RoundsAssumption
<1>6. \A p \in Seats : Rules!Voted(p)
  <2>1. \A p \in Seats : VotedIn(db, n, p)
    BY <1>4, TallyParts, AllHaveVoted
  <2>2. QED
    BY <1>5, <2>1, VotedAlike
<1>7. RoundsShown' = RoundsShown \cup {n}
  BY <1>4, <1>5 DEF RoundsShown, Say
<1>8. Prompted' = Prompted /\ (Say("finalResults", 0) \in told') = (Say("finalResults", 0) \in told)
  BY <1>4 DEF Prompted, Say
<1>9. RoundPlayed' = RoundPlayed /\ VotesGiven' = VotesGiven
  BY <1>1, <1>8 DEF RoundPlayed, VotesGiven
<1>10. QED
  BY <1>1, <1>2, <1>5, <1>6, <1>7, <1>8, <1>9 DEF Rules!Tally

LEMMA ShareIsShown ==
  ASSUME IInv, TallyInOrder, AsksInOrder, NEW h \in Handlers, ShareScores(h)
  PROVE  Rules!AnnounceWinner \/ Unseen
<1> DEFINE n == req[h].round.number
           s == {Say("scoresUpdated", n)}
           e == {Say("scoresUpdated", n), Say("finalResults", 0)}
<1>1. req[h].pc = "score" /\ db' = db
  BY DEF ShareScores
<1>2. n \in 1..TotalRounds /\ Say("allVotesSubmitted", n) \in told
  BY <1>1, WaitingTallied DEF RequestOK
<1>3. CASE n < TotalRounds
  <2>1. told' = told \cup s
    BY <1>3 DEF ShareScores, Tell
  <2>2. \A a \in s : a.event = "scoresUpdated"
    BY DEF Say
  <2>3. SeatVotes(db') = SeatVotes(db)
    BY <1>1
  <2> HIDE DEF s
  <2>4. QED
    BY <2>1, <2>2, <2>3, QuietIsUnseen
<1>4. CASE ~(n < TotalRounds)
  <2>1. told' = told \cup e
    BY <1>4 DEF ShareScores, Tell
  <2>2. n = TotalRounds
    BY <1>2, <1>4, RoundsAssumption
  <2>3. TotalRounds \in RoundsShown
    BY <1>2, <2>2 DEF RoundsShown
  <2>4. /\ Prompted' = Prompted /\ RoundsShown' = RoundsShown
        /\ Say("finalResults", 0) \in told'
    BY <2>1 DEF Prompted, RoundsShown, Say
  <2>5. RoundPlayed' = RoundPlayed /\ VotesGiven' = VotesGiven
    BY <1>1, <2>4 DEF RoundPlayed, VotesGiven
  <2>6. Rules!AnnounceWinner
    BY <1>1, <2>3, <2>4, <2>5 DEF Rules!AnnounceWinner
  <2>7. QED
    BY <2>6
<1>5. QED
  BY <1>3, <1>4

\* How a handler or a call that is none of the above goes on.
LEMMA HandlerUnseen ==
  ASSUME IInv, TallyInOrder, AsksInOrder, NEW h \in Handlers,
         \/ ChoseTopic(h) \/ UpdatePreload(h) \/ StartGameSave(h) \/ CreateRound(h)
         \/ CountAnswers(h) \/ ScorePlayer(h) \/ EndGameSave(h)
  PROVE  Unseen
<1> DEFINE t == {Say("chooseTopic", 0)}
           a == {Say("allAnswersSubmitted", req[h].round.number)}
           s == {Say("gameStarted", 0)}
           e == {Say("gameEnded", 0)}
<1>1. /\ \A x \in t : x.event = "chooseTopic"
      /\ \A x \in a : x.event = "allAnswersSubmitted"
      /\ \A x \in s : x.event = "gameStarted"
      /\ \A x \in e : x.event = "gameEnded"
  BY DEF Say
<1>2. told' = told \/ told' = told \cup t \/ told' = told \cup a
        \/ told' = told \cup s \/ told' = told \cup e
  BY DEF ChoseTopic, UpdatePreload, StartGameSave, CreateRound, CountAnswers, ScorePlayer,
         EndGameSave, Tell
<1>3. SeatVotes(db') = SeatVotes(db)
  <2>1. CASE ChoseTopic(h) \/ UpdatePreload(h) \/ CountAnswers(h) \/ ScorePlayer(h)
    BY <2>1 DEF ChoseTopic, UpdatePreload, CountAnswers, ScorePlayer
  <2>2. CASE StartGameSave(h) \/ EndGameSave(h)
    BY <2>2, CopyIsSaved DEF StartGameSave, EndGameSave, RowsStay
  <2>3. CASE CreateRound(h)
    <3>1. db'.votes = db.votes
      BY <2>3, TallyParts DEF CreateRound, Game
    <3>2. QED
      BY <3>1 DEF SeatVotes
  <2>4. QED
    BY <2>1, <2>2, <2>3
<1> HIDE DEF t, a, s, e
<1>4. QED
  BY <1>1, <1>2, <1>3, QuietIsUnseen

LEMMA CallUnseen ==
  ASSUME IInv, TallyInOrder, AsksInOrder, NEW j \in Jobs, RunJob(j)
  PROVE  Unseen \/ (JobInsertVote(j) /\ job[j].who \in Seats)
<1>1. CASE JobLoadPlayer(j) \/ JobInsertAnswer(j) \/ JobLoadGame(j) \/ JobPreload(j) \/ JobReject(j)
  BY <1>1 DEF JobLoadPlayer, JobInsertAnswer, JobLoadGame, JobPreload, JobReject, Die, Unseen
<1>2. CASE JobSave(j)
  BY <1>2, JobSaveLeaves DEF JobSave, RowsStay, Unseen
<1>3. CASE JobInsertVote(j) /\ job[j].who \notin Seats
  BY <1>3, InsertVoteParts DEF JobInsertVote, Unseen
<1>4. QED
  BY <1>1, <1>2, <1>3 DEF RunJob

LEMMA StepKeepsTheRules ==
  ASSUME IInv, IInv', TallyInOrder, TallyInOrder', AsksInOrder, AsksInOrder', [TurnNext]_vars
  PROVE  Rules!Next
<1>1. Unseen => Rules!Next
  BY UnseenIsSettle DEF Rules!Next
<1>2. db' = db /\ told' = told => Unseen
  BY DEF Unseen
<1>3. CASE UNCHANGED vars \/ Process
  BY <1>1, <1>2, <1>3 DEF vars, Process, Stop, Restart, Connect, Die
<1>4. CASE \E h \in Handlers : TakeTurn(h)
  BY <1>1, <1>2, <1>4
  DEF TakeTurn, StartInTurn, TopicInTurn, AnswerInTurn, VoteInTurn, EndInTurn,
      StartGame, ChooseTopic, SubmitAnswer, SubmitVote, EndGame
<1>5. ASSUME NEW h \in Handlers, Continue(h) PROVE Rules!Next
  <2>1. ~UpdateGameSave(h)
    BY TallyParts DEF UpdateGameSave, RequestTallied
  <2>2. CASE SaveRound(h)
    BY <2>2, RoundIsOpened DEF Rules!Next
  <2>3. CASE CountVotes(h)
    BY <1>1, <1>2, <2>3, CountIsTally DEF Rules!Next
  <2>4. CASE ShareScores(h)
    BY <1>1, <2>4, ShareIsShown DEF Rules!Next
  <2>5. QED
    BY <1>1, <1>5, <2>1, <2>2, <2>3, <2>4, HandlerUnseen DEF Continue
<1>6. ASSUME NEW j \in Jobs, RunJob(j) PROVE Rules!Next
  BY <1>1, <1>6, CallUnseen, VoteIsCast DEF Rules!Next
<1>7. QED
  BY <1>3, <1>4, <1>5, <1>6 DEF TurnNext

LEMMA InitKeepsTheRules ==
  ASSUME Init
  PROVE  Rules!Init
<1>1. db = NewGame /\ told = {}
  BY DEF Init
<1>2. Prompted = {} /\ RoundsShown = {} /\ VotesGiven = {}
  BY <1>1 DEF Prompted, RoundsShown, VotesGiven, NewGame
<1>3. [p \in Seats |-> db.score[p]] = [p \in Seats |-> 0]
  BY <1>1, SeatsAssumption DEF NewGame
<1>4. QED
  BY <1>1, <1>2, <1>3 DEF Rules!Init, RoundPlayed

\* With no call awaited and the process stopped at any moment, whatever ids the players
\* have, each step of the program is one of the rules: a vote that was stored is never
\* lost or cast twice, none comes after the votes were shown, a round is opened when those
\* before it are tallied, and no score is ever beyond what the shown votes are worth.
THEOREM TheRulesAreKept ==
  ASSUME InOrder
  PROVE  TurnSpec => PlaysByTheRules
<1>1. Init => Rules!Init
  BY InitKeepsTheRules
<1>2. /\ IInv /\ IInv' /\ TallyInOrder /\ TallyInOrder' /\ AsksInOrder /\ AsksInOrder'
      /\ [TurnNext]_vars
      => [Rules!Next]_(Rules!vars)
  BY StepKeepsTheRules
<1>3. TurnSpec => []IInv
  BY TurnsAreGameLoop, Invariant, PTL
<1>4. QED
  BY <1>1, <1>2, <1>3, TallyStaysInOrder, AsksStayInOrder, PTL
  DEF TurnSpec, PlaysByTheRules, Rules!Spec
=============================================================================
