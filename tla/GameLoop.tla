------------------------------- MODULE GameLoop -------------------------------
(***************************************************************************)
(* The part of the games gateway that plays a game: startGame, chooseTopic, *)
(* submitAnswer, submitVote and endGame, with the services they call, and   *)
(* the resolver's updateGame, which the host may call at any time.  A       *)
(* handler runs from one await to the next in one step, so that handlers of *)
(* several sockets, and the calls they leave behind, interleave there.      *)
(*                                                                         *)
(* Here the players already sit in the game and fill it, so that whoever    *)
(* asks to join is turned away; who joins and who leaves is another part of *)
(* the system.                                                              *)
(***************************************************************************)
EXTENDS GameServer

CONSTANTS
  CatalogueSizes,   \* numbers of active topics a query may find
  Ballots,          \* what votes are for
  EditsInPlay       \* the host changes the game after its start too

ASSUME CatalogueAssumption == CatalogueSizes \subseteq Nat
ASSUME BallotsAssumption   == Ballots \subseteq Ballot
ASSUME EditsAssumption     == EditsInPlay \in BOOLEAN

Init ==
  /\ db = NewGame
  /\ ids = [round |-> 0, answer |-> [p \in Profiles |-> 0], vote |-> [p \in Profiles |-> 0]]
  /\ req = [h \in Handlers |-> Idle]
  /\ job = [j \in Jobs |-> NoJob]
  /\ told = {}
  /\ gamers = Users
  /\ up = TRUE

(* Where a definition below follows one that names a mistake, the first is the  *)
(* second with that mistake in it: it stands in for it when the properties are  *)
(* tried against a wrong program, and no specification uses it.                *)

-----------------------------------------------------------------------------
(* How a handler goes on                                                    *)

Arrives(h) == up /\ req[h] = Idle /\ Loads

Await(h, pc, view, round, todo) ==
  req' = [req EXCEPT ![h] = [pc |-> pc, view |-> view, round |-> round, todo |-> todo]]

\* It returns, or throws and the client gets the exception.
Reply(h) == req' = [req EXCEPT ![h] = Idle]

Tell(events) == told' = told \cup events

\* choseTopic up to its first await: a random player, whose socket must be known
AskForTopic(h, g) ==
  \/ /\ \E p \in g.players : Owner[p] \in gamers
     /\ Await(h, "topics", g, NoRound, {})
  \/ /\ g.players = {} \/ \E p \in g.players : Owner[p] \notin gamers
     /\ Reply(h)

\* choseTopic after getRandomTopics(5), which throws when fewer are active
ChoseTopic(h) ==
  /\ req[h].pc = "topics"
  /\ \E n \in CatalogueSizes :
       IF n < 5
       THEN UNCHANGED <<job, told>>
       ELSE /\ \E j \in Jobs : Start(j, SwitchSubstate(req[h].view.substate, "choosing_topic"))
            /\ Tell({Say("chooseTopic", 0)})
  /\ Reply(h)
  /\ UNCHANGED <<db, ids, gamers, up>>

-----------------------------------------------------------------------------
(* startGame                                                                *)

\* A validateGameState that does not throw.
AnyState(state) == state \in GameState

\* validateGameState
InState(state) == db.status = state

StartGame(h, u) ==
  /\ Arrives(h)
  /\ u = Host
  /\ InState("preparing")
  /\ Cardinality(db.players) >= 2
  /\ Await(h, "start.preload", [db EXCEPT !.status = "in_progress"], NoRound, {})
  /\ UNCHANGED <<db, ids, job, told, gamers, up>>

StartGameSave(h) ==
  /\ req[h].pc = "start.save"
  /\ db' = Save(db, req[h].view)
  /\ Tell({Say("gameStarted", 0)})
  /\ AskForTopic(h, req[h].view)
  /\ UNCHANGED <<ids, job, gamers, up>>

-----------------------------------------------------------------------------
(* updateGame, from the host in any state of the game: the settings it changes *)
(* are not kept here, and the rest of the game it loaded is saved back.  An    *)
(* input that names a status or a substate is left out: it is stored as it is. *)
(* The bound EditsInPlay leaves only those that load the game before its start. *)

UpdateGame(h, u) ==
  /\ Arrives(h)
  /\ u = Host
  /\ EditsInPlay \/ told = {}
  /\ Await(h, "update.preload", db, NoRound, {})
  /\ UNCHANGED <<db, ids, job, told, gamers, up>>

UpdateGameSave(h) ==
  /\ req[h].pc = "update.save"
  /\ db' = Save(db, req[h].view)
  /\ Reply(h)
  /\ UNCHANGED <<ids, job, told, gamers, up>>

\* GenericCrudService.update for either: preload, then save
UpdatePreload(h) ==
  /\ \/ /\ req[h].pc = "start.preload"
        /\ Await(h, "start.save", Preload(db, req[h].view), NoRound, {})
     \/ /\ req[h].pc = "update.preload"
        /\ Await(h, "update.save", Preload(db, req[h].view), NoRound, {})
  /\ UNCHANGED <<db, ids, job, told, gamers, up>>

-----------------------------------------------------------------------------
(* chooseTopic, from any connected user: addRoundToGame                     *)

\* One round too many is let in.
RoundsExceed == Cardinality(db.rounds) <= TotalRounds

RoundsRemain == Cardinality(db.rounds) < TotalRounds

ChooseTopic(h) ==
  /\ Arrives(h) /\ RoomForRound
  /\ InState("in_progress")
  /\ RoundsRemain
  /\ Await(h, "round.create", db, NoRound, {})
  /\ UNCHANGED <<db, ids, job, told, gamers, up>>

CreateRound(h) ==
  /\ req[h].pc = "round.create"
  /\ LET g     == req[h].view
         round == [id |-> ids.round + 1, number |-> Cardinality(g.rounds) + 1]
     IN  /\ db' = [db EXCEPT !.rounds = @ \cup {round}]
         /\ Await(h, "round.save",
                  [g EXCEPT !.rounds = @ \cup {round}, !.substate = "giving_answer"], round, {})
  /\ ids' = [ids EXCEPT !.round = @ + 1]
  /\ UNCHANGED <<job, told, gamers, up>>

SaveRound(h) ==
  /\ req[h].pc = "round.save"
  /\ db' = Save(db, req[h].view)
  /\ Tell({Say("answerPrompt", req[h].round.number)})
  /\ Reply(h)
  /\ UNCHANGED <<ids, job, gamers, up>>

-----------------------------------------------------------------------------
(* submitAnswer, of anything but the correct answer of the current round,    *)
(* which is turned away and changes nothing                                 *)

SubmitAnswer(h, u) ==
  /\ Arrives(h) /\ RoomForAnswer(u)
  /\ IsPlayer(db, u)
  /\ \E round \in CurrentRounds(db) :
       /\ \E j \in Jobs : Start(j, AddAnswer(u, round))
       /\ Await(h, "answers.count", NewGame, round, {})
  /\ UNCHANGED <<db, ids, told, gamers, up>>

\* One answer is missing.
AllButOneAnswered(g, round) ==
  Cardinality(AnswersOfRound(g, round)) + 1 >= Cardinality(g.players)

AllAnswered(g, round) ==
  Cardinality(AnswersOfRound(g, round)) = Cardinality(g.players)

\* answer.round is read of every answer in the game
AnswersReadable(g) ==
  "answer.round" \in Relations \/ \A a \in g.answers : a.by \notin g.players

\* The substate is switched whether all have answered or not.
CountAnswersInVain(h) ==
  /\ req[h].pc = "answers.count"
  /\ IF AllAnswered(db, req[h].round)
     THEN Tell({Say("allAnswersSubmitted", req[h].round.number)})
     ELSE UNCHANGED told
  /\ \E j \in Jobs : Start(j, SwitchSubstate("giving_answer", "voting"))
  /\ Reply(h)
  /\ UNCHANGED <<db, ids, gamers, up>>

CountAnswers(h) ==
  /\ req[h].pc = "answers.count"
  /\ LET round == req[h].round
     IN  IF AnswersReadable(db) /\ AllAnswered(db, round)
         THEN /\ Tell({Say("allAnswersSubmitted", round.number)})
              /\ \E j \in Jobs : Start(j, SwitchSubstate("giving_answer", "voting"))
         ELSE UNCHANGED <<job, told>>
  /\ Reply(h)
  /\ UNCHANGED <<db, ids, gamers, up>>

-----------------------------------------------------------------------------
(* submitVote                                                               *)

SubmitVote(h, u, ballot) ==
  /\ Arrives(h) /\ RoomForVote(u)
  /\ IsPlayer(db, u)
  /\ \E round \in CurrentRounds(db) :
       /\ \E j \in Jobs : Start(j, AddVote(u, round, ballot))
       /\ Await(h, "votes.count", NewGame, round, {})
  /\ UNCHANGED <<db, ids, told, gamers, up>>

\* The broadcast reads vote.player.id, and vote.answer.player.id of a vote for a lie.
VotesReadable(votes) ==
  \A v \in votes : /\ "vote.player" \in Relations
                   /\ v.right \/ v.answer # NoAnswer

\* The broadcast of the completed votes is left out.
CountVotesSilently(h) ==
  /\ req[h].pc = "votes.count"
  /\ LET votes == VotesOfRound(db, req[h].round.number)
     IN  IF Cardinality(votes) = Cardinality(db.players) /\ VotesReadable(votes)
         THEN /\ \E j \in Jobs : Start(j, SwitchSubstate("voting", "showing_results"))
              /\ Await(h, "score", db, req[h].round, db.players)
         ELSE Reply(h) /\ UNCHANGED job
  /\ UNCHANGED <<db, ids, told, gamers, up>>

CountVotes(h) ==
  /\ req[h].pc = "votes.count"
  /\ LET round == req[h].round
         votes == VotesOfRound(db, round.number)
     IN  IF Cardinality(votes) = Cardinality(db.players) /\ VotesReadable(votes)
         THEN /\ Tell({Say("allVotesSubmitted", round.number)})
              /\ \E j \in Jobs : Start(j, SwitchSubstate("voting", "showing_results"))
              /\ Await(h, "score", db, round, db.players)
         ELSE Reply(h) /\ UNCHANGED <<job, told>>
  /\ UNCHANGED <<db, ids, gamers, up>>

\* The player's true votes of all rounds are given points again.
PointsSoFar(answer, right) ==
  20 * Cardinality({v \in RowsOf(db.votes, answer.by) : v.right})

(* 10 points for each vote another player gave the first answer, 20 when the *)
(* player's own first vote was for the truth.                                *)
Points(answer, right) ==
  10 * Cardinality(VotesForAnswer(db, answer)) + (IF right THEN 20 ELSE 0)

\* Whether a player's first vote was for the truth.
FoundOut(votes) == IF votes = {} THEN {FALSE} ELSE {v.right : v \in Firsts(votes)}

\* The loop over the players does not advance.
ScorePlayerAgain(h) ==
  /\ req[h].pc = "score" /\ req[h].todo # {}
  /\ UNCHANGED vars

ScorePlayer(h) ==
  /\ req[h].pc = "score" /\ req[h].todo # {}
  /\ \E p \in req[h].todo :
       LET g       == req[h].view
           n       == req[h].round.number
           answers == {a \in RowsOf(g.answers, p) : a.round.number = n}
           votes   == {v \in RowsOf(g.votes, p) : v.number = n}
       IN  IF answers # {} /\ AnswersReadable(g)
           THEN /\ \E j \in Jobs, answer \in Firsts(answers), right \in FoundOut(votes) :
                     Start(j, AddScore(p, Points(answer, right)))
                /\ Await(h, "score", g, req[h].round, req[h].todo \ {p})
           ELSE Reply(h) /\ UNCHANGED job
  /\ UNCHANGED <<db, ids, told, gamers, up>>

ShareScores(h) ==
  /\ req[h].pc = "score" /\ req[h].todo = {}
  /\ LET n == req[h].round.number
     IN  IF n < TotalRounds
         THEN /\ Tell({Say("scoresUpdated", n)})
              /\ AskForTopic(h, db)
              /\ UNCHANGED job
         ELSE /\ Tell({Say("scoresUpdated", n), Say("finalResults", 0)})
              /\ \E j \in Jobs : Start(j, SwitchState("in_progress", "final_results"))
              /\ Reply(h)
  /\ UNCHANGED <<db, ids, gamers, up>>

-----------------------------------------------------------------------------
(* endGame                                                                  *)

EndGame(h, u) ==
  /\ Arrives(h)
  /\ u = Host
  /\ InState("final_results")
  /\ Await(h, "end.save", [db EXCEPT !.status = "finished"], NoRound, {})
  /\ UNCHANGED <<db, ids, job, told, gamers, up>>

EndGameSave(h) ==
  /\ req[h].pc = "end.save"
  /\ db' = Save(db, req[h].view)
  /\ Tell({Say("gameEnded", 0)})
  /\ Reply(h)
  /\ UNCHANGED <<ids, job, gamers, up>>

-----------------------------------------------------------------------------
Arrive(h) ==
  \/ ChooseTopic(h)
  \/ \E u \in Users :
       \/ StartGame(h, u)
       \/ EndGame(h, u)
       \/ UpdateGame(h, u)
       \/ SubmitAnswer(h, u)
       \/ \E ballot \in Ballots : SubmitVote(h, u, ballot)

Continue(h) ==
  \/ ChoseTopic(h)
  \/ UpdatePreload(h) \/ StartGameSave(h) \/ UpdateGameSave(h)
  \/ CreateRound(h) \/ SaveRound(h)
  \/ CountAnswers(h)
  \/ CountVotes(h) \/ ScorePlayer(h) \/ ShareScores(h)
  \/ EndGameSave(h)

Process == Stop \/ Restart \/ \E u \in Users : Connect(u)

Next ==
  \/ \E h \in Handlers : Arrive(h) \/ Continue(h)
  \/ \E j \in Jobs : RunJob(j)
  \/ Process

Spec == Init /\ [][Next]_vars

\* Node runs what is ready, and the database answers.
Fairness ==
  /\ \A h \in Handlers : WF_vars(Continue(h))
  /\ \A j \in Jobs : WF_vars(RunJob(j))

-----------------------------------------------------------------------------
(* Properties                                                               *)

\* Every variable keeps to the rows and slots declared for it.
TypeOK ==
  /\ db \in Game /\ IsFiniteSet(db.rounds)
  /\ ids \in [round : Nat, answer : [Profiles -> Nat], vote : [Profiles -> Nat]]
  /\ req \in [Handlers -> Request]
  /\ \A h \in Handlers : IsFiniteSet(req[h].view.rounds)
  /\ job \in [Jobs -> Job]
  /\ \A j \in Jobs : IsFiniteSet(job[j].view.rounds)
  /\ told \subseteq Announcement
  /\ gamers \subseteq Users
  /\ up \in BOOLEAN

\* addRoundToGame numbers a round after counting those of a game it loaded before
\* two awaits.  However many handlers do that at once, on however stale a game,
\* no round is numbered beyond the total of the game.
RoundsWithinTotal == \A r \in db.rounds : r.number \in 1..TotalRounds

\* The substate is written by un-awaited calls from games loaded at any time before.
\* The game is in VOTING, or shows results, only if the room was told that the
\* answers, or the votes, of some round are complete.
PhaseWasAnnounced ==
  /\ db.substate = "voting" => \E a \in told : a.event = "allAnswersSubmitted"
  /\ db.substate = "showing_results" => \E a \in told : a.event = "allVotesSubmitted"

\* The game has final results, or is finished, only if the room was told the votes
\* and the scores of the last round and the final results: no interleaving of
\* stale writes and of endGame closes a game that was not played to its end.
OutcomeWasAnnounced ==
  db.status \in {"final_results", "finished"} =>
    {Say("allVotesSubmitted", TotalRounds), Say("scoresUpdated", TotalRounds),
     Say("finalResults", 0)} \subseteq told

\* A player has points only if a vote and an answer of that player were inserted
\* and the votes of some round were told to be complete, whatever scores the stale
\* writes of other calls put back.
PointsAreEarned ==
  \A p \in Profiles : db.score[p] > 0 =>
    /\ ids.vote[p] > 0 /\ ids.answer[p] > 0
    /\ \E a \in told : a.event = "allVotesSubmitted"

\* Nothing is told to the room before what it follows from: a prompt or a request
\* for a topic before the start, scores before the votes of that round, final
\* results before the scores of the last round, the end before the final results.
ToldInOrder ==
  \A a \in told :
    /\ a.event \in {"chooseTopic", "answerPrompt"} => Say("gameStarted", 0) \in told
    /\ a.event = "scoresUpdated" => Say("allVotesSubmitted", a.number) \in told
    /\ a.event = "finalResults" => Say("scoresUpdated", TotalRounds) \in told
    /\ a.event = "gameEnded" => Say("finalResults", 0) \in told

\* Every handler comes to its return or its exception (or dies with the process):
\* the loop over the players ends, and no await waits for another handler.
RequestsEnd == \A h \in Handlers : req[h].pc # "idle" ~> req[h].pc = "idle"
=============================================================================
