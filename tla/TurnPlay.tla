------------------------------- MODULE TurnPlay -------------------------------
(***************************************************************************)
(* GameLoop with players who keep to the rules and to their turns: a client *)
(* sends a request only when nothing else is in flight, answers and votes   *)
(* once a round, and only in the substate for it; the host does not change  *)
(* the game.  The program is the same: its calls run un-awaited beside the  *)
(* one handler in progress, and the process may be stopped at any moment.   *)
(***************************************************************************)
EXTENDS GameLoop

NoHandler == \A h \in Handlers : req[h] = Idle
NoCall    == \A j \in Jobs : job[j] = NoJob
Quiet     == NoHandler /\ NoCall

\* The gateway stores what user u sends for the player whose id is u.
HasAnswered(u) == \E r \in CurrentRounds(db), a \in db.answers : a.by = u /\ a.round = r
HasVoted(u)    == \E r \in CurrentRounds(db), v \in db.votes : v.by = u /\ v.number = r.number

StartInTurn(h)  == StartGame(h, Host)
TopicInTurn(h)  == db.substate = "choosing_topic" /\ ChooseTopic(h)
AnswerInTurn(h) == \E u \in Users :
                     db.substate = "giving_answer" /\ ~HasAnswered(u) /\ SubmitAnswer(h, u)
VoteInTurn(h)   == \E u \in Users, ballot \in Ballots :
                     db.substate = "voting" /\ ~HasVoted(u) /\ SubmitVote(h, u, ballot)
EndInTurn(h)    == EndGame(h, Host)

TakeTurn(h) ==
  /\ Quiet
  /\ StartInTurn(h) \/ TopicInTurn(h) \/ AnswerInTurn(h) \/ VoteInTurn(h) \/ EndInTurn(h)

TurnNext ==
  \/ \E h \in Handlers : TakeTurn(h) \/ Continue(h)
  \/ \E j \in Jobs : RunJob(j)
  \/ Process

TurnSpec == Init /\ [][TurnNext]_vars

\* Players send their requests when it is their turn.
PlayersFair == \A h \in Handlers : WF_vars(TakeTurn(h))

FairTurnSpec == TurnSpec /\ Fairness /\ PlayersFair

-----------------------------------------------------------------------------
(* The game as its players see it                                           *)

Prompted == {n \in 1..TotalRounds : Say("answerPrompt", n) \in told}

RoundPlayed == IF Prompted = {} THEN 0
               ELSE CHOOSE n \in Prompted : \A m \in Prompted : m <= n

\* A vote for a lie is stored without the answer it is for.
VotesGiven ==
  {[round |-> v.number, by |-> v.by, for |-> IF v.right THEN "truth" ELSE "unknown"] :
     v \in {w \in db.votes : w.by \in Seats}}

RoundsShown == {n \in 1..TotalRounds : Say("allVotesSubmitted", n) \in told}

Rules == INSTANCE DeceptionRules WITH
  Players <- Seats,
  round   <- RoundPlayed,
  cast    <- VotesGiven,
  tallied <- RoundsShown,
  score   <- [p \in Seats |-> db.score[p]],
  final   <- Say("finalResults", 0) \in told

\* Played in turn, the un-awaited calls, the stale copies they save and the stops of
\* the process cost players points, but break no rule of the game: a stored vote is
\* never lost or cast twice, none comes after the votes were shown, a round opens when
\* the votes of the one before were shown, and nobody has points beyond the votes.
PlaysByTheRules == Rules!Spec

\* A handler that told the room that all votes of a round are in comes to tell it the
\* scores, unless the process ends: every player's answer of the round is there to be
\* read, so that the loop over the players does not fail half way.
TallyIsShared ==
  \A n \in 1..TotalRounds :
    (\E h \in Handlers : req[h].pc = "score" /\ req[h].round.number = n)
      ~> (Say("scoresUpdated", n) \in told \/ ~up)

\* After all submissions of a round the game comes to the voting.
AnswersLeadToVote ==
  (/\ db.status = "in_progress" /\ db.substate = "giving_answer"
   /\ db.rounds # {} /\ \A p \in Seats : HasAnswered(p))
     ~> db.substate = "voting"

\* When the votes of a round are all stored, and are about to be counted, the results
\* are shown, whatever the votes are for.
VotesLeadToResults ==
  (/\ db.status = "in_progress" /\ db.substate = "voting"
   /\ \A p \in Seats : HasVoted(p)
   /\ NoCall /\ \E h \in Handlers : req[h].pc = "votes.count")
     ~> db.substate = "showing_results"

TrueVotes(p) == {v \in db.votes : v.by = p /\ v.right}

\* Once the game has its final results and nothing is left to run, each true vote
\* has given its points.
ScoresAreUpdated ==
  db.status = "final_results" /\ Quiet =>
    \A p \in Seats : db.score[p] = 20 * Cardinality(TrueVotes(p))

\* Whatever points are lost, no player has points that no true vote stored for that
\* player gave, and none twice for the same vote.
ScoresAreDue == \A p \in Seats : db.score[p] <= 20 * Cardinality(TrueVotes(p))

\* The answer a user submits is stored for a player of that user.
AnswerIsCredited ==
  [][\A h \in Handlers, u \in Users :
       SubmitAnswer(h, u) =>
         \A j \in Jobs : job'[j] # job[j] =>
           job'[j].who \in Profiles /\ Owner[job'[j].who] = u]_vars
=============================================================================
