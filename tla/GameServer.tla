------------------------------ MODULE GameServer ------------------------------
(***************************************************************************)
(* The server process around one game: the tables, the handlers that are   *)
(* waiting for an await, the calls nobody awaits, the sockets, what has    *)
(* been said to the room, and the life of the process itself.              *)
(*                                                                         *)
(* GamesService.submitAnswer, submitVote and addScoreToPlayer call         *)
(* PlayersService without await or return, and the gateway calls           *)
(* switchSubstate and switchState without await.  Each such call goes on   *)
(* by itself here, as a job, beside the handler that made it.  A job that  *)
(* throws is an unhandled rejection, which ends the Node process.          *)
(***************************************************************************)
EXTENDS GameStore

CONSTANTS
  Handlers,    \* slots for handlers in progress at one time
  Jobs,        \* slots for un-awaited calls in progress at one time
  MaxRows,     \* rounds, answers and votes inserted in one run
  Redeploys    \* the process is stopped and started again while games are on

ASSUME MaxRowsAssumption == MaxRows \in [{"round", "answer", "vote"} -> Nat]
ASSUME RedeploysAssumption == Redeploys \in BOOLEAN

VARIABLES
  db,       \* the rows of the game
  ids,      \* the last id given to a round, and to an answer and a vote of each profile
  req,      \* the handlers in progress
  job,      \* the un-awaited calls in progress
  told,     \* what the room has been told
  gamers,   \* users with an entry in the gateway's map of sockets
  up        \* the process is running

vars == <<db, ids, req, job, told, gamers, up>>

-----------------------------------------------------------------------------
(* Handlers in progress: where the handler waits, the game it has loaded,   *)
(* the round it took from it, the profiles it has still to score.           *)

Waits == {"idle", "start.preload", "start.save", "update.preload", "update.save",
          "topics", "round.create", "round.save", "answers.count", "votes.count",
          "score", "end.save"}

Request == [pc : Waits, view : Game, round : Round, todo : SUBSET Profiles]

Idle == [pc |-> "idle", view |-> NewGame, round |-> NoRound, todo |-> {}]

(* Un-awaited calls: the function, how far it is, its arguments, and the    *)
(* entity it has loaded.                                                    *)

Tasks == {"none", "addAnswer", "addVote", "addScore", "switchSubstate", "switchState"}

\* A vote is for the truth, for a player's lie, or for an id that no answer has.
Ballot == {"truth", "lie", "stray"}

Job == [task : Tasks, pc : {"load", "insert", "preload", "save"},
        who : Users \cup Profiles, round : Round, ballot : Ballot,
        points : Nat, from : GameState \cup GameSubstate, to : GameState \cup GameSubstate,
        view : Game]

NoJob == [task |-> "none", pc |-> "load", who |-> Host, round |-> NoRound,
          ballot |-> "truth", points |-> 0, from |-> "n/a", to |-> "n/a",
          view |-> NewGame]

\* What is said to the room, or to the player who is to choose a topic.
Event == {"gameStarted", "chooseTopic", "answerPrompt", "allAnswersSubmitted",
          "allVotesSubmitted", "scoresUpdated", "finalResults", "gameEnded", "gameAborted"}

Announcement == [event : Event, number : Nat]

Say(e, n) == [event |-> e, number |-> n]

Start(j, call) == job[j] = NoJob /\ job' = [job EXCEPT ![j] = call]

AddAnswer(u, r) == [NoJob EXCEPT !.task = "addAnswer", !.who = u, !.round = r]

AddVote(u, r, ballot) ==
  [NoJob EXCEPT !.task = "addVote", !.who = u, !.round = r, !.ballot = ballot]

AddScore(p, n) == [NoJob EXCEPT !.task = "addScore", !.who = p, !.points = n]

SwitchSubstate(from, to) == [NoJob EXCEPT !.task = "switchSubstate", !.from = from, !.to = to]

SwitchState(from, to) == [NoJob EXCEPT !.task = "switchState", !.from = from, !.to = to]

-----------------------------------------------------------------------------
(* The process                                                              *)

\* All that is in memory is gone; the tables and what was said remain.
Die ==
  /\ up' = FALSE
  /\ req' = [h \in Handlers |-> Idle]
  /\ job' = [j \in Jobs |-> NoJob]
  /\ gamers' = {}
  /\ UNCHANGED <<db, ids, told>>

\* A redeploy, or a signal to the container.
Stop == Redeploys /\ up /\ Die

\* docker-compose gives the app no restart policy: somebody has to start it again.
Restart ==
  /\ Redeploys /\ ~up
  /\ up' = TRUE
  /\ UNCHANGED <<db, ids, req, job, told, gamers>>

\* handleConnection
Connect(u) ==
  /\ up
  /\ gamers' = gamers \cup {u}
  /\ UNCHANGED <<db, ids, req, job, told, up>>

-----------------------------------------------------------------------------
(* The un-awaited calls, one step for each of their awaits                  *)

Goto(j, pc, view) == job' = [job EXCEPT ![j].pc = pc, ![j].view = view]

PlayerTask(j) == job[j].task \in {"addAnswer", "addVote", "addScore"}
SwitchTask(j) == job[j].task \in {"switchSubstate", "switchState"}

\* findOne at the head of addAnswerToPlayer, addVoteToPlayer, addPlayerScore
JobLoadPlayer(j) ==
  /\ PlayerTask(j) /\ job[j].pc = "load"
  /\ job[j].who \in Profiles
  /\ LET p == job[j].who
         v == PlayerView(db, p)
     IN  IF job[j].task = "addScore"
         THEN Goto(j, "preload", [v EXCEPT !.score[p] = @ + job[j].points])
         ELSE Goto(j, "insert", v)
  /\ UNCHANGED <<db, ids, req, told, gamers, up>>

\* createAnswer: the new row has a round but no player until the player is saved
JobInsertAnswer(j) ==
  /\ job[j].task = "addAnswer" /\ job[j].pc = "insert"
  /\ LET row == [id |-> ids.answer[job[j].who] + 1, by |-> job[j].who, round |-> job[j].round]
     IN  Goto(j, "preload", [job[j].view EXCEPT !.answers = @ \cup {row}])
  /\ ids' = [ids EXCEPT !.answer[job[j].who] = @ + 1]
  /\ UNCHANGED <<db, req, told, gamers, up>>

\* createVote: the new row is linked to its player at once; its answer is the
\* votes service itself, which has no id, so the link to an answer stays null
JobInsertVote(j) ==
  /\ job[j].task = "addVote" /\ job[j].pc = "insert"
  /\ LET row == [id |-> ids.vote[job[j].who] + 1, by |-> job[j].who, number |-> job[j].round.number,
                 right |-> job[j].ballot = "truth", answer |-> NoAnswer]
     IN  /\ db' = [db EXCEPT !.votes = @ \cup {row}]
         /\ Goto(j, "preload", [job[j].view EXCEPT !.votes = @ \cup {row}])
  /\ ids' = [ids EXCEPT !.vote[job[j].who] = @ + 1]
  /\ UNCHANGED <<req, told, gamers, up>>

\* A wrong program, to try the properties on: either switch writes the status.
JobLoadGameMixedUp(j) ==
  /\ SwitchTask(j) /\ job[j].pc = "load" /\ Loads
  /\ Goto(j, "preload", [db EXCEPT !.status = job[j].to])
  /\ UNCHANGED <<db, ids, req, told, gamers, up>>

\* validateGameExists and the check of the state at the head of a switch
JobLoadGame(j) ==
  /\ SwitchTask(j) /\ job[j].pc = "load" /\ Loads
  /\ IF job[j].task = "switchSubstate"
     THEN /\ db.substate = job[j].from
          /\ Goto(j, "preload", [db EXCEPT !.substate = job[j].to])
     ELSE /\ db.status = job[j].from
          /\ Goto(j, "preload", [db EXCEPT !.status = job[j].to])
  /\ UNCHANGED <<db, ids, req, told, gamers, up>>

\* GenericCrudService.update: preload, then save
JobPreload(j) ==
  /\ job[j].pc = "preload"
  /\ Goto(j, "save", IF PlayerTask(j) THEN PreloadPlayer(db, job[j].view, job[j].who)
                                      ELSE Preload(db, job[j].view))
  /\ UNCHANGED <<db, ids, req, told, gamers, up>>

\* createVote looks for the answer beside the insert of the vote; when it finds none,
\* that lookup fails before the save is over.
JobSave(j) ==
  /\ job[j].pc = "save" /\ job[j].ballot # "stray"
  /\ db' = IF PlayerTask(j) THEN SavePlayer(db, job[j].view, job[j].who)
                            ELSE Save(db, job[j].view)
  /\ job' = [job EXCEPT ![j] = NoJob]
  /\ UNCHANGED <<ids, req, told, gamers, up>>

\* The call throws and nobody catches it: no such profile, the game is not in the
\* state the switch expects, or the vote is for an answer that does not exist.
Rejected(j) ==
  \/ /\ job[j].pc = "load"
     /\ \/ PlayerTask(j) /\ job[j].who \notin Profiles
        \/ SwitchTask(j) /\ ~Loads
        \/ job[j].task = "switchSubstate" /\ db.substate # job[j].from
        \/ job[j].task = "switchState" /\ db.status # job[j].from
  \/ job[j].pc # "load" /\ job[j].ballot = "stray"

JobReject(j) == Rejected(j) /\ Die

RunJob(j) ==
  \/ JobLoadPlayer(j) \/ JobInsertAnswer(j) \/ JobInsertVote(j)
  \/ JobLoadGame(j) \/ JobPreload(j) \/ JobSave(j) \/ JobReject(j)

-----------------------------------------------------------------------------
(* The bounds on rows are taken when a request arrives, so that a request    *)
(* that was let in can always insert its row.                               *)

Pending(task, p) ==
  Cardinality({j \in Jobs : job[j].task = task /\ job[j].who = p
                            /\ job[j].pc \in {"load", "insert"}})

RoomForAnswer(u) ==
  u \in Profiles => ids.answer[u] + Pending("addAnswer", u) < MaxRows["answer"]

RoomForVote(u) ==
  u \in Profiles => ids.vote[u] + Pending("addVote", u) < MaxRows["vote"]

RoomForRound ==
  ids.round + Cardinality({h \in Handlers : req[h].pc = "round.create"}) < MaxRows["round"]
=============================================================================
