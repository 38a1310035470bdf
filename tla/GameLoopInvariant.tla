-------------------------- MODULE GameLoopInvariant --------------------------
(***************************************************************************)
(* The inductive invariant of GameLoop.                                     *)
(*                                                                         *)
(* A game that a handler or a call loaded some steps ago is written back    *)
(* later, so whatever holds of the rows has to hold of every copy in        *)
(* memory, and has to be something that stays true of a copy while the rest *)
(* of the system goes on.  Each part below is therefore a predicate of one  *)
(* game, request or call, and of what has been told and inserted so far,    *)
(* which only grows.                                                        *)
(***************************************************************************)
EXTENDS GameLoop

\* A game that is past the lobby, by its status or by what it has.
Started(g) == g.status # "preparing" \/ g.rounds # {}

Begun(t) == Say("gameStarted", 0) \in t

Heard(e, t) == \E a \in t : a.event = e

Finale == {Say("allVotesSubmitted", TotalRounds), Say("scoresUpdated", TotalRounds),
           Say("finalResults", 0)}

Earned(p, t, i) ==
  /\ i.vote[p] > 0 /\ i.answer[p] > 0
  /\ Heard("allVotesSubmitted", t)

\* A game, in the tables or in memory, when t has been told and i inserted.
GameOK(g, t, i) ==
  /\ g \in Game /\ IsFiniteSet(g.rounds)
  /\ g.status \in {"final_results", "finished"} => Finale \subseteq t
  /\ g.substate = "voting" => Heard("allAnswersSubmitted", t)
  /\ g.substate = "showing_results" => Heard("allVotesSubmitted", t)
  /\ \A r \in g.rounds : r.number \in 1..TotalRounds
  /\ \A a \in g.answers : a.id > 0 /\ i.answer[a.by] > 0
  /\ \A v \in g.votes : v.answer = NoAnswer /\ i.vote[v.by] > 0
  /\ \A p \in Profiles : g.score[p] > 0 => Earned(p, t, i)

\* A handler in progress.  Only a start, and what loaded the game before it, may
\* be under way before the room is told of the start.
RequestOK(r, t, i) ==
  /\ r \in Request
  /\ GameOK(r.view, t, i)
  /\ r.pc \notin {"idle", "start.preload", "start.save", "update.preload", "update.save"} =>
       Begun(t)
  /\ r.pc \in {"update.preload", "update.save"} /\ Started(r.view) => Begun(t)
  /\ r.pc = "round.create" => Cardinality(r.view.rounds) < TotalRounds
  /\ r.pc \in {"round.save", "answers.count", "votes.count", "score"} =>
       r.round.number \in 1..TotalRounds
  /\ r.pc = "score" => Say("allVotesSubmitted", r.round.number) \in t
  /\ r.pc = "end.save" => r.view.status = "finished"

\* An un-awaited call in progress.
CallOK(c, t, i) ==
  /\ c \in Job
  /\ GameOK(c.view, t, i)
  /\ c.task = "none" => c.pc = "load"
  /\ c.task \in {"addAnswer", "addVote", "addScore"} /\ c.pc # "load" => c.who \in Profiles
  /\ c.task \in {"switchSubstate", "switchState"} => Begun(t)
  /\ c.task = "switchSubstate" =>
       /\ c.to \in GameSubstate
       /\ c.to = "voting" => Heard("allAnswersSubmitted", t)
       /\ c.to = "showing_results" => Heard("allVotesSubmitted", t)
  /\ c.task = "switchState" => c.to = "final_results" /\ Finale \subseteq t
  /\ c.task = "addScore" /\ c.points > 0 => c.who \in Profiles /\ Earned(c.who, t, i)

\* No state the program reaches is outside this invariant, and no step leaves it.
\* It says of every copy of the game what the properties of GameLoop say of the rows.
IInv ==
  /\ TypeOK
  /\ GameOK(db, told, ids)
  /\ Started(db) => Begun(told)
  /\ \A h \in Handlers : RequestOK(req[h], told, ids)
  /\ \A j \in Jobs : CallOK(job[j], told, ids)
  /\ ToldInOrder
=============================================================================
