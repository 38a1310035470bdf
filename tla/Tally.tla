-------------------------------- MODULE Tally --------------------------------
(***************************************************************************)
(* The inductive invariant of TurnSpec, by which it implements              *)
(* DeceptionRules: points may be lost but are never given twice.            *)
(*                                                                         *)
(* A round is asked when the room was given its prompt, and tallied when    *)
(* the room was told that its votes are complete.  From then on its points  *)
(* are added once for each player; every copy of a player's score, in the   *)
(* tables or in memory and however old, is at most what is due to that      *)
(* player by then.                                                          *)
(***************************************************************************)
EXTENDS GameLoopInvariant, TurnPlay

Asked(t, n)   == Say("answerPrompt", n) \in t
Tallied(t, n) == Say("allVotesSubmitted", n) \in t

AllTallied(t) == \A a \in t : a.event = "answerPrompt" => Tallied(t, a.number)

-----------------------------------------------------------------------------
(* The rows, when n rounds have been inserted                               *)

RoundAt(k) == [id |-> k, number |-> k]

\* A user who has no seat of the same id may vote for a player of another game.
SeatVotes(g) == {v \in g.votes : v.by \in Seats}

VotedIn(g, n, p)    == \E v \in g.votes : v.by = p /\ v.number = n
BelievedIn(g, n, p) == \E v \in g.votes : v.by = p /\ v.number = n /\ v.right

\* Twenty points for each true vote of the first n rounds.
DueUpTo(g, n, p) == 20 * Cardinality({k \in 1..n : BelievedIn(g, k, p)})

VotesInOrder(g, n) ==
  /\ g.players = Seats
  /\ g.rounds = {RoundAt(k) : k \in 1..n}
  /\ \A v \in SeatVotes(g) : v.number \in 1..n /\ IsPlayer(g, v.by)
  /\ \A v, w \in SeatVotes(g) : v.by = w.by /\ v.number = w.number => v = w

-----------------------------------------------------------------------------
(* What is in memory, beside the rows of g when t has been told             *)

\* The vote is not inserted yet, the points are not added yet.
Casting(c) == c.task = "addVote" /\ c.pc \in {"load", "insert"} /\ c.who \in Seats
Awarding(c) == c.task = "addScore" /\ c.pc = "load"

\* A round is being opened; or nothing goes on but, it may be, a count of votes.
Opening(r) == r.pc \in {"round.create", "round.save"}
Polling(r) == r.pc \in {"idle", "votes.count"}

ToScore(r, p) == r.pc = "score" /\ p \in r.todo

\* The points of the round are still to come for p.
Unscored(p) ==
  \/ \E h \in Handlers : ToScore(req[h], p)
  \/ \E j \in Jobs : Awarding(job[j]) /\ job[j].who = p

\* The rounds whose points p may have.
Counted(p) == IF Tallied(told, ids.round) /\ ~Unscored(p) THEN ids.round ELSE ids.round - 1

Limit == [p \in Seats |-> DueUpTo(db, Counted(p), p)]

\* A copy of the game has the rows of the tables, and no score beyond the limit.
CopyTallied(c, g, limit) ==
  /\ c.players = Seats /\ c.rounds = g.rounds /\ SeatVotes(c) = SeatVotes(g)
  /\ \A p \in Seats : c.score[p] <= limit[p]

RequestTallied(r, g, n, t, limit) ==
  /\ r.pc \notin {"update.preload", "update.save"}
  /\ r.pc \in {"start.preload", "start.save", "round.create", "round.save", "score", "end.save"} =>
       CopyTallied(r.view, g, limit)
  /\ r.pc = "votes.count" => r.round = RoundAt(n) /\ ~Tallied(t, n)
  /\ r.pc = "score" => r.round = RoundAt(n) /\ Tallied(t, n) /\ r.todo \subseteq Seats

CallTallied(c, g, n, t, limit) ==
  /\ c.task \in {"switchSubstate", "switchState"} /\ c.pc # "load" =>
       CopyTallied(c.view, g, limit)
  /\ c.task \in {"addAnswer", "addVote", "addScore"} /\ c.pc # "load" =>
       /\ \A v \in c.view.votes : v.by = c.who
       /\ c.who \in Seats => /\ c.view.votes = RowsOf(g.votes, c.who)
                             /\ c.view.score[c.who] <= limit[c.who]
  /\ c.task = "addScore" => c.who \in Seats
  /\ Casting(c) => n > 0 /\ c.round = RoundAt(n) /\ IsPlayer(g, c.who) /\ ~VotedIn(g, n, c.who)
  /\ Awarding(c) =>
       /\ Tallied(t, n)
       /\ DueUpTo(g, n - 1, c.who) + c.points = DueUpTo(g, n, c.who)

\* Which handlers and calls are never in progress together.
Apart ==
  /\ \A k, h \in Handlers : req[k] # Idle /\ req[h] # Idle => k = h
  /\ \A h \in Handlers, j \in Jobs :
       job[j] # NoJob =>
         /\ ~Opening(req[h])
         /\ Casting(job[j]) => Polling(req[h])
         /\ Awarding(job[j]) => ~ToScore(req[h], job[j].who)
  /\ \A i, j \in Jobs :
       /\ Casting(job[j]) /\ job[i] # NoJob => i = j
       /\ Awarding(job[i]) /\ Awarding(job[j]) /\ job[i].who = job[j].who => i = j

\* Played in turn with no call awaited, whatever ids the players have, all copies have
\* the votes and the rounds of the tables, and in none has a player more points than
\* the tallied votes give: submitVote, addScoreToPlayer and the switches save what they
\* loaded before others did.
TallyInOrder ==
  /\ VotesInOrder(db, ids.round)
  /\ \A a \in told : a.event = "allVotesSubmitted" => a.number <= ids.round
  /\ Tallied(told, ids.round) => \A p \in Seats : VotedIn(db, ids.round, p)
  /\ \A p \in Seats : db.score[p] <= Limit[p]
  /\ Apart
  /\ \A h \in Handlers : RequestTallied(req[h], db, ids.round, told, Limit)
  /\ \A j \in Jobs : CallTallied(job[j], db, ids.round, told, Limit)

-----------------------------------------------------------------------------
(* The order in which rounds are asked and tallied                          *)

\* Answers and votes are taken after the prompt of the last round, a topic is asked for
\* when all rounds that were asked are tallied.
PhaseInOrder(g, n, t) ==
  /\ g.substate \in {"giving_answer", "voting"} => n > 0 /\ Asked(t, n)
  /\ g.substate = "choosing_topic" \/ g.status = "preparing" => AllTallied(t)

AnnouncedInOrder(n, t) ==
  /\ \A a \in t : a.event = "answerPrompt" =>
       a.number \in 1..n /\ (a.number < n => Tallied(t, a.number))
  /\ \A a \in t : a.event = "allVotesSubmitted" => Asked(t, a.number)

RequestAsked(r, g, n, t) ==
  /\ r.pc \in {"start.preload", "start.save", "round.create", "end.save"} =>
       PhaseInOrder(r.view, n, t)
  /\ r.pc \in {"start.preload", "start.save", "topics"} => AllTallied(t)
  /\ Opening(r) => /\ g.substate = "choosing_topic" /\ r.view.status # "preparing"
                  /\ \A p \in Seats : r.view.score[p] = g.score[p]
  /\ r.pc = "round.save" => n > 0 /\ r.round = RoundAt(n) /\ ~Asked(t, n)
                            /\ r.view.substate = "giving_answer"
  /\ r.pc \in {"answers.count", "votes.count"} => n > 0 /\ Asked(t, n)

CallAsked(c, n, t) ==
  /\ c.task \in {"switchSubstate", "switchState"} =>
       /\ c.pc # "load" => PhaseInOrder(c.view, n, t)
       /\ c.to \in {"giving_answer", "voting"} => n > 0 /\ Asked(t, n)
       /\ c.to = "choosing_topic" => AllTallied(t)
  /\ Casting(c) => Asked(t, n)

\* Played in turn, a round is asked when all that were asked before are tallied, and
\* votes are stored for rounds that were asked: a switch that comes late, from a game
\* loaded before, takes the room neither past a vote nor back to one.
AsksInOrder ==
  /\ \A v \in SeatVotes(db) : Asked(told, v.number)
  /\ PhaseInOrder(db, ids.round, told)
  /\ AnnouncedInOrder(ids.round, told)
  /\ \A h \in Handlers : RequestAsked(req[h], db, ids.round, told)
  /\ \A j \in Jobs : CallAsked(job[j], ids.round, told)
=============================================================================
