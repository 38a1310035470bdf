------------------------------ MODULE GameStore ------------------------------
(***************************************************************************)
(* The rows of one game and what the object-relational mapper does with    *)
(* them, as the services under src/ use it.                                *)
(*                                                                         *)
(* A query for a game returns the whole graph that hangs from its row: the *)
(* columns, the host, the players with their scores, answers and votes,    *)
(* and the rounds.  The services keep that graph in a local variable over  *)
(* the awaits that follow, so a value of type Game is both what the tables *)
(* hold and what a handler remembers of them.                              *)
(***************************************************************************)
EXTENDS Naturals, FiniteSets

CONSTANTS
  Users,         \* ids of registered users
  Profiles,      \* ids of the rows of the player table, those of other games included
  Owner,         \* the user each profile belongs to
  Host,          \* the user who hosts the game
  Seats,         \* the profiles that sit in this game
  TotalRounds,   \* the column totalRounds of the game
  Relations,     \* relation paths a query for a game resolves and fills
  InOrder        \* a query lists a collection in the order its rows were inserted

ASSUME UsersAssumption  == Host \in Users
ASSUME OwnerAssumption  == Owner \in [Profiles -> Users]
ASSUME SeatsAssumption  == Seats \subseteq Profiles /\ IsFiniteSet(Seats)
ASSUME RoundsAssumption == TotalRounds \in Nat \ {0}
ASSUME InOrderAssumption == InOrder \in BOOLEAN

GameState    == {"preparing", "in_progress", "aborted", "final_results", "finished"}
GameSubstate == {"n/a", "choosing_topic", "giving_answer", "voting", "showing_results"}

-----------------------------------------------------------------------------
(* Rows.  Ids grow in the order of insertion.  Only the order of the rounds   *)
(* and that of one profile's answers, or votes, is ever looked at, so each of *)
(* these has ids of its own.  What a player typed is not kept: an answer equal *)
(* to the correct one is turned away before anything is stored, and nothing    *)
(* else in a game looks at the text.                                        *)

NoAnswer == 0    \* a null answer_id

Round  == [id : Nat, number : Nat]
Answer == [id : Nat, by : Profiles, round : Round]
Vote   == [id : Nat, by : Profiles, number : Nat, right : BOOLEAN, answer : Nat]

Game == [status : GameState, substate : GameSubstate,
         players : SUBSET Profiles, score : [Profiles -> Nat],
         rounds : SUBSET Round, answers : SUBSET Answer, votes : SUBSET Vote]

NewGame == [status |-> "preparing", substate |-> "n/a",
            players |-> Seats, score |-> [p \in Profiles |-> 0],
            rounds |-> {}, answers |-> {}, votes |-> {}]

NoRound == [id |-> 0, number |-> 0]

-----------------------------------------------------------------------------
(* The mapper.  `save` makes the tables equal to the object it is given: a  *)
(* child row the object's collection does not list loses its link, a column *)
(* that differs is overwritten.  `preload` builds that object from a stale  *)
(* one: the columns are those of the stale object, a collection is that of  *)
(* the tables with the stale object's members added.                        *)

\* The rows of profiles that do not sit in the game are not of its graph.
Elsewhere(rows, g) == {r \in rows : r.by \notin g.players}

Merged(db, g) == [p \in Profiles |-> IF p \in g.players THEN g.score[p] ELSE db.score[p]]

Save(db, g) ==
  [g EXCEPT !.score   = Merged(db, g),
            !.answers = (@ \ Elsewhere(@, g)) \cup Elsewhere(db.answers, g),
            !.votes   = (@ \ Elsewhere(@, g)) \cup Elsewhere(db.votes, g)]

Preload(db, g) ==
  [g EXCEPT !.players = @ \cup db.players,
            !.score   = Merged(db, g),
            !.rounds  = @ \cup db.rounds,
            !.answers = @ \cup db.answers,
            !.votes   = @ \cup db.votes]

\* The same two for one row of the player table: what a query for profile p
\* returns, the object preload makes of it, and what saving it leaves.
RowsOf(rows, p) == {r \in rows : r.by = p}

PlayerView(db, p) ==
  [NewGame EXCEPT !.players = {p}, !.score[p] = db.score[p],
                  !.answers = RowsOf(db.answers, p), !.votes = RowsOf(db.votes, p)]

PreloadPlayer(db, g, p) ==
  [g EXCEPT !.answers = @ \cup RowsOf(db.answers, p),
            !.votes   = @ \cup RowsOf(db.votes, p)]

SavePlayer(db, g, p) ==
  [db EXCEPT !.score[p] = g.score[p],
             !.answers  = (@ \ RowsOf(@, p)) \cup g.answers,
             !.votes    = (@ \ RowsOf(@, p)) \cup g.votes]

-----------------------------------------------------------------------------
(* What the services read from a loaded game.                               *)

\* A query that names a relation the entity does not declare is refused.
Loads == "players" \in Relations

IsPlayer(g, u) == \E p \in g.players : Owner[p] = u

\* The round at the end of the list of the game's rounds.  No query asks for an
\* order: unless the database keeps that of insertion, it may be any of them.
CurrentRounds(g) == {r \in g.rounds : InOrder => \A q \in g.rounds : q.id <= r.id}

\* Likewise the row at the head of a list.
Firsts(rows) == {r \in rows : InOrder => \A q \in rows : r.id <= q.id}

AnswersOfRound(g, r) == {a \in g.answers : a.by \in g.players /\ a.round.id = r.id}
VotesOfRound(g, n)   == {v \in g.votes : v.by \in g.players /\ v.number = n}

VotesForAnswer(db, a) == {v \in db.votes : v.answer = a.id}
=============================================================================
