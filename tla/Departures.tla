------------------------------ MODULE Departures ------------------------------
(***************************************************************************)
(* GameLoop with players who leave the game they play, by the command or by *)
(* losing their socket.                                                     *)
(*                                                                         *)
(* leaveGame decides on the game it has loaded, and starts two calls that   *)
(* nobody awaits: one deletes the player's row softly, the other saves the  *)
(* loaded game, that player included.  Whichever ends last wins, and so do  *)
(* the handlers and calls of GameLoop that hold an older copy: saving a     *)
(* player undeletes the row, and saving a game unlinks the players it does  *)
(* not list.  A departure may have loaded the game before its start; only   *)
(* the host's, who hands the game over as long as it is not started, is of  *)
(* GameLobby, where hosts change.                                           *)
(***************************************************************************)
EXTENDS GameLoopInvariant, TurnPlay

CONSTANT Leavers   \* the departures of a run

VARIABLES
  deleted,    \* seats whose row of the player table is soft-deleted
  loose,      \* seats whose row has lost its link to the game
  dropping,   \* where handleDisconnect waits, for each user
  parting,    \* the un-awaited calls of each departure
  quit        \* history: users who have left

playing == vars
rows    == <<deleted, loose>>
allvars == <<playing, rows, dropping, parting, quit>>

\* Who leaves, whether the row is still to be deleted, and the copy to be saved.
Parting == [who : Users, remove : BOOLEAN, pc : {"idle", "preload", "save", "done"}, view : Game]

NotYet == [who |-> Host, remove |-> FALSE, pc |-> "idle", view |-> NewGame]

DepartInit ==
  /\ Init
  /\ deleted = {} /\ loose = {}
  /\ dropping = [u \in Users |-> "no"]
  /\ parting = [l \in Leavers |-> NotYet]
  /\ quit = {}

(* Where a definition below follows one that names a mistake, the first is the  *)
(* second with that mistake in it, for trying the properties; no specification *)
(* uses it.                                                                    *)

\* What saving the game does to the rows of its players: those listed come back,
\* those a query would have returned and the list lacks lose their link.
Relink ==
  /\ deleted' = deleted \ db'.players
  /\ loose' = (loose \cup db.players) \ db'.players

\* What is under way ends with the process.
Swept ==
  /\ dropping' = [u \in Users |-> IF up' THEN dropping[u] ELSE "no"]
  /\ parting' = [l \in Leavers |-> IF up' \/ parting[l].pc = "idle" THEN parting[l]
                                   ELSE [NotYet EXCEPT !.pc = "done"]]

-----------------------------------------------------------------------------
(* leaveGame                                                                *)

\* The game is aborted whoever leaves.
AbortedByAnyone(g, u) == [g EXCEPT !.status = "aborted"]

\* The game counts as finished.
FinishedByHost(g, u) == IF u = Host THEN [g EXCEPT !.status = "finished"] ELSE g

\* The game is aborted only when nobody is left.
AbortedByLast(g, u) == IF g.players \subseteq {u} THEN [g EXCEPT !.status = "aborted"] ELSE g

\* A started game gets no other host.
AbortedByHost(g, u) == IF u = Host THEN [g EXCEPT !.status = "aborted"] ELSE g

\* The player to delete is looked up by the id of the user, whosever it is.
CanLeave(g, u) == IsPlayer(g, u) /\ u \in g.players

HandsOver(g, u) == u = Host /\ g.status = "preparing"

\* Neither the delete nor the update is awaited.
SetOut(u) ==
  /\ CanLeave(db, u) /\ ~HandsOver(db, u)
  /\ \E l \in Leavers :
       /\ parting[l] = NotYet
       /\ parting' = [parting EXCEPT ![l] = [who |-> u, remove |-> TRUE, pc |-> "preload",
                                             view |-> AbortedByHost(db, u)]]
  /\ quit' = quit \cup {u}

LeaveGame(u) ==
  /\ up /\ Loads
  /\ SetOut(u)
  /\ UNCHANGED <<playing, rows, dropping>>

\* The row of any other player is deleted.
DeleteAnother(l) ==
  /\ parting[l].remove
  /\ \E p \in Seats \ {parting[l].who} :
       /\ db' = [db EXCEPT !.players = @ \ {p}]
       /\ deleted' = deleted \cup {p}
  /\ parting' = [parting EXCEPT ![l].remove = FALSE]
  /\ UNCHANGED <<ids, req, job, told, gamers, up, loose, dropping, quit>>

\* PlayersService.delete
DeletePlayer(l) ==
  /\ parting[l].remove
  /\ db' = [db EXCEPT !.players = @ \ {parting[l].who}]
  /\ deleted' = deleted \cup {parting[l].who}
  /\ parting' = [parting EXCEPT ![l].remove = FALSE]
  /\ UNCHANGED <<ids, req, job, told, gamers, up, loose, dropping, quit>>

\* GamesService.update
LeavePreload(l) ==
  /\ parting[l].pc = "preload"
  /\ parting' = [parting EXCEPT ![l].pc = "save", ![l].view = Preload(db, @)]
  /\ UNCHANGED <<playing, rows, dropping, quit>>

LeaveSave(l) ==
  /\ parting[l].pc = "save"
  /\ db' = Save(db, parting[l].view)
  /\ Relink
  /\ parting' = [parting EXCEPT ![l].pc = "done", ![l].view = NewGame]
  /\ UNCHANGED <<ids, req, job, told, gamers, up, dropping, quit>>

-----------------------------------------------------------------------------
(* handleDisconnect                                                         *)

\* Up to the answer of retrieveCurrentGame; in a game that is over it ends there.
Disconnect(u) ==
  /\ up /\ Loads
  /\ u \in gamers /\ dropping[u] = "no"
  /\ db.status \in {"preparing", "in_progress"} /\ IsPlayer(db, u)
  /\ dropping' = [dropping EXCEPT ![u] = "leave"]
  /\ UNCHANGED <<playing, rows, parting, quit>>

Drop(u) ==
  /\ dropping[u] = "leave"
  /\ SetOut(u)
  /\ dropping' = [dropping EXCEPT ![u] = "read"]
  /\ UNCHANGED <<playing, rows>>

\* The user has left by the command meanwhile: leaveGame throws, and nobody catches
\* what handleDisconnect throws.
DropReject(u) ==
  /\ dropping[u] = "leave" /\ ~CanLeave(db, u)
  /\ Die /\ Swept
  /\ UNCHANGED <<rows, quit>>

\* The room is told of an abortion that is saved by now.
DropRead(u) ==
  /\ dropping[u] = "read"
  /\ gamers' = gamers \ {u}
  /\ told' = told \cup {a \in {Say("gameAborted", 0)} : db.status = "aborted"}
  /\ dropping' = [dropping EXCEPT ![u] = "no"]
  /\ UNCHANGED <<db, ids, req, job, up, rows, parting, quit>>

-----------------------------------------------------------------------------
(* A call about a player whose row is deleted                               *)

Gone(j) == PlayerTask(j) /\ job[j].who \in deleted

\* findOne, and preload, do not find the row, and nobody catches that.
JobRejectGone(j) ==
  /\ Gone(j) /\ job[j].pc \in {"load", "preload"}
  /\ Die

\* A player loaded before is saved with an empty deletedAt.
JobSaveGone(j) ==
  /\ Gone(j) /\ job[j].pc = "save" /\ job[j].ballot # "stray"
  /\ LET p == job[j].who
     IN  /\ db' = [SavePlayer(db, job[j].view, p) EXCEPT !.players = @ \cup ({p} \ loose)]
         /\ deleted' = deleted \ {p}
  /\ job' = [job EXCEPT ![j] = NoJob]
  /\ UNCHANGED <<ids, req, told, gamers, up, loose>>

\* What such a call does all the same: the answer or the vote is inserted.
RunJobAsBefore(j) ==
  /\ Gone(j) => job[j].pc = "insert" \/ job[j].ballot = "stray"
  /\ RunJob(j)

-----------------------------------------------------------------------------
\* GameLoop's own steps leave the departures alone, unless the process ends.
Aside == Relink /\ Swept /\ UNCHANGED quit

Proceed(h) == Continue(h) /\ Aside

RunCall(j) ==
  \/ RunJobAsBefore(j) /\ Aside
  \/ JobRejectGone(j) /\ Aside
  \/ JobSaveGone(j) /\ Swept /\ UNCHANGED quit

Depart(l) == DeletePlayer(l) \/ LeavePreload(l) \/ LeaveSave(l)

DropOut(u) == Drop(u) \/ DropReject(u) \/ DropRead(u)

GoOn ==
  \/ \E h \in Handlers : Proceed(h)
  \/ \E j \in Jobs : RunCall(j)
  \/ Process /\ Aside
  \/ \E l \in Leavers : Depart(l)
  \/ \E u \in Users : LeaveGame(u) \/ Disconnect(u) \/ DropOut(u)

DepartNext == GoOn \/ \E h \in Handlers : Arrive(h) /\ Aside

DepartSpec == DepartInit /\ [][DepartNext]_allvars

\* Players who keep to their turns as long as they stay.
DepartTurnNext == GoOn \/ \E h \in Handlers : TakeTurn(h) /\ Aside

FairDepartTurnSpec ==
  /\ DepartInit /\ [][DepartTurnNext]_allvars
  /\ \A h \in Handlers : WF_allvars(Proceed(h))
  /\ \A j \in Jobs : WF_allvars(RunCall(j))
  /\ \A l \in Leavers : WF_allvars(Depart(l))
  /\ \A u \in Users : WF_allvars(DropOut(u))

-----------------------------------------------------------------------------
(* Properties                                                               *)

\* A departure under way, when q have left and t has been told.
PartingOK(part, q, t, i) ==
  /\ part \in Parting
  /\ GameOK(part.view, t, i)
  /\ part.remove \/ part.pc \in {"preload", "save"} => part.who \in q
  /\ part.remove => part.who \in Seats
  /\ part.pc \in {"preload", "save"} /\ Started(part.view) => Begun(t)

\* The players that go when q leave: those with the users' numbers, whosever they are.
Struck(q) == {p \in Profiles : p \in q}

\* What is asked of every copy of the game when q have left: it lists seats, all but
\* those that go with q, and is aborted only if the host is among q.
Kept(g, q) ==
  /\ g.players \subseteq Seats
  /\ Seats \ g.players \subseteq Struck(q)
  /\ g.status = "aborted" => Host \in q

LoopKept ==
  /\ Kept(db, quit)
  /\ \A h \in Handlers : Kept(req[h].view, quit)
  /\ \A j \in Jobs : SwitchTask(j) => Kept(job[j].view, quit)
  /\ Say("gameAborted", 0) \in told => Host \in quit

CopiesKept ==
  /\ LoopKept
  /\ \A l \in Leavers : Kept(parting[l].view, quit)

\* Rows that vanish under a handler and come back by one of five kinds of save leave
\* the invariant of GameLoop as it is.  Every seat is taken, or its row is deleted or
\* unlinked, and the copies of the game that handlers, calls and departures hold are
\* good ones.
DepartInv ==
  /\ IInv
  /\ CopiesKept
  /\ Seats = db.players \cup deleted \cup loose
  /\ db.players \cap (deleted \cup loose) = {}
  /\ dropping \in [Users -> {"no", "leave", "read"}]
  /\ parting \in [Leavers -> Parting]
  /\ \A l \in Leavers : PartingOK(parting[l], quit, told, ids)
  /\ quit \subseteq Users

\* Copies of the game cross in every order, and any of them may carry the status.  No
\* game is aborted, and no room is told so, unless its host has left.
AbortedOnlyByHost ==
  db.status = "aborted" \/ Say("gameAborted", 0) \in told => Host \in quit

\* Lists of players that are older or newer than a departure are saved over each other.
\* No seat is emptied but those that have the number of a user who left.  That is what
\* leaveGame goes by: the seat may be another user's, who loses it without leaving, but
\* never one of which no user who left has the number.
OnlyNumberedSeatsEmpty == Seats \ db.players \subseteq Struck(quit)

\* Once the host has left a started game, that game is aborted, if not for good (a
\* handler that crosses may write back that it is in progress), unless the process
\* ends before.
HostEndsGame ==
  \A l \in Leavers :
    (parting[l].who = Host /\ parting[l].pc \in {"preload", "save"})
      ~> (db.status = "aborted" \/ ~up)
=============================================================================
