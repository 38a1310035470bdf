------------------------------ MODULE GameLobby ------------------------------
(***************************************************************************)
(* Who sits in a game: creating, joining, updating, starting and leaving    *)
(* it, by GamesService, and the sockets and the room of the games gateway.  *)
(*                                                                         *)
(* A command loads the game with its players, decides, and saves it some    *)
(* awaits later over whatever was saved in between.  Leaving does not even  *)
(* wait: it deletes the player and saves the game beside itself, and a      *)
(* failure of either ends the process.                                      *)
(***************************************************************************)
EXTENDS Naturals, FiniteSets, Sequences

CONSTANTS
  Users,         \* ids of registered users
  Friends,       \* sets of two users who are friends
  Handlers,      \* slots for commands in progress
  Leavers,       \* slots for what leaveGame does not wait for
  Online,        \* users who open a socket
  Sizes,         \* sizes a host may choose
  Settings,      \* visibilities and states a host may choose
  MaxCommands,   \* commands, and sockets lost, in a run
  MaxStops       \* how often the process ends in a run

ASSUME UsersAssumption    == Users \subseteq Nat \ {0}
ASSUME FriendsAssumption  == Friends \subseteq SUBSET Users
ASSUME OnlineAssumption   == Online \subseteq Users
ASSUME SizesAssumption    == Sizes \subseteq Nat \ {0}
ASSUME CommandsAssumption == MaxCommands \in Nat
ASSUME StopsAssumption    == MaxStops \in Nat

VARIABLES
  game,       \* the row of the game, with the players that link to it
  profile,    \* the player table: the user of each row, at the place of its id
  gone,       \* rows of the player table that are soft-deleted
  req,        \* the commands in progress
  leaving,    \* the un-awaited calls in progress
  gamers,     \* users with an entry in the gateway's map of sockets
  open,       \* users whose socket is open
  room,       \* users whose socket is in the game's room
  up,         \* the process is running
  stops,      \* how often it has ended
  asked,      \* how many commands there have been
  welcome,    \* history: users who created the game, or whom it was open to when they asked
  crossed     \* history: rows that took a seat while a copy without them was being saved

vars == <<game, profile, gone, req, leaving, gamers, open, room, up, stops, asked, welcome, crossed>>

tables == <<game, profile, gone, crossed>>
serving == <<gamers, open, room, up, stops>>
process == <<serving, asked>>

GameState  == {"preparing", "in_progress", "aborted"}
Visibility == {"public", "private", "friends_only"}

ASSUME SettingsAssumption == Settings \subseteq GameState \cup Visibility

Nobody == 0

Game == [status : GameState, host : Users \cup {Nobody}, visibility : Visibility,
         size : Nat, players : SUBSET (Nat \ {0})]

NoGame == [status |-> "preparing", host |-> Nobody, visibility |-> "public", size |-> 0,
           players |-> {}]

(* A command waits at pc with the game it has loaded and changed.  What      *)
(* leaveGame leaves behind is a row to delete, and a copy to save.           *)

Request == [pc : {"idle", "create", "friends", "profile", "preload", "save", "start.preload",
                  "start.save", "drop", "drop.read"},
            user : Users \cup {Nobody}, view : Game]

Idle == [pc |-> "idle", user |-> Nobody, view |-> NoGame]

Leaving == [remove : Nat, pc : {"idle", "preload", "save"}, view : Game]

Done == [remove |-> 0, pc |-> "idle", view |-> NoGame]

Init ==
  /\ game = NoGame /\ profile = <<>> /\ gone = {}
  /\ req = [h \in Handlers |-> Idle]
  /\ leaving = [l \in Leavers |-> Done]
  /\ gamers = {} /\ open = {} /\ room = {}
  /\ up = TRUE /\ stops = 0 /\ asked = 0
  /\ welcome = {} /\ crossed = {}

(* Where a definition below follows one that names a mistake, the first is the  *)
(* second with that mistake in it, for trying the properties; no specification *)
(* uses it.                                                                    *)

-----------------------------------------------------------------------------
(* The mapper.  A query returns no row that is soft-deleted.  Saving a game  *)
(* unlinks the players it would return and the saved object does not have,   *)
(* and undeletes those the object has, as it carries their empty deletedAt.  *)
(* The unique pair of user and game counts deleted rows.                     *)

Exists == game.host # Nobody

Seated == game.players \ gone

Loaded == [game EXCEPT !.players = Seated]

\* The players who joined since the object was loaded are forgotten.
PreloadNobody(g) == g

Preload(g) == [g EXCEPT !.players = @ \cup Seated]

Linked(g) == g.players \cup (game.players \cap gone)

Savable(g) == \A p, q \in Linked(g) : profile[p] = profile[q] => p = q

\* The copies of the game that have been preloaded and are to be saved.
AtSave ==
  {req[h].view : h \in {k \in Handlers : req[k].pc \in {"save", "start.save"}}}
    \cup {leaving[l].view : l \in {m \in Leavers : leaving[m].pc = "save"}}

Save(g) ==
  /\ game' = [g EXCEPT !.players = Linked(g)]
  /\ gone' = gone \ g.players
  /\ crossed' = crossed \cup {p \in Seated' \ Seated : \E c \in AtSave : p \notin c.players}

-----------------------------------------------------------------------------
(* The validators, on a loaded game                                         *)

IsPlayer(g, u) == \E p \in g.players : profile[p] = u

\* A game with every seat taken has room for one more.
HasCapacityLate(g) == Cardinality(g.players) <= g.size

HasCapacity(g) == Cardinality(g.players) < g.size

\* Any friend of somebody is a friend of the host.
IsFriendOfSomebody(g, u) == \E v \in Users : {u, v} \in Friends

IsFriendOfHost(g, u) == {u, g.host} \in Friends

MinimumPlayers(g) == Cardinality(g.players) >= 2

-----------------------------------------------------------------------------
(* The commands                                                             *)

Asks == up /\ asked < MaxCommands /\ asked' = asked + 1

Arrives(h) == req[h] = Idle /\ Asks

Await(h, pc, u, view) == req' = [req EXCEPT ![h] = [pc |-> pc, user |-> u, view |-> view]]

Reply(h) == req' = [req EXCEPT ![h] = Idle]

\* createGameWithHost: the host's player first, then the game
CreateGame(h, u) ==
  /\ Arrives(h)
  /\ ~Exists /\ \A k \in Handlers : req[k].pc # "create"
  /\ profile' = Append(profile, u)
  /\ \E n \in Sizes, x \in Settings \cap Visibility :
       Await(h, "create", u, [NoGame EXCEPT !.host = u, !.size = n, !.visibility = x,
                                            !.players = {Len(profile) + 1}])
  /\ UNCHANGED <<game, gone, crossed, leaving, serving, welcome>>

InsertGame(h) ==
  /\ req[h].pc = "create"
  /\ Save(req[h].view)
  /\ welcome' = welcome \cup {req[h].user}
  /\ Reply(h)
  /\ UNCHANGED <<profile, leaving, process>>

Open(g, u) ==
  /\ g.status = "preparing" /\ Cardinality(g.players) < g.size
  /\ g.visibility = "public" \/ (g.visibility = "friends_only" /\ {u, g.host} \in Friends)

JoinGame(h, u) ==
  /\ Arrives(h) /\ Exists
  /\ game.status = "preparing"
  /\ ~IsPlayer(Loaded, u)
  /\ HasCapacity(Loaded)
  /\ \/ game.visibility = "public" /\ Await(h, "profile", u, Loaded)
     \/ game.visibility = "friends_only" /\ Await(h, "friends", u, Loaded)
  /\ welcome' = welcome \cup {v \in {u} : Open(Loaded, v)}
  /\ UNCHANGED <<tables, leaving, serving>>

CheckFriend(h) ==
  /\ req[h].pc = "friends"
  /\ IF IsFriendOfHost(req[h].view, req[h].user)
     THEN Await(h, "profile", req[h].user, req[h].view)
     ELSE Reply(h)
  /\ UNCHANGED <<tables, leaving, process, welcome>>

CreateProfile(h) ==
  /\ req[h].pc = "profile"
  /\ profile' = Append(profile, req[h].user)
  /\ Await(h, "preload", req[h].user, [req[h].view EXCEPT !.players = @ \cup {Len(profile) + 1}])
  /\ UNCHANGED <<game, gone, crossed, leaving, process, welcome>>

\* What the input leaves out stays as it was.
UpdateGame(h, u) ==
  /\ Arrives(h) /\ Exists
  /\ game.host = u
  /\ \E n \in Sizes \cup {game.size}, x \in (Settings \cap Visibility) \cup {game.visibility},
        s \in (Settings \cap GameState) \cup {game.status} :
       Await(h, "preload", u, [Loaded EXCEPT !.size = n, !.visibility = x, !.status = s])
  /\ UNCHANGED <<tables, leaving, serving, welcome>>

StartGame(h, u) ==
  /\ Arrives(h) /\ Exists
  /\ game.host = u /\ game.status = "preparing"
  /\ MinimumPlayers(Loaded)
  /\ Await(h, "start.preload", u, [Loaded EXCEPT !.status = "in_progress"])
  /\ UNCHANGED <<tables, leaving, serving, welcome>>

\* GenericCrudService.update
UpdatePreload(h) ==
  /\ \/ req[h].pc = "preload" /\ Await(h, "save", req[h].user, Preload(req[h].view))
     \/ req[h].pc = "start.preload" /\ Await(h, "start.save", req[h].user, Preload(req[h].view))
  /\ UNCHANGED <<tables, leaving, process, welcome>>

\* A save that is refused changes nothing, and the client gets the exception.
UpdateSave(h) ==
  /\ req[h].pc \in {"save", "start.save"}
  /\ IF Savable(req[h].view) THEN Save(req[h].view) ELSE UNCHANGED <<game, gone, crossed>>
  /\ Reply(h)
  /\ UNCHANGED <<profile, leaving, process, welcome>>

-----------------------------------------------------------------------------
(* leaveGame, by command or by losing the socket                            *)

\* Whoever is a player leaves, whether or not there is a row of that id.
CanLeaveAlways(g, u) == IsPlayer(g, u)

\* The player to delete is looked up by the id of the user.
CanLeave(g, u) == IsPlayer(g, u) /\ u \in g.players

\* A host who leaves makes another player host, who is to start the game anew.
HostLeftReopened(g, u) ==
  LET others == {p \in g.players : profile[p] # u}
  IN  IF g.host # u THEN {g}
      ELSE IF others = {} THEN {[g EXCEPT !.status = "aborted"]}
      ELSE {[g EXCEPT !.host = profile[p], !.status = "preparing"] : p \in others}

\* A host who leaves makes another player host, or the game is aborted.
HostLeft(g, u) ==
  LET others == {p \in g.players : profile[p] # u}
  IN  IF g.host # u THEN {g}
      ELSE IF g.status # "preparing" \/ others = {}
      THEN {[g EXCEPT !.status = "aborted"]}
      ELSE {[g EXCEPT !.host = profile[p]] : p \in others}

\* Neither call is awaited: both go on beside the command.
Leave(u) ==
  /\ CanLeave(Loaded, u)
  /\ \E l \in Leavers, g \in HostLeft(Loaded, u) :
       /\ leaving[l] = Done
       /\ leaving' = [leaving EXCEPT ![l] = [remove |-> u, pc |-> "preload", view |-> g]]

\* The game that the command reads at its end is for its answer only.
LeaveGame(u) ==
  /\ Asks /\ Exists
  /\ Leave(u)
  /\ UNCHANGED <<tables, req, serving, welcome>>

Finish(l, left) ==
  leaving' = [leaving EXCEPT ![l] = IF left.remove = 0 /\ left.pc = "idle" THEN Done ELSE left]

DeletePlayer(l) ==
  /\ leaving[l].remove # 0
  /\ gone' = gone \cup {leaving[l].remove}
  /\ Finish(l, [leaving[l] EXCEPT !.remove = 0])
  /\ UNCHANGED <<game, profile, crossed, req, process, welcome>>

LeavePreload(l) ==
  /\ leaving[l].pc = "preload"
  /\ Finish(l, [leaving[l] EXCEPT !.pc = "save", !.view = Preload(@)])
  /\ UNCHANGED <<tables, req, process, welcome>>

LeaveSave(l) ==
  /\ leaving[l].pc = "save"
  /\ Savable(leaving[l].view)
  /\ Save(leaving[l].view)
  /\ Finish(l, [leaving[l] EXCEPT !.pc = "idle", !.view = NoGame])
  /\ UNCHANGED <<profile, req, process, welcome>>

-----------------------------------------------------------------------------
(* Sockets, the room, and the process                                       *)

\* handleConnection
Connect(u) ==
  /\ up /\ u \in Online \ open
  /\ open' = open \cup {u} /\ gamers' = gamers \cup {u}
  /\ UNCHANGED <<tables, req, leaving, room, up, stops, asked, welcome>>

\* handleDisconnect, up to the answer of retrieveCurrentGame
Disconnect(h, u) ==
  /\ Arrives(h) /\ u \in open
  /\ open' = open \ {u} /\ room' = room \ {u}
  /\ IF Exists /\ IsPlayer(Loaded, u) /\ game.status \in {"preparing", "in_progress"}
     THEN Await(h, "drop", u, NoGame)
     ELSE UNCHANGED req
  /\ UNCHANGED <<tables, leaving, gamers, up, stops, welcome>>

Drop(h) ==
  /\ req[h].pc = "drop"
  /\ Leave(req[h].user)
  /\ Await(h, "drop.read", req[h].user, NoGame)
  /\ UNCHANGED <<tables, process, welcome>>

\* If the game reads as aborted by then, the room is told and emptied.
DropRead(h) ==
  /\ req[h].pc = "drop.read"
  /\ gamers' = gamers \ {req[h].user}
  /\ room' = IF game.status = "aborted" THEN {} ELSE room
  /\ Reply(h)
  /\ UNCHANGED <<tables, leaving, open, up, stops, asked, welcome>>

\* joinGameRoom
JoinRoom(u) ==
  /\ up /\ u \in open
  /\ Exists /\ IsPlayer(Loaded, u)
  /\ room' = room \cup {u}
  /\ UNCHANGED <<tables, req, leaving, gamers, open, up, stops, asked, welcome>>

\* leaveGameRoom leaves first, and looks who it was afterwards.
LeaveRoom(u) ==
  /\ up /\ u \in room
  /\ room' = room \ {u}
  /\ UNCHANGED <<tables, req, leaving, gamers, open, up, stops, asked, welcome>>

Die ==
  /\ up /\ stops < MaxStops
  /\ up' = FALSE /\ stops' = stops + 1
  /\ req' = [h \in Handlers |-> Idle]
  /\ leaving' = [l \in Leavers |-> Done]
  /\ gamers' = {} /\ open' = {} /\ room' = {}
  /\ UNCHANGED <<tables, asked, welcome>>

\* A handler of a lost socket that cannot leave, or an un-awaited save that is
\* refused, throws where nobody catches.
Reject ==
  /\ \/ \E h \in Handlers : req[h].pc = "drop" /\ ~CanLeave(Loaded, req[h].user)
     \/ \E l \in Leavers : leaving[l].pc = "save" /\ ~Savable(leaving[l].view)
  /\ Die

Stop == Die

\* A socket without a user may end at any moment: handleDisconnect throws for it, too.
DisconnectStranger == Die

Restart ==
  /\ ~up
  /\ up' = TRUE
  /\ UNCHANGED <<tables, req, leaving, gamers, open, room, stops, asked, welcome>>

Continue(h) ==
  \/ InsertGame(h) \/ CheckFriend(h) \/ CreateProfile(h) \/ UpdatePreload(h)
  \/ UpdateSave(h) \/ Drop(h) \/ DropRead(h)

Command(h, u) ==
  \/ CreateGame(h, u) \/ JoinGame(h, u) \/ UpdateGame(h, u) \/ StartGame(h, u)
  \/ Disconnect(h, u)

Next ==
  \/ \E h \in Handlers : Continue(h) \/ \E u \in Users : Command(h, u)
  \/ \E l \in Leavers : DeletePlayer(l) \/ LeavePreload(l) \/ LeaveSave(l)
  \/ \E u \in Users : LeaveGame(u) \/ Connect(u) \/ JoinRoom(u) \/ LeaveRoom(u)
  \/ Reject \/ DisconnectStranger \/ Stop \/ Restart

Spec == Init /\ [][Next]_vars

-----------------------------------------------------------------------------
(* Properties                                                               *)

TypeOK ==
  /\ game \in Game /\ profile \in Seq(Users)
  /\ gone \subseteq DOMAIN profile
  /\ req \in [Handlers -> Request]
  /\ leaving \in [Leavers -> Leaving]
  /\ gamers \subseteq Users /\ open \subseteq Users /\ room \subseteq open
  /\ up \in BOOLEAN /\ stops \in 0..MaxStops /\ asked \in 0..MaxCommands
  /\ welcome \subseteq Users /\ crossed \subseteq DOMAIN profile

\* joinGame checks the game it loaded, three or four awaits before the player is saved.
\* Whoever is, or was, a player has created the game, or found it open to them when
\* they asked: not full, not private, not started, a friend of the host if need be.
OnlyTheWelcomeSit == \A p \in game.players : profile[p] \in welcome

\* Who is in the room hears the game, and is not asked again.  No one hears it whom it
\* was never open to.
OnlyTheWelcomeHear == room \subseteq welcome

\* A command that loaded the game long ago saves it over players who have joined, or have
\* come back, since.  It unlinks a player from the game only if that player took the seat
\* when the command had preloaded the game already and was about to save it.
UnlinkedOnlyByCrossing ==
  [][\A p \in game.players : p \in game'.players \/ p \in crossed]_vars

\* No copy of the game in memory is of the lobby.
InLobby(view) == view.status = "preparing"

Settled ==
  /\ Exists /\ ~InLobby(game)
  /\ \A h \in Handlers :
       req[h].pc \in {"friends", "profile", "preload", "save", "start.preload", "start.save"} =>
         ~InLobby(req[h].view)
  /\ \A l \in Leavers : leaving[l].pc \in {"preload", "save"} => ~InLobby(leaving[l].view)

HostReopens ==
  \E h \in Handlers, u \in Users : UpdateGame(h, u) /\ InLobby(req'[h].view)

\* Joins, updates and departures that loaded the game before its start take it back to the
\* lobby when they save it after.  Once they have ended, none that comes later does, and the
\* game does not return to the lobby but when its host asks for that.
StartUndoneOnlyByCrossing == [][Settled => Settled' \/ HostReopens]_vars

\* A game in memory lists players that have a row in p, each of a user in w.
ViewOK(g, p, w) == g.players \subseteq DOMAIN p /\ \A i \in g.players : p[i] \in w

\* A command in progress, when p are the players, w the welcome, and there is a game or not.
RequestOK(r, p, w, there) ==
  /\ r.pc # "idle" => r.user \in Users
  /\ IF r.pc = "create"
     THEN /\ ~there /\ r.view.host # Nobody
          /\ \E i \in DOMAIN p : r.view.players = {i} /\ p[i] = r.user
     ELSE ViewOK(r.view, p, w)
  /\ r.pc \in {"friends", "profile", "preload", "save", "start.preload", "start.save"} =>
       there /\ r.view.host # Nobody
  /\ r.pc = "friends" /\ {r.user, r.view.host} \in Friends => r.user \in w
  /\ r.pc = "profile" => r.user \in w

LeavingOK(c, p, w, there) ==
  /\ c.remove # 0 => c.remove \in DOMAIN p
  /\ ViewOK(c.view, p, w)
  /\ c.pc \in {"preload", "save"} => there /\ c.view.host # Nobody

\* A save may be of a game loaded any time ago, so every copy of it in memory lists only
\* players who were welcome.  A join that waits for the lookup of a friendship was welcome if
\* it is found; only a creation is in progress without a game, and only one.
IInv ==
  /\ TypeOK /\ OnlyTheWelcomeHear
  /\ ViewOK(game, profile, welcome)
  /\ ~Exists => game.players = {}
  /\ \A h \in Handlers : RequestOK(req[h], profile, welcome, Exists)
  /\ \A h, k \in Handlers : req[h].pc = "create" /\ req[k].pc = "create" => h = k
  /\ \A l \in Leavers : LeavingOK(leaving[l], profile, welcome, Exists)
=============================================================================
