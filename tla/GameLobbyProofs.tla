---------------------------- MODULE GameLobbyProofs ----------------------------
(***************************************************************************)
(* Proofs about the lobby, for any number of users, commands and departures *)
(* at a time, and stops: nobody sits in the game or hears it whom it was     *)
(* never open to, no player is unlinked but by commands that cross, and no   *)
(* start is undone by a command that began after it.                        *)
(***************************************************************************)
EXTENDS GameLobby, FiniteSetTheorems, TLAPS

\* Players are only added to the table.
Grows(p, p2) == DOMAIN p \subseteq DOMAIN p2 /\ \A i \in DOMAIN p : p2[i] = p[i]

\* What the invariant asks of the sockets and counters.
ServingOK ==
  /\ gamers \subseteq Users /\ open \subseteq Users /\ room \subseteq open
  /\ room \subseteq welcome
  /\ up \in BOOLEAN /\ stops \in 0..MaxStops /\ asked \in 0..MaxCommands

\* What it asks of the tables.
TablesOK ==
  /\ game \in Game /\ profile \in Seq(Users) /\ gone \subseteq DOMAIN profile
  /\ welcome \subseteq Users
  /\ crossed \subseteq DOMAIN profile
  /\ ViewOK(game, profile, welcome)
  /\ ~Exists => game.players = {}

-----------------------------------------------------------------------------
(* The invariant and its parts                                              *)

LEMMA NothingIsOK ==
  /\ NoGame \in Game /\ Idle \in Request /\ Idle.pc = "idle"
  /\ Done \in Leaving /\ Done.remove = 0 /\ Done.pc = "idle"
  /\ \A p, w, there : RequestOK(Idle, p, w, there) /\ LeavingOK(Done, p, w, there)
<1>1. NoGame \in Game /\ NoGame.players = {}
  BY DEF NoGame, Game, GameState, Visibility
<1>2. Idle \in Request /\ Done \in Leaving
  BY <1>1 DEF Idle, Request, Done, Leaving
<1>3. QED
  BY <1>1, <1>2 DEF Idle, Done, RequestOK, LeavingOK, ViewOK

LEMMA Parts ==
  IInv <=> /\ TablesOK /\ ServingOK
           /\ req \in [Handlers -> Request] /\ leaving \in [Leavers -> Leaving]
           /\ \A h \in Handlers : RequestOK(req[h], profile, welcome, Exists)
           /\ \A h, k \in Handlers : req[h].pc = "create" /\ req[k].pc = "create" => h = k
           /\ \A l \in Leavers : LeavingOK(leaving[l], profile, welcome, Exists)
BY DEF IInv, TypeOK, TablesOK, ServingOK, OnlyTheWelcomeHear

\* Rows have ids from one on.
LEMMA Profiles ==
  ASSUME IInv
  PROVE  /\ profile \in Seq(Users) /\ Len(profile) \in Nat
         /\ DOMAIN profile = 1 .. Len(profile)
         /\ DOMAIN profile \subseteq Nat \ {0}
         /\ \A i \in DOMAIN profile : profile[i] \in Users
<1>1. profile \in Seq(Users)
  BY Parts DEF TablesOK
<1>2. QED
  BY <1>1

LEMMA InitOK ==
  ASSUME Init
  PROVE  IInv
<1>1. /\ game = NoGame /\ NoGame.players = {} /\ NoGame.host = Nobody
      /\ profile = <<>> /\ gone = {} /\ welcome = {} /\ crossed = {}
      /\ req = [h \in Handlers |-> Idle] /\ leaving = [l \in Leavers |-> Done]
  BY DEF Init, NoGame
<1>2. TablesOK
  BY <1>1, NothingIsOK DEF TablesOK, ViewOK
<1>3. ServingOK
  BY StopsAssumption, CommandsAssumption DEF Init, ServingOK
<1>4. /\ req \in [Handlers -> Request] /\ leaving \in [Leavers -> Leaving]
      /\ \A h \in Handlers : RequestOK(req[h], profile, welcome, Exists) /\ req[h].pc # "create"
      /\ \A l \in Leavers : LeavingOK(leaving[l], profile, welcome, Exists)
  BY <1>1, NothingIsOK
<1>5. QED
  BY <1>2, <1>3, <1>4, Parts

-----------------------------------------------------------------------------
(* What is in progress stays all right while the rest goes on               *)

LEMMA ViewLater ==
  ASSUME NEW g, NEW p, NEW w, NEW p2, NEW w2, Grows(p, p2), w \subseteq w2, ViewOK(g, p, w)
  PROVE  ViewOK(g, p2, w2)
BY DEF Grows, ViewOK

LEMMA RequestLater ==
  ASSUME NEW r, NEW p, NEW w, NEW b \in BOOLEAN, NEW p2, NEW w2, NEW b2 \in BOOLEAN,
         Grows(p, p2), w \subseteq w2, b => b2, r.pc = "create" => ~b2,
         RequestOK(r, p, w, b)
  PROVE  RequestOK(r, p2, w2, b2)
<1>1. r.pc # "create" => ViewOK(r.view, p2, w2)
  BY ViewLater DEF RequestOK
<1>2. r.pc = "create" => \E i \in DOMAIN p2 : r.view.players = {i} /\ p2[i] = r.user
  BY DEF RequestOK, Grows
<1>3. QED
  BY <1>1, <1>2 DEF RequestOK

LEMMA LeavingLater ==
  ASSUME NEW c, NEW p, NEW w, NEW b \in BOOLEAN, NEW p2, NEW w2, NEW b2 \in BOOLEAN,
         Grows(p, p2), w \subseteq w2, b => b2, LeavingOK(c, p, w, b)
  PROVE  LeavingOK(c, p2, w2, b2)
<1>1. ViewOK(c.view, p2, w2)
  BY ViewLater DEF LeavingOK
<1>2. QED
  BY <1>1 DEF LeavingOK, Grows

\* A step keeps the invariant when the tables are right after it, players and the welcome
\* have only become more, and each command or departure is as before or all right.
LEMMA StepOK ==
  ASSUME IInv, TablesOK', ServingOK',
         Grows(profile, profile'), welcome \subseteq welcome', Exists => Exists',
         req' \in [Handlers -> Request], leaving' \in [Leavers -> Leaving],
         \A h \in Handlers :
           \/ req'[h] = req[h] /\ (req[h].pc = "create" => ~Exists')
           \/ /\ RequestOK(req'[h], profile', welcome', Exists')
              /\ req'[h].pc = "create" => \A k \in Handlers \ {h} : req'[k].pc # "create",
         \A l \in Leavers :
           leaving'[l] = leaving[l] \/ LeavingOK(leaving'[l], profile', welcome', Exists')
  PROVE  IInv'
<1> DEFINE b  == Exists
           b2 == Exists'
<1>1. b \in BOOLEAN /\ b2 \in BOOLEAN /\ (b => b2)
  BY DEF Exists
<1> HIDE DEF b, b2
<1>2. ASSUME NEW h \in Handlers
      PROVE  RequestOK(req'[h], profile', welcome', b2)
  <2>1. CASE req'[h] = req[h] /\ (req[h].pc = "create" => ~b2)
    <3>1. RequestOK(req[h], profile, welcome, b)
      BY Parts DEF b
    <3>2. RequestOK(req[h], profile', welcome', b2)
      BY <1>1, <2>1, <3>1, RequestLater
    <3>3. QED
      BY <2>1, <3>2
  <2>2. QED
    BY <2>1 DEF b2
<1>3. ASSUME NEW l \in Leavers
      PROVE  LeavingOK(leaving'[l], profile', welcome', b2)
  <2>1. CASE leaving'[l] = leaving[l]
    <3>1. LeavingOK(leaving[l], profile, welcome, b)
      BY Parts DEF b
    <3>2. LeavingOK(leaving[l], profile', welcome', b2)
      BY <1>1, <3>1, LeavingLater
    <3>3. QED
      BY <2>1, <3>2
  <2>2. QED
    BY <2>1 DEF b2
<1>4. \A h, k \in Handlers : req'[h].pc = "create" /\ req'[k].pc = "create" => h = k
  BY Parts
<1>5. QED
  BY <1>2, <1>3, <1>4 DEF b2, IInv, TypeOK, TablesOK, ServingOK, OnlyTheWelcomeHear

\* A command that comes to wait, or is answered, when the game is as before.
LEMMA WaitKeeps ==
  ASSUME IInv, NEW h \in Handlers, NEW r \in Request, req' = [req EXCEPT ![h] = r],
         UNCHANGED <<game, gone, crossed, leaving>>,
         profile' \in Seq(Users), Grows(profile, profile'),
         welcome \subseteq welcome', welcome' \subseteq Users, ServingOK',
         RequestOK(r, profile', welcome', Exists),
         r.pc = "create" => \A k \in Handlers : req[k].pc # "create"
  PROVE  IInv'
<1>1. /\ req' \in [Handlers -> Request] /\ req'[h] = r
      /\ \A k \in Handlers \ {h} : req'[k] = req[k]
      /\ Exists' = Exists /\ leaving' \in [Leavers -> Leaving]
  BY Parts DEF Exists
<1>2. \A k \in Handlers : req[k].pc = "create" => ~Exists
  BY Parts DEF RequestOK
<1>3. TablesOK'
  <2>1. ViewOK(game, profile', welcome')
    BY ViewLater, Parts DEF TablesOK
  <2>2. gone \subseteq DOMAIN profile' /\ crossed \subseteq DOMAIN profile'
    BY Parts DEF TablesOK, Grows
  <2>3. QED
    BY <2>1, <2>2, Parts DEF TablesOK, Exists
<1>4. QED
  BY <1>1, <1>2, <1>3, StepOK

\* The tables after a save of a game.
LEMMA SaveKeeps ==
  ASSUME IInv, NEW g \in Game, Save(g), profile' = profile,
         welcome \subseteq welcome', welcome' \subseteq Users,
         ViewOK(g, profile, welcome'), g.host # Nobody
  PROVE  TablesOK' /\ Exists'
<1>1. /\ game' = [g EXCEPT !.players = Linked(g)] /\ gone' = gone \ g.players
      /\ Linked(g) = g.players \cup (game.players \cap gone)
      /\ crossed' \subseteq crossed \cup game'.players
  BY DEF Save, Linked, Seated
<1>2. Linked(g) \subseteq DOMAIN profile /\ \A i \in Linked(g) : profile[i] \in welcome'
  BY <1>1, Parts DEF TablesOK, ViewOK
<1>3. game' \in Game /\ game'.players = Linked(g) /\ game'.host # Nobody
  <2>1. Linked(g) \in SUBSET (Nat \ {0})
    BY <1>2, Profiles
  <2> HIDE DEF Linked
  <2>2. QED
    BY <1>1, <2>1 DEF Game
<1>4. QED
  BY <1>1, <1>2, <1>3, Parts DEF TablesOK, ViewOK, Exists

LEMMA ServingKeeps ==
  ASSUME IInv, welcome \subseteq welcome', UNCHANGED <<gamers, open, room, up, stops>>,
         asked' = asked \/ (asked < MaxCommands /\ asked' = asked + 1)
  PROVE  ServingOK'
BY CommandsAssumption, Parts DEF ServingOK

LEMMA AppendGrows ==
  ASSUME IInv, NEW u \in Users
  PROVE  /\ Append(profile, u) \in Seq(Users)
         /\ Grows(profile, Append(profile, u))
         /\ Len(profile) + 1 \in DOMAIN Append(profile, u)
         /\ Append(profile, u)[Len(profile) + 1] = u
         /\ Len(profile) + 1 \in Nat \ {0}
BY Profiles DEF Grows

LEMMA GrowsNot == Grows(profile, profile)
BY DEF Grows

\* What a query returns, or a preload, is a good view of the game.
LEMMA LoadedOK ==
  ASSUME IInv
  PROVE  /\ Loaded \in Game /\ ViewOK(Loaded, profile, welcome)
         /\ Loaded = [game EXCEPT !.players = Loaded.players]
         /\ Loaded.host = game.host /\ Loaded.status = game.status
         /\ Loaded.visibility = game.visibility /\ Loaded.size = game.size
         /\ Loaded.players = Seated /\ Seated \subseteq game.players
BY Parts DEF TablesOK, Loaded, Seated, Game, ViewOK

LEMMA PreloadOK ==
  ASSUME IInv, NEW g \in Game, ViewOK(g, profile, welcome)
  PROVE  /\ Preload(g) \in Game /\ ViewOK(Preload(g), profile, welcome)
         /\ Preload(g).host = g.host /\ g.players \subseteq Preload(g).players
<1>1. Preload(g) = [g EXCEPT !.players = g.players \cup Seated]
  BY DEF Preload
<1>2. ViewOK(Preload(g), profile, welcome) /\ g.players \subseteq Preload(g).players
  BY <1>1, LoadedOK DEF ViewOK, Game
<1>3. g.players \cup Seated \subseteq Nat \ {0}
  BY <1>1, <1>2, Profiles DEF ViewOK, Game
<1>4. QED
  BY <1>1, <1>2, <1>3 DEF Game

LEMMA RequestFields ==
  ASSUME IInv, NEW h \in Handlers
  PROVE  /\ req[h] \in Request /\ req[h].view \in Game /\ req[h].user \in Users \cup {Nobody}
         /\ RequestOK(req[h], profile, welcome, Exists)
         /\ req[h].pc # "idle" => req[h].user \in Users
         /\ req[h].pc # "create" => ViewOK(req[h].view, profile, welcome)
BY Parts DEF Request, RequestOK

-----------------------------------------------------------------------------
(* The commands                                                             *)

LEMMA CreateGameKeeps ==
  ASSUME IInv, NEW h \in Handlers, NEW u \in Users, CreateGame(h, u)
  PROVE  IInv'
<1> DEFINE i == Len(profile) + 1
<1>1. PICK n \in Sizes, x \in Settings \cap Visibility :
        Await(h, "create", u, [NoGame EXCEPT !.host = u, !.size = n, !.visibility = x, !.players = {i}])
  BY DEF CreateGame
<1> DEFINE g == [NoGame EXCEPT !.host = u, !.size = n, !.visibility = x, !.players = {i}]
<1>2. g \in Game /\ g.players = {i} /\ g.host # Nobody
  BY SizesAssumption, UsersAssumption, AppendGrows, NothingIsOK DEF NoGame, Game, Nobody
<1> HIDE DEF g
<1>3. PICK r : r = [pc |-> "create", user |-> u, view |-> g]
  OBVIOUS
<1>4. r \in Request /\ r.pc = "create" /\ r.user = u /\ r.view = g
  BY <1>2, <1>3 DEF Request
<1>5. /\ req' = [req EXCEPT ![h] = r]
      /\ UNCHANGED <<game, gone, crossed, leaving>> /\ welcome' = welcome
      /\ profile' = Append(profile, u)
      /\ ~Exists /\ \A k \in Handlers : req[k].pc # "create"
      /\ ServingOK'
  BY <1>1, <1>3, ServingKeeps DEF g, CreateGame, Arrives, Asks, Await, serving
<1>6. RequestOK(r, profile', welcome', Exists)
  BY <1>2, <1>4, <1>5, AppendGrows DEF RequestOK
<1>7. welcome' \subseteq Users /\ profile' \in Seq(Users) /\ Grows(profile, profile')
  BY <1>5, AppendGrows, Parts DEF TablesOK
<1>8. QED
  BY <1>4, <1>5, <1>6, <1>7, WaitKeeps

LEMMA InsertGameKeeps ==
  ASSUME IInv, NEW h \in Handlers, InsertGame(h)
  PROVE  IInv'
<1>1. /\ req[h].pc = "create" /\ Save(req[h].view) /\ Reply(h)
      /\ welcome' = welcome \cup {req[h].user}
      /\ profile' = profile /\ leaving' = leaving
      /\ req[h].user \in Users /\ ServingOK'
  BY RequestFields, ServingKeeps DEF InsertGame, process, serving
<1>2. PICK g : g = req[h].view
  OBVIOUS
<1>3. /\ g \in Game /\ g.host # Nobody /\ ~Exists
      /\ \E i \in DOMAIN profile : g.players = {i} /\ profile[i] = req[h].user
  BY <1>1, <1>2, RequestFields DEF RequestOK
<1>4. ViewOK(g, profile, welcome')
  BY <1>1, <1>3 DEF ViewOK
<1>5. TablesOK' /\ Exists'
  BY <1>1, <1>2, <1>3, <1>4, SaveKeeps, Parts DEF TablesOK
<1>6. /\ req' \in [Handlers -> Request] /\ leaving' \in [Leavers -> Leaving]
      /\ req'[h] = Idle /\ \A k \in Handlers \ {h} : req'[k] = req[k] /\ req[k].pc # "create"
  BY <1>1, NothingIsOK, Parts DEF Reply
<1>7. QED
  BY <1>1, <1>5, <1>6, StepOK, GrowsNot, NothingIsOK

\* A command that has loaded, checked or preloaded the game, and waits with its view.
LEMMA AwaitKeeps ==
  ASSUME IInv, NEW h \in Handlers, NEW pc \in {"friends", "profile", "preload", "save",
                                               "start.preload", "start.save", "drop", "drop.read"},
         NEW u \in Users, NEW g \in Game, Await(h, pc, u, g),
         UNCHANGED <<tables, leaving>>, ServingOK',
         welcome \subseteq welcome', welcome' \subseteq Users,
         ViewOK(g, profile, welcome'),
         pc \notin {"drop", "drop.read"} => Exists /\ g.host # Nobody,
         pc = "friends" /\ {u, g.host} \in Friends => u \in welcome',
         pc = "profile" => u \in welcome'
  PROVE  IInv'
<1>1. PICK r : r = [pc |-> pc, user |-> u, view |-> g]
  OBVIOUS
<1>2. r \in Request /\ r.pc = pc /\ r.user = u /\ r.view = g
  BY <1>1 DEF Request
<1>3. req' = [req EXCEPT ![h] = r] /\ UNCHANGED <<game, gone, crossed, leaving>> /\ profile' = profile
  BY <1>1 DEF Await, tables
<1>4. RequestOK(r, profile', welcome', Exists)
  BY <1>2, <1>3 DEF RequestOK
<1>5. QED
  BY <1>2, <1>3, <1>4, WaitKeeps, GrowsNot, Parts DEF TablesOK

\* So does one that has been answered.
LEMMA ReplyKeeps ==
  ASSUME IInv, NEW h \in Handlers, Reply(h), UNCHANGED <<tables, leaving, welcome>>, ServingOK'
  PROVE  IInv'
BY WaitKeeps, GrowsNot, NothingIsOK, Parts DEF TablesOK, Reply, tables

LEMMA JoinGameKeeps ==
  ASSUME IInv, NEW h \in Handlers, NEW u \in Users, JoinGame(h, u)
  PROVE  IInv'
<1>1. PICK g : g = Loaded
  OBVIOUS
<1>2. /\ g \in Game /\ ViewOK(g, profile, welcome) /\ g.host # Nobody /\ Exists
      /\ g.status = "preparing" /\ g.visibility = game.visibility /\ HasCapacity(g)
  BY <1>1, LoadedOK DEF JoinGame, Exists
<1>3. /\ welcome' = welcome \cup {v \in {u} : Open(g, v)} /\ welcome' \subseteq Users
      /\ UNCHANGED <<tables, leaving>> /\ ServingOK'
  <2>1. welcome' = welcome \cup {v \in {u} : Open(g, v)} /\ UNCHANGED <<tables, leaving>>
    BY <1>1 DEF JoinGame
  <2>2. QED
    BY <2>1, ServingKeeps, Parts DEF TablesOK, JoinGame, Arrives, Asks, serving
<1>4. Cardinality(g.players) < g.size
  BY <1>2 DEF HasCapacity
<1>5. ViewOK(g, profile, welcome')
  BY <1>2, <1>3, ViewLater, GrowsNot
<1>6. CASE g.visibility = "public" /\ Await(h, "profile", u, g)
  <2>1. u \in welcome'
    BY <1>2, <1>3, <1>4, <1>6 DEF Open
  <2>2. QED
    BY <1>2, <1>3, <1>5, <1>6, <2>1, AwaitKeeps
<1>7. CASE g.visibility = "friends_only" /\ Await(h, "friends", u, g)
  <2>1. {u, g.host} \in Friends => u \in welcome'
    BY <1>2, <1>3, <1>4, <1>7 DEF Open
  <2>2. QED
    BY <1>2, <1>3, <1>5, <1>7, <2>1, AwaitKeeps
<1>8. QED
  BY <1>1, <1>2, <1>6, <1>7 DEF JoinGame

LEMMA CheckFriendKeeps ==
  ASSUME IInv, NEW h \in Handlers, CheckFriend(h)
  PROVE  IInv'
<1>1. PICK g, u : g = req[h].view /\ u = req[h].user
  OBVIOUS
<1>2. /\ UNCHANGED <<tables, leaving>> /\ welcome' = welcome /\ ServingOK'
      /\ g \in Game /\ u \in Users /\ ViewOK(g, profile, welcome) /\ g.host # Nobody /\ Exists
      /\ {u, g.host} \in Friends => u \in welcome
  BY <1>1, RequestFields, ServingKeeps DEF CheckFriend, process, serving, RequestOK
<1>3. CASE IsFriendOfHost(g, u) /\ Await(h, "profile", u, g)
  BY <1>2, <1>3, AwaitKeeps, Parts DEF TablesOK, IsFriendOfHost
<1>4. CASE Reply(h)
  BY <1>2, <1>4, ReplyKeeps
<1>5. QED
  BY <1>1, <1>3, <1>4 DEF CheckFriend

LEMMA CreateProfileKeeps ==
  ASSUME IInv, NEW h \in Handlers, CreateProfile(h)
  PROVE  IInv'
<1> DEFINE i == Len(profile) + 1
<1>1. PICK v, u : v = req[h].view /\ u = req[h].user
  OBVIOUS
<1>2. PICK g : g = [v EXCEPT !.players = v.players \cup {i}]
  OBVIOUS
<1>3. /\ profile' = Append(profile, u) /\ UNCHANGED <<game, gone, crossed, leaving>> /\ welcome' = welcome
      /\ Await(h, "preload", u, g)
      /\ v \in Game /\ u \in Users /\ ViewOK(v, profile, welcome) /\ v.host # Nobody /\ Exists
      /\ u \in welcome /\ ServingOK'
  BY <1>1, <1>2, RequestFields, ServingKeeps DEF CreateProfile, process, serving, RequestOK
<1>4. /\ profile' \in Seq(Users) /\ Grows(profile, profile')
      /\ i \in DOMAIN profile' /\ profile'[i] = u /\ i \in Nat \ {0}
  BY <1>3, AppendGrows
<1> HIDE DEF i
<1>5. /\ g \in Game /\ g.host # Nobody /\ g.players = v.players \cup {i}
  BY <1>2, <1>3, <1>4 DEF Game
<1>6. ViewOK(g, profile', welcome')
  BY <1>3, <1>4, <1>5 DEF ViewOK, Grows
<1>7. PICK r : r = [pc |-> "preload", user |-> u, view |-> g]
  OBVIOUS
<1>8. r \in Request /\ r.pc = "preload" /\ r.view = g /\ r.user = u
  BY <1>3, <1>5, <1>7 DEF Request
<1>9. RequestOK(r, profile', welcome', Exists)
  BY <1>3, <1>5, <1>6, <1>8 DEF RequestOK
<1>10. req' = [req EXCEPT ![h] = r]
  BY <1>3, <1>7 DEF Await
<1>11. QED
  BY <1>3, <1>4, <1>8, <1>9, <1>10, WaitKeeps, Parts DEF TablesOK

LEMMA UpdateGameKeeps ==
  ASSUME IInv, NEW h \in Handlers, NEW u \in Users, UpdateGame(h, u)
  PROVE  IInv'
<1>1. PICK n \in Sizes \cup {game.size}, x \in (Settings \cap Visibility) \cup {game.visibility},
           s \in (Settings \cap GameState) \cup {game.status} :
        Await(h, "preload", u, [Loaded EXCEPT !.size = n, !.visibility = x, !.status = s])
  BY DEF UpdateGame
<1>2. n \in Nat /\ x \in Visibility /\ s \in GameState
  BY SizesAssumption, Parts DEF TablesOK, Game
<1>3. PICK g : g = [Loaded EXCEPT !.size = n, !.visibility = x, !.status = s]
  OBVIOUS
<1>4. g \in Game /\ g.players = Loaded.players /\ g.host = game.host
  BY <1>2, <1>3, LoadedOK DEF Game
<1>5. ViewOK(g, profile, welcome)
  BY <1>4, LoadedOK DEF ViewOK
<1>6. UNCHANGED <<tables, leaving, welcome>> /\ ServingOK' /\ Exists
  BY ServingKeeps DEF UpdateGame, Arrives, Asks, serving
<1>7. QED
  BY <1>1, <1>3, <1>4, <1>5, <1>6, AwaitKeeps, Parts DEF TablesOK, Exists

LEMMA StartGameKeeps ==
  ASSUME IInv, NEW h \in Handlers, NEW u \in Users, StartGame(h, u)
  PROVE  IInv'
<1>1. PICK g : g = [Loaded EXCEPT !.status = "in_progress"]
  OBVIOUS
<1>2. g \in Game /\ g.players = Loaded.players /\ g.host = game.host
  BY <1>1, LoadedOK DEF Game, GameState
<1>3. ViewOK(g, profile, welcome)
  BY <1>2, LoadedOK DEF ViewOK
<1>4. /\ Await(h, "start.preload", u, g)
      /\ UNCHANGED <<tables, leaving, welcome>> /\ ServingOK' /\ Exists
  BY <1>1, ServingKeeps DEF StartGame, Arrives, Asks, serving
<1>5. QED
  BY <1>2, <1>3, <1>4, AwaitKeeps, Parts DEF TablesOK, Exists

LEMMA UpdatePreloadKeeps ==
  ASSUME IInv, NEW h \in Handlers, UpdatePreload(h)
  PROVE  IInv'
<1>1. PICK v, u : v = req[h].view /\ u = req[h].user
  OBVIOUS
<1>2. PICK g : g = Preload(v)
  OBVIOUS
<1>3. /\ UNCHANGED <<tables, leaving, welcome>> /\ ServingOK'
      /\ req[h].pc \in {"preload", "start.preload"}
      /\ v \in Game /\ u \in Users /\ ViewOK(v, profile, welcome) /\ v.host # Nobody /\ Exists
  BY <1>1, RequestFields, ServingKeeps DEF UpdatePreload, process, serving, RequestOK
<1>4. /\ g \in Game /\ ViewOK(g, profile, welcome) /\ g.host # Nobody
  BY <1>2, <1>3, PreloadOK
<1>5. CASE req[h].pc = "preload" /\ Await(h, "save", u, g)
  BY <1>3, <1>4, <1>5, AwaitKeeps, Parts DEF TablesOK
<1>6. CASE req[h].pc = "start.preload" /\ Await(h, "start.save", u, g)
  BY <1>3, <1>4, <1>6, AwaitKeeps, Parts DEF TablesOK
<1>7. QED
  BY <1>1, <1>2, <1>5, <1>6 DEF UpdatePreload

LEMMA UpdateSaveKeeps ==
  ASSUME IInv, NEW h \in Handlers, UpdateSave(h)
  PROVE  IInv'
<1>1. PICK g : g = req[h].view
  OBVIOUS
<1>2. /\ Reply(h) /\ profile' = profile /\ leaving' = leaving /\ welcome' = welcome /\ ServingOK'
      /\ g \in Game /\ ViewOK(g, profile, welcome) /\ g.host # Nobody /\ Exists
  BY <1>1, RequestFields, ServingKeeps DEF UpdateSave, process, serving, RequestOK
<1>3. CASE Save(g)
  <2>1. TablesOK' /\ Exists'
    BY <1>2, <1>3, SaveKeeps, Parts DEF TablesOK
  <2>2. /\ req' \in [Handlers -> Request] /\ leaving' \in [Leavers -> Leaving]
        /\ \A k \in Handlers : req'[k] = Idle \/ (req'[k] = req[k] /\ req[k].pc # "create")
    BY <1>2, NothingIsOK, Parts DEF Reply, RequestOK
  <2>3. QED
    BY <1>2, <2>1, <2>2, StepOK, GrowsNot, NothingIsOK
<1>4. CASE UNCHANGED <<game, gone, crossed>>
  BY <1>2, <1>4, ReplyKeeps DEF tables
<1>5. QED
  BY <1>1, <1>3, <1>4 DEF UpdateSave

-----------------------------------------------------------------------------
(* Departures                                                               *)

\* The game that whoever leaves has changed lists the same players, and has a host.
LEMMA HostLeftOK ==
  ASSUME IInv, NEW u \in Users, NEW g \in HostLeft(Loaded, u), Exists
  PROVE  g \in Game /\ ViewOK(g, profile, welcome) /\ g.host # Nobody
<1> DEFINE L == Loaded
<1>1. L \in Game /\ ViewOK(L, profile, welcome) /\ L.host # Nobody
  BY LoadedOK DEF Exists
<1>2. \A p \in L.players : profile[p] \in Users /\ profile[p] # Nobody
  BY <1>1, Profiles, UsersAssumption DEF ViewOK, Nobody
<1> HIDE DEF L
<1>3. \/ g = L \/ g = [L EXCEPT !.status = "aborted"]
      \/ \E p \in L.players : g = [L EXCEPT !.host = profile[p]]
  BY DEF HostLeft, L
<1>4. g.players = L.players /\ g \in Game /\ g.host # Nobody
  BY <1>1, <1>2, <1>3 DEF Game, GameState
<1>5. QED
  BY <1>1, <1>4 DEF ViewOK

LEMMA LeaveOK ==
  ASSUME IInv, NEW u \in Users, Leave(u)
  PROVE  /\ leaving' \in [Leavers -> Leaving]
         /\ \A l \in Leavers :
              leaving'[l] = leaving[l] \/ LeavingOK(leaving'[l], profile, welcome, Exists)
<1>1. PICK l \in Leavers, g \in HostLeft(Loaded, u) :
        leaving' = [leaving EXCEPT ![l] = [remove |-> u, pc |-> "preload", view |-> g]]
  BY DEF Leave
<1>2. u \in DOMAIN profile /\ Exists
  <2>1. u \in Loaded.players
    BY DEF Leave, CanLeave
  <2>2. QED
    BY <2>1, LoadedOK, Parts DEF TablesOK, ViewOK
<1>3. g \in Game /\ ViewOK(g, profile, welcome) /\ g.host # Nobody
  BY <1>2, HostLeftOK
<1>4. PICK c : c = [remove |-> u, pc |-> "preload", view |-> g]
  OBVIOUS
<1>5. c \in Leaving /\ LeavingOK(c, profile, welcome, Exists)
  BY <1>2, <1>3, <1>4, UsersAssumption DEF Leaving, LeavingOK
<1>6. QED
  BY <1>1, <1>4, <1>5, Parts

\* A step of what a departure left behind, when the game and the commands are as before.
LEMMA LeavingKeeps ==
  ASSUME IInv, UNCHANGED <<game, profile, crossed, req, welcome>>, ServingOK', gone' \subseteq DOMAIN profile,
         leaving' \in [Leavers -> Leaving],
         \A l \in Leavers :
           leaving'[l] = leaving[l] \/ LeavingOK(leaving'[l], profile, welcome, Exists)
  PROVE  IInv'
<1>1. TablesOK'
  BY Parts DEF TablesOK, ViewOK, Exists
<1>2. \A h \in Handlers : req'[h] = req[h] /\ (req[h].pc = "create" => ~Exists')
  BY Parts DEF RequestOK, Exists
<1>3. QED
  BY <1>1, <1>2, StepOK, GrowsNot, Parts DEF Exists

LEMMA LeaveGameKeeps ==
  ASSUME IInv, NEW u \in Users, LeaveGame(u)
  PROVE  IInv'
<1>1. /\ UNCHANGED <<game, profile, gone, crossed, req, welcome>> /\ ServingOK'
  BY ServingKeeps DEF LeaveGame, Asks, tables, serving
<1>2. gone' \subseteq DOMAIN profile
  BY <1>1, Parts DEF TablesOK
<1>3. QED
  BY <1>1, <1>2, LeaveOK, LeavingKeeps DEF LeaveGame

\* What is left of a departure after one of its calls.
LEMMA FinishOK ==
  ASSUME IInv, NEW l \in Leavers, NEW c \in Leaving, LeavingOK(c, profile, welcome, Exists'),
         Finish(l, c)
  PROVE  /\ leaving' \in [Leavers -> Leaving]
         /\ \A k \in Leavers :
              leaving'[k] = leaving[k] \/ LeavingOK(leaving'[k], profile, welcome, Exists')
<1>1. \E d \in {Done, c} : leaving' = [leaving EXCEPT ![l] = d]
  BY DEF Finish
<1>2. QED
  BY <1>1, NothingIsOK, Parts

LEMMA DeletePlayerKeeps ==
  ASSUME IInv, NEW l \in Leavers, DeletePlayer(l)
  PROVE  IInv'
<1>1. PICK c : c = [leaving[l] EXCEPT !.remove = 0]
  OBVIOUS
<1>2. /\ UNCHANGED <<game, profile, crossed, req, welcome>> /\ Exists' = Exists /\ ServingOK'
      /\ Finish(l, c)
      /\ leaving[l].remove # 0 /\ gone' = gone \cup {leaving[l].remove}
  BY <1>1, ServingKeeps DEF DeletePlayer, process, serving, Exists
<1>3. c \in Leaving /\ LeavingOK(c, profile, welcome, Exists)
  <2>1. leaving[l] \in Leaving /\ LeavingOK(leaving[l], profile, welcome, Exists)
    BY Parts
  <2>2. c \in Leaving /\ c.remove = 0 /\ c.pc = leaving[l].pc /\ c.view = leaving[l].view
    BY <1>1, <2>1 DEF Leaving
  <2>3. QED
    BY <2>1, <2>2 DEF LeavingOK
<1>4. gone' \subseteq DOMAIN profile
  BY <1>2, Parts DEF TablesOK, LeavingOK
<1>5. QED
  BY <1>2, <1>3, <1>4, FinishOK, LeavingKeeps

LEMMA LeavePreloadKeeps ==
  ASSUME IInv, NEW l \in Leavers, LeavePreload(l)
  PROVE  IInv'
<1>1. PICK w : w = leaving[l]
  OBVIOUS
<1>2. PICK c : c = [w EXCEPT !.pc = "save", !.view = Preload(w.view)]
  OBVIOUS
<1>3. /\ UNCHANGED <<game, profile, gone, crossed, req, welcome>> /\ Exists' = Exists /\ ServingOK'
      /\ Finish(l, c)
      /\ w.pc = "preload"
  BY <1>1, <1>2, ServingKeeps DEF LeavePreload, process, serving, tables, Exists
<1>4. w \in Leaving /\ LeavingOK(w, profile, welcome, Exists)
  BY <1>1, Parts
<1>5. Preload(w.view) \in Game /\ ViewOK(Preload(w.view), profile, welcome) /\ Preload(w.view).host = w.view.host
  BY <1>4, PreloadOK DEF Leaving, LeavingOK
<1>6. c \in Leaving /\ c.remove = w.remove /\ c.view = Preload(w.view)
  BY <1>2, <1>4, <1>5 DEF Leaving
<1>7. LeavingOK(c, profile, welcome, Exists)
  BY <1>3, <1>4, <1>5, <1>6 DEF LeavingOK
<1>8. gone' \subseteq DOMAIN profile
  BY <1>3, Parts DEF TablesOK
<1>9. QED
  BY <1>3, <1>6, <1>7, <1>8, FinishOK, LeavingKeeps

LEMMA LeaveSaveKeeps ==
  ASSUME IInv, NEW l \in Leavers, LeaveSave(l)
  PROVE  IInv'
<1>1. PICK w, g : w = leaving[l] /\ g = leaving[l].view
  OBVIOUS
<1>2. PICK c : c = [w EXCEPT !.pc = "idle", !.view = NoGame]
  OBVIOUS
<1>3. /\ profile' = profile /\ req' = req /\ welcome' = welcome /\ ServingOK'
      /\ w.pc = "save" /\ Save(g) /\ Finish(l, c)
  BY <1>1, <1>2, ServingKeeps DEF LeaveSave, process, serving
<1>4. w \in Leaving /\ LeavingOK(w, profile, welcome, Exists) /\ g = w.view
  BY <1>1, Parts
<1>5. g \in Game /\ ViewOK(g, profile, welcome) /\ g.host # Nobody /\ Exists
  BY <1>3, <1>4 DEF Leaving, LeavingOK
<1>6. TablesOK' /\ Exists'
  BY <1>3, <1>5, SaveKeeps, Parts DEF TablesOK
<1>7. c \in Leaving /\ c.remove = w.remove /\ c.pc = "idle" /\ c.view = NoGame
  BY <1>2, <1>4, NothingIsOK DEF Leaving
<1>8. LeavingOK(c, profile, welcome, Exists')
  BY <1>4, <1>7 DEF LeavingOK, ViewOK, NoGame
<1>9. /\ leaving' \in [Leavers -> Leaving]
      /\ \A k \in Leavers :
           leaving'[k] = leaving[k] \/ LeavingOK(leaving'[k], profile, welcome, Exists')
  BY <1>3, <1>7, <1>8, FinishOK
<1>10. \A h \in Handlers : req'[h] = req[h] /\ req[h].pc # "create"
  BY <1>3, <1>5, Parts DEF RequestOK
<1>11. QED
  BY <1>3, <1>6, <1>9, <1>10, StepOK, GrowsNot, Parts

-----------------------------------------------------------------------------
(* Sockets, the room, and the process                                       *)

\* What tables and what is in progress ask for does not depend on the sockets.
LEMMA SocketsKeep ==
  ASSUME IInv, UNCHANGED <<tables, req, leaving, welcome>>, ServingOK'
  PROVE  IInv'
<1>1. gone' \subseteq DOMAIN profile
  BY Parts DEF TablesOK, tables
<1>2. QED
  BY <1>1, LeavingKeeps, Parts DEF tables

LEMMA ConnectKeeps ==
  ASSUME IInv, NEW u \in Users, Connect(u) \/ JoinRoom(u) \/ LeaveRoom(u)
  PROVE  IInv'
<1>1. UNCHANGED <<tables, req, leaving, welcome>>
  BY DEF Connect, JoinRoom, LeaveRoom
<1>2. ServingOK
  BY Parts
<1>3. CASE Connect(u)
  BY <1>1, <1>2, <1>3, SocketsKeep DEF Connect, ServingOK
<1>4. CASE JoinRoom(u)
  <2>1. PICK p \in Loaded.players : profile[p] = u
    BY <1>4 DEF JoinRoom, IsPlayer
  <2>2. u \in welcome
    BY <2>1, LoadedOK DEF ViewOK
  <2>3. QED
    BY <1>1, <1>2, <1>4, <2>2, SocketsKeep DEF JoinRoom, ServingOK
<1>5. CASE LeaveRoom(u)
  BY <1>1, <1>2, <1>5, SocketsKeep DEF LeaveRoom, ServingOK
<1>6. QED
  BY <1>3, <1>4, <1>5

LEMMA DisconnectKeeps ==
  ASSUME IInv, NEW h \in Handlers, NEW u \in Users, Disconnect(h, u)
  PROVE  IInv'
<1>1. /\ UNCHANGED <<tables, leaving, gamers, up, stops, welcome>>
      /\ open' = open \ {u} /\ room' = room \ {u}
      /\ asked < MaxCommands /\ asked' = asked + 1
  BY DEF Disconnect, Arrives, Asks
<1>2. ServingOK'
  BY <1>1, CommandsAssumption, Parts DEF ServingOK
<1>3. CASE Await(h, "drop", u, NoGame)
  <2>1. ViewOK(NoGame, profile, welcome)
    BY DEF ViewOK, NoGame
  <2>2. QED
    BY <1>1, <1>2, <1>3, <2>1, AwaitKeeps, NothingIsOK, Parts DEF TablesOK
<1>4. CASE UNCHANGED req
  BY <1>1, <1>2, <1>4, SocketsKeep
<1>5. QED
  BY <1>3, <1>4 DEF Disconnect

LEMMA DropKeeps ==
  ASSUME IInv, NEW h \in Handlers, Drop(h)
  PROVE  IInv'
<1>1. PICK u : u = req[h].user
  OBVIOUS
<1>2. /\ UNCHANGED <<tables, welcome>> /\ ServingOK' /\ Exists' = Exists
      /\ Leave(u) /\ Await(h, "drop.read", u, NoGame) /\ u \in Users
  BY <1>1, RequestFields, ServingKeeps DEF Drop, process, serving, tables, Exists
<1>3. PICK r : r = [pc |-> "drop.read", user |-> u, view |-> NoGame]
  OBVIOUS
<1>4. r \in Request /\ RequestOK(r, profile', welcome', Exists') /\ r.pc # "create"
  BY <1>2, <1>3, NothingIsOK DEF Request, RequestOK, ViewOK, NoGame
<1>5. /\ req' \in [Handlers -> Request] /\ req'[h] = r
      /\ \A k \in Handlers \ {h} : req'[k] = req[k] /\ (req[k].pc = "create" => ~Exists')
  BY <1>2, <1>3, <1>4, Parts DEF Await, RequestOK
<1>6. TablesOK'
  BY <1>2, Parts DEF TablesOK, ViewOK, tables, Exists
<1>7. QED
  BY <1>2, <1>4, <1>5, <1>6, LeaveOK, StepOK, GrowsNot DEF tables

LEMMA DropReadKeeps ==
  ASSUME IInv, NEW h \in Handlers, DropRead(h)
  PROVE  IInv'
<1>1. ServingOK'
  BY Parts DEF DropRead, ServingOK
<1>2. QED
  BY <1>1, ReplyKeeps DEF DropRead

LEMMA ProcessKeeps ==
  ASSUME IInv, Reject \/ DisconnectStranger \/ Stop \/ Restart
  PROVE  IInv'
<1>1. CASE Die
  <2>1. UNCHANGED <<tables, welcome>> /\ Exists' = Exists
    BY <1>1 DEF Die, tables, Exists
  <2>2. ServingOK'
    <3>1. ServingOK
      BY Parts
    <3>2. /\ gamers' = {} /\ open' = {} /\ room' = {}
          /\ up' = FALSE /\ stops < MaxStops /\ stops' = stops + 1 /\ asked' = asked
      BY <1>1 DEF Die
    <3>3. stops' \in 0..MaxStops
      BY <3>1, <3>2, StopsAssumption DEF ServingOK
    <3>4. QED
      BY <3>1, <3>2, <3>3 DEF ServingOK
  <2>3. TablesOK'
    BY <2>1, Parts DEF TablesOK, ViewOK, tables, Exists
  <2>4. /\ req' = [h \in Handlers |-> Idle] /\ leaving' = [l \in Leavers |-> Done]
    BY <1>1 DEF Die
  <2>5. QED
    BY <2>1, <2>2, <2>3, <2>4, NothingIsOK, StepOK, GrowsNot DEF tables
<1>2. CASE Restart
  <2>1. ServingOK'
    BY <1>2, Parts DEF Restart, ServingOK
  <2>2. QED
    BY <1>2, <2>1, SocketsKeep DEF Restart
<1>3. QED
  BY <1>1, <1>2 DEF Reject, DisconnectStranger, Stop

-----------------------------------------------------------------------------
(* The theorems                                                             *)

LEMMA StepKeeps ==
  ASSUME IInv, [Next]_vars
  PROVE  IInv'
<1>1. ASSUME NEW h \in Handlers, Continue(h)
      PROVE  IInv'
  BY <1>1, InsertGameKeeps, CheckFriendKeeps, CreateProfileKeeps, UpdatePreloadKeeps,
     UpdateSaveKeeps, DropKeeps, DropReadKeeps DEF Continue
<1>2. ASSUME NEW h \in Handlers, NEW u \in Users, Command(h, u)
      PROVE  IInv'
  BY <1>2, CreateGameKeeps, JoinGameKeeps, UpdateGameKeeps, StartGameKeeps, DisconnectKeeps
     DEF Command
<1>3. ASSUME NEW l \in Leavers, DeletePlayer(l) \/ LeavePreload(l) \/ LeaveSave(l)
      PROVE  IInv'
  BY <1>3, DeletePlayerKeeps, LeavePreloadKeeps, LeaveSaveKeeps
<1>4. CASE UNCHANGED vars
  <2>1. ServingOK'
    BY <1>4, Parts DEF vars, ServingOK
  <2>2. QED
    BY <1>4, <2>1, SocketsKeep DEF vars, tables
<1>5. QED
  BY <1>1, <1>2, <1>3, <1>4, LeaveGameKeeps, ConnectKeeps, ProcessKeeps DEF Next

\* The invariant holds however many commands and departures cross, and whenever the process ends.
THEOREM InvariantHolds == Spec => []IInv
<1>1. Init => IInv
  BY InitOK
<1>2. IInv /\ [Next]_vars => IInv'
  BY StepKeeps
<1>3. QED
  BY <1>1, <1>2, PTL DEF Spec

\* Every variable keeps to its type; the rows that leaveGame deletes are rows there are.
THEOREM TypeCorrect == Spec => []TypeOK
<1>1. IInv => TypeOK
  BY DEF IInv
<1>2. QED
  BY <1>1, InvariantHolds, PTL

\* Whoever is a player created the game, or it was open to them when they asked.
THEOREM WhoSitsWasWelcome == Spec => []OnlyTheWelcomeSit
<1>1. IInv => OnlyTheWelcomeSit
  BY DEF IInv, ViewOK, OnlyTheWelcomeSit
<1>2. QED
  BY <1>1, InvariantHolds, PTL

\* So was it to everybody whose socket is in its room.
THEOREM WhoHearsWasWelcome == Spec => []OnlyTheWelcomeHear
<1>1. IInv => OnlyTheWelcomeHear
  BY DEF IInv
<1>2. QED
  BY <1>1, InvariantHolds, PTL

-----------------------------------------------------------------------------
(* Players who are unlinked                                                 *)

\* A copy of the game that is about to be saved lists every player but those who took
\* their seats since it was preloaded.
CopiesComplete == \A c \in AtSave : Seated \ crossed \subseteq c.players

\* The players who take a seat in a step are those that the saved object brings.
LEMMA SaveSeats ==
  ASSUME IInv, NEW g \in Game, Save(g)
  PROVE  /\ game'.players = g.players \cup (game.players \cap gone)
         /\ \A p \in Seated' \ Seated : p \in crossed' \/ \A c \in AtSave : p \in c.players
         /\ crossed \subseteq crossed'
<1>1. game' = [g EXCEPT !.players = Linked(g)]
  BY DEF Save
<1>2. game'.players = Linked(g)
  BY <1>1 DEF Game
<1>3. QED
  BY <1>2 DEF Save, Linked

\* What is about to be saved after a step was so before it, or has just been preloaded.
LEMMA CopiesAtSave ==
  ASSUME IInv, [Next]_vars, NEW c \in AtSave'
  PROVE  c \in AtSave \/ (Seated \subseteq c.players /\ game' = game /\ gone' = gone)
<1>1. /\ req \in [Handlers -> Request] /\ leaving \in [Leavers -> Leaving]
      /\ Idle.pc = "idle" /\ Done.pc = "idle"
  BY Parts, NothingIsOK
<1>2. ASSUME NEW h \in Handlers, req'[h].pc \in {"save", "start.save"}, c = req'[h].view
      PROVE  req'[h] = req[h] \/ (c = Preload(req[h].view) /\ game' = game /\ gone' = gone)
  <2>1. ASSUME NEW k \in Handlers, NEW pc, NEW u, NEW view, Await(k, pc, u, view),
               pc # "save", pc # "start.save"
        PROVE  req'[h] = req[h]
    BY <1>1, <1>2, <2>1 DEF Await
  <2>2. ASSUME NEW k \in Handlers, Reply(k)
        PROVE  req'[h] = req[h]
    BY <1>1, <1>2, <2>2 DEF Reply
  <2>3. ASSUME NEW k \in Handlers, UpdatePreload(k)
        PROVE  req'[h] = req[h] \/ (c = Preload(req[h].view) /\ game' = game /\ gone' = gone)
    BY <1>1, <1>2, <2>3 DEF UpdatePreload, Await, tables
  <2>4. ASSUME NEW k \in Handlers, Continue(k), ~UpdatePreload(k)
        PROVE  req'[h] = req[h]
    <3>1. \/ Reply(k)
          \/ \E pc \in {"profile", "preload", "drop.read"} : \E u, view : Await(k, pc, u, view)
      BY <2>4 DEF Continue, InsertGame, CheckFriend, CreateProfile, UpdateSave, Drop, DropRead
    <3>2. QED
      BY <2>1, <2>2, <3>1
  <2>5. ASSUME NEW k \in Handlers, NEW u \in Users, Command(k, u)
        PROVE  req'[h] = req[h]
    <3>1. \/ req' = req
          \/ \E pc \in {"create", "friends", "profile", "preload", "start.preload", "drop"} :
               \E w, view : Await(k, pc, w, view)
      BY <2>5 DEF Command, CreateGame, JoinGame, UpdateGame, StartGame, Disconnect
    <3>2. QED
      BY <2>1, <3>1
  <2>6. CASE Die
    BY <1>1, <1>2, <2>6 DEF Die
  <2>7. CASE req' = req
    BY <2>7
  <2>8. QED
    BY <2>3, <2>4, <2>5, <2>6, <2>7
       DEF Next, vars, DeletePlayer, LeavePreload, LeaveSave, LeaveGame, Connect, JoinRoom,
           LeaveRoom, Reject, DisconnectStranger, Stop, Restart
<1>3. ASSUME NEW l \in Leavers, leaving'[l].pc = "save", c = leaving'[l].view
      PROVE  \/ leaving[l].pc = "save" /\ c = leaving[l].view
             \/ c = Preload(leaving[l].view) /\ game' = game /\ gone' = gone
  <2>1. ASSUME NEW u \in Users, Leave(u)
        PROVE  leaving'[l] = leaving[l]
    BY <1>1, <1>3, <2>1 DEF Leave
  <2>2. ASSUME NEW k \in Leavers, DeletePlayer(k)
        PROVE  leaving[l].pc = "save" /\ c = leaving[l].view
    <3>1. leaving[k] \in Leaving
      BY <1>1
    <3>2. QED
      BY <1>1, <1>3, <2>2, <3>1 DEF DeletePlayer, Finish, Leaving
  <2>3. ASSUME NEW k \in Leavers, LeavePreload(k)
        PROVE  \/ leaving'[l] = leaving[l]
               \/ c = Preload(leaving[l].view) /\ game' = game /\ gone' = gone
    <3>1. leaving[k] \in Leaving
      BY <1>1
    <3>2. QED
      BY <1>1, <1>3, <2>3, <3>1 DEF LeavePreload, Finish, Leaving, tables
  <2>4. ASSUME NEW k \in Leavers, LeaveSave(k)
        PROVE  leaving'[l] = leaving[l]
    <3>1. leaving[k] \in Leaving
      BY <1>1
    <3>2. QED
      BY <1>1, <1>3, <2>4, <3>1 DEF LeaveSave, Finish, Leaving
  <2>5. ASSUME NEW k \in Handlers, Continue(k)
        PROVE  leaving'[l] = leaving[l]
    <3>1. leaving' = leaving \/ (Leave(req[k].user) /\ req[k].user \in Users)
      BY <2>5, RequestFields
         DEF Continue, InsertGame, CheckFriend, CreateProfile, UpdatePreload, UpdateSave, Drop,
             DropRead
    <3>2. QED
      BY <2>1, <3>1
  <2>6. ASSUME NEW k \in Handlers, NEW u \in Users, Command(k, u)
        PROVE  leaving'[l] = leaving[l]
    BY <2>6 DEF Command, CreateGame, JoinGame, UpdateGame, StartGame, Disconnect
  <2>7. CASE Die
    BY <1>1, <1>3, <2>7 DEF Die
  <2>8. ASSUME NEW u \in Users, LeaveGame(u)
        PROVE  leaving'[l] = leaving[l]
    BY <2>1, <2>8 DEF LeaveGame
  <2>9. CASE leaving' = leaving
    BY <1>3, <2>9
  <2>10. QED
    BY <1>3, <2>2, <2>3, <2>4, <2>5, <2>6, <2>7, <2>8, <2>9
       DEF Next, vars, Connect, JoinRoom, LeaveRoom, Reject, DisconnectStranger, Stop, Restart
<1>4. \A g \in Game : Seated \subseteq Preload(g).players
  BY DEF Preload, Game
<1>5. \A h \in Handlers : req[h].view \in Game
  BY RequestFields
<1>6. \A l \in Leavers : leaving[l].view \in Game
  BY <1>1 DEF Leaving
<1>7. \/ \E h \in Handlers : req'[h].pc \in {"save", "start.save"} /\ c = req'[h].view
      \/ \E l \in Leavers : leaving'[l].pc = "save" /\ c = leaving'[l].view
  BY DEF AtSave
<1>8. QED
  BY <1>2, <1>3, <1>4, <1>5, <1>6, <1>7 DEF AtSave

\* A step that writes the game saves an object; another takes seats at most.
LEMMA StepSaves ==
  ASSUME IInv, [Next]_vars
  PROVE  \/ \E g \in AtSave : g \in Game /\ Save(g)
         \/ game.players = {} /\ ~Exists /\ AtSave = {} /\ crossed' = crossed
         \/ game' = game /\ crossed' = crossed /\ gone \subseteq gone'
<1>1. ASSUME NEW h \in Handlers, Continue(h)
      PROVE  \/ \E g \in AtSave : g \in Game /\ Save(g)
             \/ game.players = {} /\ ~Exists /\ AtSave = {} /\ crossed' = crossed
             \/ game' = game /\ crossed' = crossed /\ gone \subseteq gone'
  <2>1. CASE InsertGame(h)
    <3>1. ~Exists /\ game.players = {}
      BY <2>1, RequestFields, Parts DEF InsertGame, RequestOK, TablesOK
    <3>2. AtSave = {}
      BY <3>1, Parts DEF AtSave, RequestOK, LeavingOK
    <3>3. crossed' = crossed
      BY <2>1, <3>2 DEF InsertGame, Save
    <3>4. QED
      BY <3>1, <3>2, <3>3
  <2>2. CASE UpdateSave(h)
    BY <2>2, RequestFields DEF UpdateSave, AtSave
  <2>3. QED
    BY <1>1, <2>1, <2>2
       DEF Continue, CheckFriend, CreateProfile, UpdatePreload, Drop, DropRead, tables
<1>2. ASSUME NEW h \in Handlers, NEW u \in Users, Command(h, u)
      PROVE  game' = game /\ crossed' = crossed /\ gone \subseteq gone'
  BY <1>2 DEF Command, CreateGame, JoinGame, UpdateGame, StartGame, Disconnect, tables
<1>3. ASSUME NEW l \in Leavers, LeaveSave(l)
      PROVE  \E g \in AtSave : g \in Game /\ Save(g)
  BY <1>3, Parts DEF LeaveSave, AtSave, Leaving
<1>4. QED
  BY <1>1, <1>2, <1>3
     DEF Next, vars, tables, DeletePlayer, LeavePreload, LeaveGame, Connect, JoinRoom,
         LeaveRoom, Reject, DisconnectStranger, Stop, Die, Restart

LEMMA CopiesStayComplete ==
  ASSUME IInv, CopiesComplete, [Next]_vars
  PROVE  CopiesComplete'
<1>1. SUFFICES ASSUME NEW c \in AtSave', NEW p \in Seated', p \notin crossed'
               PROVE  p \in c.players
  BY DEF CopiesComplete
<1>2. CASE c \notin AtSave
  BY <1>1, <1>2, CopiesAtSave DEF Seated
<1>3. CASE c \in AtSave
  <2>1. CASE \E g \in AtSave : g \in Game /\ Save(g)
    BY <1>1, <1>3, <2>1, SaveSeats DEF CopiesComplete
  <2>2. CASE game' = game /\ crossed' = crossed /\ gone \subseteq gone'
    BY <1>1, <1>3, <2>2 DEF CopiesComplete, Seated
  <2>3. QED
    BY <1>3, <2>1, <2>2, StepSaves
<1>4. QED
  BY <1>2, <1>3

\* No command, and no departure, unlinks a player from the game but one who took the seat
\* while that command or departure was about to save it.
THEOREM PlayersStayLinked == Spec => UnlinkedOnlyByCrossing
<1>1. Init => CopiesComplete
  BY NothingIsOK DEF Init, CopiesComplete, AtSave
<1>2. IInv /\ CopiesComplete /\ [Next]_vars => CopiesComplete'
  BY CopiesStayComplete
<1>3. IInv /\ CopiesComplete /\ [Next]_vars =>
        [\A p \in game.players : p \in game'.players \/ p \in crossed]_vars
  <2> SUFFICES ASSUME IInv, CopiesComplete, [Next]_vars, NEW p \in game.players, p \notin crossed
               PROVE  p \in game'.players
    OBVIOUS
  <2>1. ASSUME NEW g \in AtSave, g \in Game, Save(g)
        PROVE  p \in game'.players
    BY <2>1, SaveSeats DEF CopiesComplete, Seated
  <2>2. QED
    BY <2>1, StepSaves
<1>4. QED
  BY <1>1, <1>2, <1>3, InvariantHolds, PTL DEF Spec, UnlinkedOnlyByCrossing

-----------------------------------------------------------------------------
(* A start that nothing precedes                                            *)

\* A command that goes on, or comes in, has no copy of the lobby afterwards.
LEMMA CommandsStaySettled ==
  ASSUME IInv, Settled, [Next]_vars, ~HostReopens, NEW h \in Handlers,
         req'[h].pc \in {"friends", "profile", "preload", "save", "start.preload", "start.save"}
  PROVE  ~InLobby(req'[h].view)
<1>1. /\ req \in [Handlers -> Request] /\ Idle.pc = "idle"
      /\ ~InLobby(Loaded) /\ ~InLobby(game) /\ Exists
  BY Parts, NothingIsOK, LoadedOK DEF Settled, InLobby
<1>2. CASE req'[h] = req[h]
  BY <1>2 DEF Settled
<1>3. ASSUME NEW k \in Handlers, NEW pc, NEW u, NEW view, Await(k, pc, u, view),
             pc \in {"drop", "drop.read", "create"} \/ ~InLobby(view)
      PROVE  ~InLobby(req'[h].view)
  BY <1>1, <1>2, <1>3 DEF Await
<1>4. ASSUME NEW k \in Handlers, Reply(k) \/ UNCHANGED req
      PROVE  ~InLobby(req'[h].view)
  BY <1>1, <1>2, <1>4 DEF Reply
<1>5. ASSUME NEW k \in Handlers, Continue(k)
      PROVE  ~InLobby(req'[h].view)
  <2>1. req[k].view \in Game
    BY RequestFields
  <2>2. CASE CheckFriend(k)
    BY <1>3, <1>4, <2>2 DEF CheckFriend, Settled
  <2>3. CASE CreateProfile(k)
    <3>1. PICK g : g = [req[k].view EXCEPT !.players = @ \cup {Len(profile) + 1}]
      OBVIOUS
    <3>2. g.status = req[k].view.status /\ ~InLobby(req[k].view)
      BY <2>1, <2>3, <3>1 DEF CreateProfile, Settled, Game
    <3>3. Await(k, "preload", req[k].user, g)
      BY <2>3, <3>1 DEF CreateProfile
    <3>4. QED
      BY <1>3, <3>2, <3>3 DEF InLobby
  <2>4. CASE UpdatePreload(k)
    <3>1. Preload(req[k].view).status = req[k].view.status /\ ~InLobby(req[k].view)
      BY <2>1, <2>4 DEF UpdatePreload, Settled, Preload, Game
    <3>2. QED
      BY <1>3, <2>4, <3>1 DEF UpdatePreload, InLobby
  <2>5. CASE Drop(k)
    BY <1>3, <2>5 DEF Drop
  <2>6. CASE InsertGame(k) \/ UpdateSave(k) \/ DropRead(k)
    BY <1>4, <2>6 DEF InsertGame, UpdateSave, DropRead
  <2>7. QED
    BY <1>5, <2>2, <2>3, <2>4, <2>5, <2>6 DEF Continue
<1>6. ASSUME NEW k \in Handlers, NEW u \in Users, Command(k, u)
      PROVE  ~InLobby(req'[h].view)
  <2>1. CASE CreateGame(k, u)
    BY <1>1, <2>1 DEF CreateGame
  <2>2. CASE JoinGame(k, u) \/ StartGame(k, u)
    BY <1>1, <2>2 DEF JoinGame, StartGame, InLobby
  <2>3. CASE UpdateGame(k, u)
    <3>1. PICK view : Await(k, "preload", u, view)
      BY <2>3 DEF UpdateGame
    <3>2. req'[k].view = view
      BY <1>1, <3>1 DEF Await
    <3>3. QED
      BY <1>3, <2>3, <3>1, <3>2 DEF HostReopens
  <2>4. CASE Disconnect(k, u)
    BY <1>3, <1>4, <2>4 DEF Disconnect
  <2>5. QED
    BY <1>6, <2>1, <2>2, <2>3, <2>4 DEF Command
<1>7. CASE Die
  BY <1>1, <1>7 DEF Die
<1>8. QED
  BY <1>4, <1>5, <1>6, <1>7
     DEF Next, vars, DeletePlayer, LeavePreload, LeaveSave, LeaveGame, Connect, JoinRoom,
         LeaveRoom, Reject, DisconnectStranger, Stop, Restart

\* Nor has a departure.
LEMMA DeparturesStaySettled ==
  ASSUME IInv, Settled, [Next]_vars, NEW l \in Leavers, leaving'[l].pc \in {"preload", "save"}
  PROVE  ~InLobby(leaving'[l].view)
<1>1. /\ leaving \in [Leavers -> Leaving] /\ Done.pc = "idle"
      /\ Loaded \in Game /\ ~InLobby(Loaded) /\ Exists
  BY Parts, NothingIsOK, LoadedOK DEF Settled, InLobby
<1>2. CASE leaving'[l] = leaving[l]
  BY <1>2 DEF Settled
<1>3. ASSUME NEW u \in Users, Leave(u)
      PROVE  ~InLobby(leaving'[l].view)
  <2>1. PICK k \in Leavers, g \in HostLeft(Loaded, u) :
          leaving' = [leaving EXCEPT ![k] = [remove |-> u, pc |-> "preload", view |-> g]]
    BY <1>3 DEF Leave
  <2>2. \/ g = Loaded \/ g = [Loaded EXCEPT !.status = "aborted"]
    BY <1>1 DEF HostLeft, InLobby
  <2>3. ~InLobby(g)
    BY <1>1, <2>2 DEF InLobby, Game
  <2>4. QED
    BY <1>1, <1>2, <2>1, <2>3
<1>4. ASSUME NEW k \in Leavers, DeletePlayer(k) \/ LeavePreload(k) \/ LeaveSave(k)
      PROVE  ~InLobby(leaving'[l].view)
  <2>1. leaving[k] \in Leaving /\ leaving[k].view \in Game
    BY <1>1 DEF Leaving
  <2>2. CASE k # l
    BY <1>1, <1>2, <1>4, <2>2 DEF DeletePlayer, LeavePreload, LeaveSave, Finish
  <2>3. CASE k = l /\ DeletePlayer(l)
    <3>1. leaving[l].pc = leaving'[l].pc /\ leaving[l].view = leaving'[l].view
      BY <1>1, <2>1, <2>3 DEF DeletePlayer, Finish, Leaving
    <3>2. QED
      BY <3>1 DEF Settled
  <2>4. CASE k = l /\ LeavePreload(l)
    <3>1. leaving[l].pc = "preload" /\ leaving'[l].view = Preload(leaving[l].view)
      BY <1>1, <2>1, <2>4 DEF LeavePreload, Finish, Leaving
    <3>2. Preload(leaving[l].view).status = leaving[l].view.status
      BY <2>1, <2>4 DEF Preload, Game
    <3>3. QED
      BY <3>1, <3>2 DEF Settled, InLobby
  <2>5. CASE k = l /\ LeaveSave(l)
    BY <1>1, <2>1, <2>5 DEF LeaveSave, Finish, Leaving
  <2>6. QED
    BY <1>4, <2>2, <2>3, <2>4, <2>5
<1>5. ASSUME NEW k \in Handlers, Continue(k)
      PROVE  ~InLobby(leaving'[l].view)
  <2>1. leaving' = leaving \/ (Leave(req[k].user) /\ req[k].user \in Users)
    BY <1>5, RequestFields
       DEF Continue, InsertGame, CheckFriend, CreateProfile, UpdatePreload, UpdateSave, Drop,
           DropRead
  <2>2. QED
    BY <1>2, <1>3, <2>1
<1>6. ASSUME NEW k \in Handlers, NEW u \in Users, Command(k, u)
      PROVE  ~InLobby(leaving'[l].view)
  BY <1>2, <1>6 DEF Command, CreateGame, JoinGame, UpdateGame, StartGame, Disconnect
<1>7. CASE Die
  BY <1>1, <1>7 DEF Die
<1>8. QED
  BY <1>2, <1>3, <1>4, <1>5, <1>6, <1>7
     DEF Next, vars, LeaveGame, Connect, JoinRoom, LeaveRoom, Reject, DisconnectStranger, Stop,
         Restart

\* Once no copy of the game from before its start is in memory, the game does not go back to
\* the lobby, whoever joins, leaves, updates or disconnects, unless the host asks for it.
THEOREM StartsStand == Spec => StartUndoneOnlyByCrossing
<1>1. ASSUME IInv, [Next]_vars, Settled, ~HostReopens
      PROVE  Settled'
  <2>1. Exists' /\ ~InLobby(game')
    <3>1. ASSUME NEW g \in AtSave, g \in Game, Save(g)
          PROVE  Exists' /\ ~InLobby(game')
      <4>1. g.host # Nobody /\ ~InLobby(g)
        BY <1>1, <3>1, Parts DEF AtSave, Settled, RequestOK, LeavingOK
      <4>2. game' = [g EXCEPT !.players = Linked(g)]
        BY <3>1 DEF Save
      <4>3. game'.host = g.host /\ game'.status = g.status
        BY <3>1, <4>2 DEF Game
      <4>4. QED
        BY <4>1, <4>3 DEF Exists, InLobby
    <3>2. QED
      BY <1>1, <3>1, StepSaves DEF Settled, Exists
  <2>2. QED
    BY <1>1, <2>1, CommandsStaySettled, DeparturesStaySettled DEF Settled
<1>2. IInv /\ [Next]_vars => [Settled => Settled' \/ HostReopens]_vars
  BY <1>1
<1>3. QED
  BY <1>2, InvariantHolds, PTL DEF Spec, StartUndoneOnlyByCrossing
=============================================================================
