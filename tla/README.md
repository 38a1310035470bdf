# A TLA+ development for the Deception Game server

The server in `src/` is a NestJS application: GraphQL commands, REST endpoints and a
socket gateway over TypeORM, for a party game in which players answer a prompt with a
lie, the truth is shown among the lies, everybody votes, and points are given for
finding the truth and for deceiving others.

This directory has TLA+ modules that model the parts of it that keep state, TLC
configurations that check them on small instances, and theorems that TLAPS checks for
every value of the constants.  Paths below are relative to `src/src/`, with `GW` for
`games/games.gateway.ts`, `GS` for `games/games.service.ts` and `GV` for
`games/validators/game.validator.ts`.  `PROJECT.json` maps every definition to the lines
it stands for.

To parse, check and prove: `tlasany M.tla`, `tlc -config R.cfg M`, `tlapm M.tla`.

## 1. Inventory

| Component | State | Operations | Correct when |
|---|---|---|---|
| Game loop (`GW`, `GS`, `players`, `answers`, `votes`, `rounds`) | the game's rows; handlers between two awaits; calls nobody awaits; the `gamers` map of sockets | `startGame`, `chooseTopic`, `submitAnswer`, `submitVote`, `endGame` of the gateway, `updateGame` of the resolver; `switchState`, `switchSubstate`, `addScoreToPlayer` beside them | phases change only when complete and announced; points are earned and counted once; the game is not closed early; every handler ends |
| Rows and mapper (entities, `common/services/generic.crud.service.ts`, TypeORM) | tables, and copies of them in memory | `findOne`, `preload`, `save`, `softDelete` | what is written from a stale copy keeps the properties of the rows |
| Game lobby (`games.resolver.ts`, `GS`, `GV`, `GW`) | the game, its players, soft deletion, sockets, the room | `create`, `joinGame`, `update`, `startGame`, `leaveGame`, `handleConnection`, `handleDisconnect`, `joinGameRoom`, `leaveGameRoom` | nobody sits unasked; nobody hears a game never open to them; players and starts are lost only to a command that crosses them |
| Friendships (`users/friendship.*`) | the friendship table; requests between two awaits | `sendRequest`, `acceptRequest`, `refuseRequest` | friends have both agreed; duplicates stay few |
| Notifications (`notifications/`) | the notification table, the `Subject`, open streams | two event listeners; the SSE endpoint; `markAsRead` | notifications are true, stored before they are shown, none is lost while the process runs |
| Payments (`payment/`, `stripe/`) | payment rows, `isPremium`; Stripe's sessions and repeated webhooks | `createPayment`, the webhook | premium only for payers, and for each payer in the end |
| Topics and prompts (`topics/`, `prompts/`) | the topic and prompt tables; copies of a topic and its prompts in handlers | create, activate, deactivate, update, remove, delete; what a game draws from | a prompt is drawn for the topic it was written for, and lost to it only by a crossing; what is removed stays removed |
| Authentication, roles | HTTP sessions | guards | one request, decided from its session |
| Filters, configuration, bootstrap, items | none | | |

How they interact: gateway handlers and resolvers call `GamesService`, which loads the
whole game through the validator and saves it back through `GenericCrudService.update`
(a `preload` and a `save`); the services of players, answers and votes write rows that
belong to the same graph; `FriendshipService` is asked by the lobby whether two users are
friends, and emits events to `NotificationsService`, which stores and then pushes;
`PaymentService` talks to Stripe, which calls back the controller.

What is hard about it:

* **Stale copies.**  Handlers hold a game over several awaits and save all of it.  A save
  overwrites columns, and unlinks children the copy has never seen.
* **Un-awaited calls.**  `GS:225, 229, 255, 134, 136` and the gateway's calls of
  `switchSubstate` and `switchState` run beside the code that made them.  When one rejects,
  nobody catches it and the Node process ends, with every handler of every game.
* **Checks far from their effects.**  `sendRequest`, `joinGame`, `chooseTopic`,
  `createPaymentSession`, `createTopic` and `deleteWithValidation` decide on rows read some
  awaits before they write.
* **Rows that go and come back.**  Deletion is soft: no query finds the row, its name and its
  links still count, and saving a copy of it brings it back.
* **The outside.**  Stripe repeats webhooks; sockets are lost at any moment; a stream that
  is not open misses what passes; the process stops between two writes.

`PROJECT.json` lists the hazards one by one, each at its line with the properties that
cover it, or the reason why none does.

## 2. Modules

| Module | What it is |
|---|---|
| `GameStore` | rows of one game; what queries, `preload` and `save` do with them |
| `GameServer` | the process: handlers and jobs in progress, announcements, death and restart; the steps of the un-awaited calls |
| `GameLoop` | the gateway's handlers, from a start to the final results; properties |
| `GameLoopInvariant`, `GameLoopProofs` | the inductive invariant, and the proofs |
| `MCGameLoop` | values of the constants for TLC |
| `DeceptionRules` | abstract specification: the game as its players see it |
| `TurnPlay`, `MCTurnPlay` | `GameLoop` with players who keep to their turns, refining `DeceptionRules`; the documented promises |
| `Tally`, `TallyProofs` | the inductive invariant of play by turns, in two parts, and the proof that no points are forged |
| `TurnPlayProofs` | the proof that play by turns implements `DeceptionRules` |
| `Departures`, `DeparturesProofs`, `MCDepartures` | `GameLoop` with players who leave the game they play; properties and proofs |
| `Payments`, `PaymentsProofs` | requests and webhooks, with Stripe; invariant and proofs |
| `Purchase` | abstract specification: whoever is premium has paid, and stays so |
| `Friendships`, `FriendshipsProofs` | friend requests with the listeners they wake; invariant and proofs |
| `GameLobby`, `GameLobbyProofs`, `MCGameLobby` | who sits in a game, the sockets and the room; invariant and proofs |
| `Catalogue`, `CatalogueProofs`, `MCCatalogue` | the topics and prompts games draw from; invariant and proofs |

`GameLoop` extends `GameServer`, which extends `GameStore`.  `TurnPlay` extends `GameLoop`
and instantiates `DeceptionRules`; `Tally` extends both `TurnPlay` and
`GameLoopInvariant`; `Departures` extends `GameLoopInvariant` and
`TurnPlay`, and adds steps of its own beside theirs; `Payments` instantiates `Purchase`.

**Mistakes.**  Here and there a definition comes with a second of a similar name just
before it (`RoundsExceed` before `RoundsRemain`): the same code with a plausible error.
No specification uses these.  Put in the place of the right one, each makes TLC find a
violation of the property it was written for, which shows that the property can fail.

## 3. How the models correspond to the code

Common to all:

* **One step for each await.**  Node runs one callback at a time, so what a handler does
  between two awaits is one action.  A query and the code up to the next await are one
  step; a request that fails its validation changes nothing and is not a step.  A query
  returns the graph of one moment.
* **`update` is two steps**, `preload` and `save`, since `GenericCrudService.update` awaits
  twice.  Queries that only serve an answer to the client are left out.
* **Slots.**  `Handlers`, `Jobs`, `Listeners`, `Hooks`, `Leavers` bound how many are in progress
  at one time (in `Departures`, the leavers of the whole run).  The proofs hold for every number of them.
* **The process** may stop at any step (`Die`, `Stop`): what is in memory is gone, the rows
  stay.  `docker-compose.yml` gives the application no restart policy, so a `Restart` is
  somebody's doing.

**GameStore.**  A value of type `Game` is both what the tables hold and what a handler
remembers.  `Save` makes the tables equal to the object: rows the object's collections do
not list are unlinked.  `Preload` is the stale object's columns with the collections of the
tables merged in, which is what TypeORM's merge by primary key gives.  Ids are kept only
where their order matters: those of rounds, and those of one player's answers, or votes.
`GS:215` takes the last element of the list of rounds, and `GW:375` the first of an answer list, but
no query asks for an order: with `InOrder` the list is that of insertion, without it any row may be
at its end (`CurrentRounds`, `Firsts`).  What a player typed is not kept: an answer equal to the
correct one of its round's own prompt is turned away before anything is stored (`GW:253`), and
nothing else in a game looks at the text.  A vote for a lie has no answer
(`votes.service.ts:31` awaits the service itself), so `answer` is always `NoAnswer`.
`Relations` are the paths a query resolves: `GV:22` asks for `players`, which no entity
declares, and `GW` reads `answer.round` and `vote.player`, which are not loaded eagerly.  With
the declared relations every query for a game throws and nothing in the game works; the
runs assume the relations the handlers rely on, so that the rest of the code can be examined,
and the theorems hold for any set of them.

**GameServer.**  `req` holds handlers with the game each has loaded; `job` the un-awaited
calls.  `JobReject` is their failure: the state is not the one the switch expects, there
is no such player, the vote is for an id nobody's answer has.  Such a vote's lookup is taken
to fail before the save of the vote is over.  `told` is the set of announcements to the room,
a set because the properties ask only whether something was said.

**GameLoop.**  Players already sit in the game and fill it, so that `joinGame` turns everybody
away (`GS:60`); who joins is `GameLobby`.  `updateGame` is here, as it checks no status (`GS:70`):
the host loads the game at any time, before the start or after it, and saves all of it later.
So a started game may well return to the lobby, and no property says otherwise.  The settings it
changes (name, visibility, size) are not kept, and nobody joins a game whose size was raised; a status
or substate that the input names is left out, as it would simply be stored (`IInv`, and with it
`OutcomeWasAnnounced` and `PhaseWasAnnounced`, would then say what the host likes).  The random choices of chooser, topics and
prompts are nondeterministic.  A missing `answerId` takes the branch of a vote for the truth
(`votes.service.ts:30`), and is not told apart from one.

**TurnPlay.**  Clients that send a request only when it is their turn and nothing else is in
flight; the host does not change the game.  The program is that of `GameLoop`, with its un-awaited
calls running freely beside the single handler and beside one another, and stops anywhere.
`FairTurnSpec` adds fairness.  `Owner` says which user a player row belongs to; nothing makes the two
ids agree, and `GW:264` and `GW:330` store for the player who has the number of the user
(`HasAnswered`, `HasVoted`).

**DeceptionRules** knows rounds, votes, scores and the final results.  A player's points are at
most twenty for each true vote and ten for each vote another player gave to the player's lie, of the
rounds whose votes were shown.  The program stores a vote for a lie without the answer it is for
(`votes.service.ts:31`), which is a vote for something nobody can find (`VotesGiven`), and
the round stalls (`lies_stall`): it never comes to the ten points.  `Settle` lets points come late or be
lost, since the program loses them (`lost_scores`).

**Departures.**  `leaveGame` from the command or from `handleDisconnect`, in a game that is in play
or about to start; the departure of a host before the start, which makes another player host, is
`GameLobby`'s (`HandsOver`).  `SetOut` is its part up to the first query of its own: the player is found, the host's
departure puts the status `aborted` into the copy, and the two calls nobody awaits, the soft delete
(`GS:134`) and the update (`GS:136`), are left in `parting`, to run in any order among
everything else.  `db.players` are the rows a query returns; a row that is not there is in
`deleted` or has lost its link to the game (`loose`).  Every save of a game undeletes the
players it lists and unlinks those the tables have besides (`Relink`); it is conjoined to each
step of `GameLoop`, together with the end of all departures when the process ends
(`Swept`).  A call about a player whose row is deleted rejects at its query (`JobRejectGone`),
or, when the player was loaded before, saves it and brings it back (`JobSaveGone`).
`dropping` is where `handleDisconnect` waits.  `quit` is history: who has left.  `leaveGame`
deletes the player whose id is that of the user (`GS:130`), whoever that is: `Struck` are the
seats that go so.  The rest of `handleDisconnect` outside a game in progress is in `GameLobby`.

**Catalogue.**  `topic` and `prompt` are the tables; both keep the rows of what was removed
softly.  `SwitchTopic` (activate, deactivate) loads the topic with the prompts a query
finds, and saves it with that list: prompts found beside it later lose their topic
(`Linked`).  `UpdateTopic` preloads by the dto, which brings no prompts (`Unlisted`).  Names are
compared among the topics that are found before an insert, and among all rows by the unique
column; the foreign key counts removed prompts too.  A failed insert spends an id, as a
sequence does.  The random choices of a game are what they can draw from (`Offered`,
`Drawable`).  That names are unique is the unique column's doing and no property here.  `home` is history: the topic a prompt was written for; `crossed`: the prompts that
were inserted or restored while a list without them was about to be saved.

**Payments.**  A checkout session is open, complete or expired at Stripe; a completion or an
expiry is owed to the server (`due`) until a webhook is answered with success.
`createPaymentSession` finds an unfinished row, retrieves its session, or opens a new one
and stores its row.  The expiry column of a row is taken to agree with Stripe.  The upgrade
of the user (a preload and a save of one flag) is one step.

**Friendships.**  A row at the place of its id.  The lookups of the two users and the first
query are one step, as users never change here; `Befriend` (a reverse request that is pending is
accepted) notifies nobody.  `emit` runs the listener synchronously up to its first await, so
the event is in the listener's hand in the same step.  `willing` is history: who asked for,
or accepted, whom.  Notifications of the same thing are not told apart, and the flag
`isRead` is left out.

**GameLobby.**  One game.  `profile` is the player table, `gone` its soft-deleted rows: these
are in no query's result, keep their link, count for the unique pair of user and game
(`player.entity.ts:11`), and come back when an object that still holds them is saved.
`leaveGame` looks up the player to delete by the id of the user (`GS:130`), so users and
players are both numbers here.  Its `delete` and `update` are not awaited and go on in
`leaving`.  An exception in `handleDisconnect` is caught by nobody: of a departure it cannot make
(`Reject`), and of a socket that has no user (`DisconnectStranger`, `GW:67`).  `Settings` are what a
host may put into an update, statuses included, as `UpdateGameInput` allows.  Of the statuses
only the three that commands of the lobby tell apart or write are there.  `welcome` is history: who created
the game, or found it open when asking.  `crossed` is history: players who took a seat, by a join or by
being restored, while somebody had preloaded the game without them and was about to save it.

## 4. Runs

Passing runs:

| Run | Instance | Shows |
|---|---|---|
| `overlap` | `GameLoop`: 2 players, 2 handlers, 1 job, a total of 1 round, room for 2 round rows, 1 answer and 1 vote each; rows listed in any order, updates loaded before the start, votes for answers nobody gave, 4 or 5 active topics | `RoundsWithinTotal`, `PhaseWasAnnounced`, `OutcomeWasAnnounced`, `ToldInOrder`, `PointsAreEarned`, `TypeOK` in every interleaving of two handlers with a call left behind, whatever the players send; the inductive invariant `IInv` of the proofs |
| `turns` | `TurnPlay`: 2 players, each with the number of the other user, 2 rounds, 1 handler, 2 jobs, stops and restarts | the program as it is refines `DeceptionRules` (`PlaysByTheRules`), forges no points (`ScoresAreDue`), and scores each round whose votes it told to be complete (`TallyIsShared`, under fairness); the two parts of the inductive invariant, `TallyInOrder` and `AsksInOrder` |
| `departures` | `Departures`: 2 players, each with the number of the other user, 1 handler, 1 job, 1 departure, 1 round, players in turn as long as they stay | `AbortedOnlyByHost`, `OnlyNumberedSeatsEmpty`, the inductive invariant `DepartInv`; `HostEndsGame` and `RequestsEnd` under fairness |
| `purchases` | `Payments`: 2 users, 2 sessions, 1 request and 2 webhooks at a time, 1 stop | refinement of `Purchase` (`PurchaseIsKept`), `PaidSessionIsKnown`, `PaidBecomesPremium` under fairness, `IInv` |
| `friends` | `Friendships`: 2 users, 2 requests and 1 listener at a time, 3 rows, 1 stop | `FriendsAgreed`, `NotesAreTrue`, `ShownIsStored`, `FewDuplicates`, `RequestIsNotified`, `IInv` |
| `lobby` | `GameLobby`: 3 users, 2 of them friends, 2 commands and 1 departure at a time, 5 commands, 1 stop | `OnlyTheWelcomeSit`, `OnlyTheWelcomeHear`, `UnlinkedOnlyByCrossing`, `StartUndoneOnlyByCrossing`, `TypeOK`, `IInv` |
| `catalogue` | `Catalogue`: 2 names, 2 commands at a time, 2 topics, 2 prompts | `NothingForeignIsDrawn`, `LostOnlyByCrossing`, `RemovedIsForgotten`, `TypeOK`, `IInv` |

Runs that find a disagreement of the code with its documents; each checks one property:

| Run | Property | What the code does |
|---|---|---|
| `answers_race` | `AnswersLeadToVote` | the count of answers may miss the one just submitted (`GS:225`), and nobody counts again |
| `lies_stall` | `VotesLeadToResults` | a vote for a lie has no answer (`votes.service.ts:31`); the broadcast throws and the round never ends |
| `lost_scores` | `ScoresAreUpdated` | a score is overwritten by a switch that saved an older copy (`GS:255`) |
| `wrong_author` | `AnswerIsCredited` | the id of a user is used as the id of a player (`GW:264`) |
| `paid_twice` | `PaidOnce` | a second session can be opened and paid between a payment and its webhook (`payment.service.ts:64`) |

**Why the bounds are enough.**  Two of everything is the least that can race: two handlers
over one row, a job beside a handler; two jobs with copies of different ages are what
`lost_scores` needs, and the safety properties of `GameLoop` are proved for any number of jobs.  Two
rounds' rows against a total of one lets two `chooseTopic` cross; two rounds in `turns` reach
the second topic and the final results, with a score of the first round in a copy that is saved
in the second.  `overlap` has updates only of a game loaded before the start (`EditsInPlay`), which are
those that carry an old status; stops are in `turns`; the proofs have both without bound.  A third friendship row
gives a pair duplicates and a reverse request at once.  In the lobby, five commands reach
create, two joins that cross, a departure beside them and a further join, update or start (of the
sizes, two is the least at which a start is possible and the game can be full);
with more commands or a second departure at a time the states go into the tens of millions.
In `departures` one departure, with the two calls it leaves behind, meets a handler and a call with
older copies of the game; several departures at once are covered by the proofs (`Leavers`
is any set there).  In `catalogue` two topics can exchange names and two prompts lose and regain
a topic that is deleted and inserted again; `MaxTopics` and `MaxPrompts` count inserts.
The bounds on rows (`MaxRows`) are taken when a request arrives, so that no handler
is stuck half way for want of a row.

**Fairness.**  Weak fairness on the continuation of each handler and on each job: Node runs
what is ready, and the database answers.  Nothing is assumed of who sends requests in
`GameLoop`.  `TurnPlay` adds that players take the turns that come (`PlayersFair`), since a game
nobody plays does not end.  `FairDepartTurnSpec` has the fairness of handlers and calls, and the
same for the calls of a departure and for a disconnect under way; not for the
players, who may stop playing at any time.  `Payments` has strong fairness on the delivery of each event,
because Stripe repeats each on a schedule of its own even when others take the slots, and
weak fairness on `Restart`, because a server nobody starts again serves nobody; `MaxStops`
says that it is not stopped for ever.  Real Stripe gives up after some days; the model's does
not.  `Friendships`, `GameLobby` and `Catalogue` have no liveness properties: no retry stands
behind their events, and nothing there promises an end.

**Deadlock** is not checked where the system may stop for good: a process ended by an
unhandled rejection (`overlap`, `departures`, and the runs of `TurnPlay`), a finished game,
everybody premium, the last command of the lobby's bound or the last row of the catalogue's spent.

## 5. Theorems

All are proved for any sets of users, slots and rows, under the assumptions on constants
named where they are declared (a total of at least one round, finite seats, and so on).

**`GameLoopProofs`**: `Invariant` (`IInv`), `TypeCorrect`, `RoundsStayWithinTotal`,
`PhasesAreAnnounced`, `OutcomesAreAnnounced`, `NoUnearnedPoints`, `AnnouncementsInOrder`.
A property of the rows is not inductive here: a copy of the game loaded long ago is saved
later.  So `IInv` asks the same of *every* copy, in handlers and in jobs (`GameOK`), and uses
only what stays true of a copy while the rest goes on: what was told and which ids were
given only grow (`GameOKLater`, `RequestLater`, `CallLater`).  `PreloadOK` and `SaveOK` say that the mapper
turns good games into good games.  For `RoundsWithinTotal`, the number of a round comes
from the size of the loaded copy's list, which never exceeds the total whatever others insert.
All of this holds with `updateGame` at any time, rows listed in any order, and stops.

**`DeparturesProofs`**: `DeparturesAreKept` (`DepartInv`), `NobodyElseAborts`,
`OnlyNumberedSeatsGo`, `TheGameIsKept`, and `TurnsAreDepartures`, by which what holds of every run of
`DepartSpec` holds of the fair runs TLC checks.  The steps of `GameLoop` keep `IInv` by the lemma
of `GameLoopProofs`; the new steps change the players of a game, or save another copy, and
`IInv` says of both that they are good.  Neither of the two properties is inductive: a handler's
old copy may be saved after any departure.  So `Kept` asks of *every* copy, in handlers, calls and
departures, that it lists all seats but those that have the number of a user who left, and is aborted
only if the host has; as `quit` only grows, old copies stay good.  `Owner` is any function, so that
the seat that goes may be that of somebody who stayed, as `GS:130` has it; what is
proved is that no list saved over another makes any further seat go.  The other conjunct says where a
row can be: among the players, deleted, or unlinked.  `TheGameIsKept` carries over all
that `IInv` gives: rounds within the total, announcements in order, earned points and so on.

**`TallyProofs`**: `TurnsAreGameLoop`, `TallyStaysInOrder`, `NoPointsAreForged`, of the program as it is,
with its calls un-awaited, the process stopped anywhere, and any `Owner`.  A game that is saved
late overwrites newer scores (`lost_scores`): points are lost.  What is proved is that points are not
forged: whatever the order of the calls, nobody has points that no true vote stored for that player
gave, and no round gives a player its points twice.  Copies in memory may be of any age; but scores
only rise as long as nothing old is saved, so `TallyInOrder` asks of *every* copy, in tables, handlers and
calls, that it is within a `Limit`: what the votes of the tallied rounds give, without the last round for
those whose points have not been added yet.  To keep it, the votes of a round are complete once
the room was told so, a copy has the votes and the rounds of the tables (a vote is inserted while nothing
but the count of votes goes on), and only one call ever adds the points of a player for a round (`Apart`).

**`TurnPlayProofs`**: `AsksStayInOrder`, `TheRulesAreKept`.  Each step of that play is a step of
`DeceptionRules`, or is one the rules do not see.  For a round to be opened only when those before
it were tallied, and for no vote to come after its round was shown, the substate and the status must be
right in every copy that may yet be saved: `AsksInOrder` asks so of tables, handlers and calls, and of what
a switch is about to write.  The rounds and votes of `TallyInOrder` give the rest.

These assume `InOrder`: if a list of rounds comes in another order, votes go to a round that is over.
They also need that players take turns and the host changes nothing meanwhile: with two
requests at a time a round can be scored by two handlers, and points are only known to be earned
(`NoUnearnedPoints`).  Nothing is assumed of the ids of users and players.

**`CatalogueProofs`**: `InvariantHolds`, `PromptsHaveRows`,
`OnlyOwnPromptsAreDrawn`, `OnlyCrossingLoses`, `RemovedStaysRemoved`.  A prompt refers to the topic
it was written for, or to none if it has crossed a list; to keep that, every list in a
handler's hand has only prompts written for its topic (`RequestOK`), and a prompt in use
that such a list lacks is among those that crossed it.  `RemovedIsForgotten` is proved beside the invariant: only
what a query finds gets into a handler's hand, and only what is in one is saved back.

**`PaymentsProofs`**: `InvariantHolds`, `PaymentsAreKnown`, and `Refinement`: every step of the
payments is a step of `Purchase` or changes nothing it sees.  The invariant follows the page
the user is sent to: only sessions with a row have one, only those are paid, a webhook in
progress is of a completed session, and only payers are premium.

**`FriendshipsProofs`**: `InvariantHolds`, `OnlyTheWillingAreFriends`, `NotificationsAreTrue`,
`NothingIsOnlyShown`, `DuplicatesAreFew`, `RequestsAreNotified`.  Duplicates need a count: the rows
from one user to another and the slots that are about to insert one are together at most
the slots, because nobody sets out to insert once such a row is there.  `RequestIsNotified` is
proved beside the invariant, from the fact that a listener keeps its notification until it
is stored.

**`GameLobbyProofs`**: `InvariantHolds`, `TypeCorrect`, `WhoSitsWasWelcome`,
`WhoHearsWasWelcome`, `PlayersStayLinked`, `StartsStand`.  Again every copy of the game, in commands
and in departures, is to list only players whose users were welcome (`ViewOK`), and the table of
players and the welcome only grow.  A join that waits for the lookup of a friendship was
welcome if it is found.  For `PlayersStayLinked`, every copy that was preloaded has all
players there are but those in `crossed`; a query sees no deleted row, but its link stays, as `save`
does not compare it.  For `StartsStand`, a state in which no copy is of the lobby (`Settled`) can
be left only by a command that makes one: not by a join, which needs the lobby; not by a start;
not by a departure, which aborts or keeps what it loaded; only by the host's own update.

**Only model-checked**: liveness (`RequestsEnd`, `TallyIsShared`, `HostEndsGame`,
`PaidBecomesPremium`), which is beyond this prover.  `ENABLED` is, too, so that deadlock is
left to TLC.

## 6. What the code does besides

Seen while modelling, and allowed by the modules; no document says otherwise clearly
enough for a run of its own.

In the lobby, and when players leave:

* two joins that preload before either saves unlink one another's player;
* two joins that find one seat free overfill the game;
* a settings update or a join loaded before a start writes the old status back;
* `leaveGame`'s own save restores the player its delete removed, when the delete comes first;
* with ids that differ, `leaveGame` deletes another user's player (`GS:130`), or throws;
* the column `size` has the comment `The number of players required to start the game`, with 3 for a
  default (`game.entity.ts:43-46`); the code takes it for the most that may join (`GV:88`), and two are
  enough to start, whatever the size (`GS:90`);
* a disconnect that ends after a reconnect removes the new socket from `gamers` (`GW:83`), and
  one outside any game removes nothing;
* `gameAborted` is not announced when `leaveGame` reads the game before its save is over;
* an update may set the status directly; the input's `rounds` is no column of the game;
* the host who leaves a finished game aborts it;
* a handler that loaded the game before the host left, and saves it later, writes back
  that it is in progress: an aborted game goes on;
* a call about a player who has left by then ends the process (`players.service.ts:35, 46`).

In the game:

* an update that loaded the game before its start, and one whose input names the status, takes a
  started game back to the lobby, as does a departure or a join that loaded it before;
* two `chooseTopic` that cross make two rounds of one number, or one save unlinks the other's round;
* `addAnswerToPlayer` and the switch of the substate may lose one another's writes (`GS:251`);
* no query orders the rounds of a game, whose last one is taken for the current (`GS:215`);
* a game whose chooser has no socket, or with fewer than five active topics, is started
  and never asks for a topic;
* nothing puts the user into the request of a new socket before `GW:53` looks there, since no
  guard runs before `handleConnection`;
* with the relation `players` of `GV:22`, which no entity declares, every query for a game throws;
* with the final results the substate stays `SHOWING_RESULTS` (`GS:237` resets it only for a
  finished game), where line 101 of the repository's README has none;
* a round whose prompt has been removed is loaded without it, and `submitAnswer` then throws;
* a topic may be removed or deactivated between its offer and its choice (`GS:200`).

In the catalogue:

* `removeTopic`, the inherited mutation, does not ask for prompts as `deleteTopic` does, and a
  removed topic keeps its name, so that none of that name can be created;
* a prompt added or restored while its topic is being activated or deactivated loses its topic;
* `updatePrompt` ignores the input's `topicId`;
* `deletePrompt`, `activatePrompt`, `deactivatePrompt` and `promptsByTopic` of `PromptsResolver` call a
  field its constructor does not declare, and throw;
* both resolvers declare a mutation of the name `create`, of which a schema can have one;
* the raw `prompt.topicId` in the SQL of `prompts.service.ts:73` is not quoted, which PostgreSQL
  folds to lower case.

Elsewhere: a refusal that crosses an acceptance overwrites it; a reverse request that is
accepted notifies nobody; nobody calls `markAsRead` or `markManyAsRead`; sessions are in memory
and lost at a restart.

## 7. Plan

Done: the game loop with proofs; play by turns against its rules, with proofs; departures from a
game with proofs; the lobby, payments, friendships, topics and prompts with proofs.

Left:

1. `ScoresAreDue` without turns: what two handlers that score the same round can add.
2. `TurnPlay` beside departures: which of the rules a game keeps when a player leaves it.
3. Joins and updates of the status beside a game in play, in one module with its rounds.
4. `Notifications` read flags, if anything comes to depend on them.

## 8. Not modelled

* Authentication and guards: they decide one request from its session and have no state that
  another request changes.  A handler is modelled from where its guard let it in.
* Filters, logging, configuration, bootstrap: wiring and wording.  What an exception does to
  the handler, or to the process, is in `GameServer` and `GameLobby`.
* Items: a greeting.
* `removeGame`, `markAsRead` and `markManyAsRead`, which nothing calls or depends on.
* GraphQL, SSE and socket transport, TypeORM, PostgreSQL and Stripe, except as the code uses them.
* The statistics of a profile, and queries that only answer a client.
