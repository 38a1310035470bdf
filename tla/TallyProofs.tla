----------------------------- MODULE TallyProofs -----------------------------
(***************************************************************************)
(* Played in turn with no call awaited, points may be lost, but nobody has  *)
(* any that are not due: for any number of players, rounds, handlers and    *)
(* calls, and whichever user each player belongs to.                        *)
(***************************************************************************)
EXTENDS Tally, GameLoopProofs, FunctionTheorems

-----------------------------------------------------------------------------
(* Rounds                                                                   *)

\* The round opened last is the only one at the end of the list.
LEMMA CurrentIsLast ==
  ASSUME InOrder, NEW g, NEW n \in Nat, VotesInOrder(g, n), NEW r \in CurrentRounds(g)
  PROVE  n > 0 /\ r = RoundAt(n)
<1>1. g.rounds = {RoundAt(k) : k \in 1..n}
  BY DEF VotesInOrder
<1>2. r \in g.rounds /\ \A q \in g.rounds : q.id <= r.id
  BY DEF CurrentRounds
<1>3. PICK k \in 1..n : r = RoundAt(k)
  BY <1>1, <1>2
<1>4. n > 0 /\ RoundAt(n) \in g.rounds
  BY <1>1, <1>3
<1>5. n <= k
  BY <1>2, <1>3, <1>4 DEF RoundAt
<1>6. k = n
  BY <1>3, <1>5
<1>7. QED
  BY <1>3, <1>4, <1>6

\* There are as many rounds as were opened.
LEMMA RoundsCounted ==
  ASSUME NEW g, NEW n \in Nat, VotesInOrder(g, n)
  PROVE  Cardinality(g.rounds) = n
<1> DEFINE f == [k \in 1..n |-> RoundAt(k)]
<1>1. f \in Bijection(1..n, g.rounds)
  BY DEF VotesInOrder, RoundAt, Bijection, Injection, Surjection, IsInjective
<1>2. ExistsBijection(1..n, g.rounds)
  BY <1>1 DEF ExistsBijection
<1>3. QED
  BY <1>2, FS_CountingElements

-----------------------------------------------------------------------------
(* Counting votes and points                                                *)

\* If rows of different players are as many as the players, every player has one.
LEMMA EverybodyHasOne ==
  ASSUME NEW S, \A r \in S : r.by \in Seats,
         \A r, q \in S : r.by = q.by => r = q,
         Cardinality(S) = Cardinality(Seats)
  PROVE  \A p \in Seats : \E r \in S : r.by = p
<1> DEFINE f == [r \in S |-> r.by]
<1>1. f \in Injection(S, Seats)
  BY DEF Injection, IsInjective
<1>2. f \in Surjection(S, Seats)
  BY <1>1, SeatsAssumption, FS_Injection
<1>3. QED
  BY <1>2 DEF Surjection

LEMMA AllHaveVoted ==
  ASSUME NEW g \in Game, NEW n \in Nat, VotesInOrder(g, n),
         Cardinality(VotesOfRound(g, n)) = Cardinality(g.players)
  PROVE  \A p \in Seats : VotedIn(g, n, p)
<1> DEFINE S == VotesOfRound(g, n)
<1>1. \A v \in S : v \in SeatVotes(g) /\ v \in g.votes /\ v.by \in Seats /\ v.number = n
  BY DEF VotesOfRound, VotesInOrder, SeatVotes
<1>2. \A v, w \in S : v.by = w.by => v = w
  BY <1>1 DEF VotesInOrder
<1>3. Cardinality(S) = Cardinality(Seats)
  BY DEF VotesInOrder
<1> HIDE DEF S
<1>4. \A p \in Seats : \E v \in S : v.by = p
  BY <1>1, <1>2, <1>3, EverybodyHasOne
<1>5. QED
  BY <1>1, <1>4 DEF VotedIn

\* When each seat's number is a player's user, the players' users are the seats' numbers.
LEMMA SeatsAreUsers ==
  ASSUME NEW g, g.players = Seats, \A p \in Seats : IsPlayer(g, p)
  PROVE  \A u : IsPlayer(g, u) => u \in Seats
<1> DEFINE O == {Owner[p] : p \in Seats}
           f == [p \in Seats |-> Owner[p]]
<1>1. f \in Surjection(Seats, O)
  BY DEF Surjection
<1>2. Seats \in SUBSET O
  BY DEF IsPlayer
<1>3. IsFiniteSet(O) /\ Cardinality(O) <= Cardinality(Seats)
  <2> HIDE DEF O, f
  <2>1. QED
    BY <1>1, SeatsAssumption, FS_Surjection
<1>4. O = Seats
  <2> HIDE DEF O
  <2>1. Cardinality(Seats) <= Cardinality(O)
    BY <1>2, <1>3, FS_Subset
  <2>2. Cardinality(Seats) \in Nat /\ Cardinality(O) \in Nat
    BY <1>3, SeatsAssumption, FS_CardinalityType
  <2>3. Cardinality(Seats) = Cardinality(O)
    BY <1>3, <2>1, <2>2
  <2>4. QED
    BY <1>2, <1>3, <2>3, FS_Subset
<1>5. QED
  BY <1>4 DEF IsPlayer

\* The points due for n rounds are those due for the rounds before, and twenty more if
\* the vote of round n was for the truth.
LEMMA DueGrows ==
  ASSUME NEW g, NEW n \in Nat, n > 0, NEW p
  PROVE  /\ DueUpTo(g, n, p) \in Nat /\ DueUpTo(g, n - 1, p) \in Nat
         /\ DueUpTo(g, n, p) = DueUpTo(g, n - 1, p) + (IF BelievedIn(g, n, p) THEN 20 ELSE 0)
<1> DEFINE K(m) == {k \in 1..m : BelievedIn(g, k, p)}
<1>1. IsFiniteSet(K(n - 1))
  <2>1. IsFiniteSet(1..(n - 1)) /\ K(n - 1) \in SUBSET (1..(n - 1))
    BY FS_Interval
  <2>2. QED
    BY <2>1, FS_Subset
<1>2. n \notin K(n - 1)
  OBVIOUS
<1>3. BelievedIn(g, n, p) => K(n) = K(n - 1) \cup {n}
  OBVIOUS
<1>4. ~BelievedIn(g, n, p) => K(n) = K(n - 1)
  OBVIOUS
<1>5. Cardinality(K(n - 1)) \in Nat
  BY <1>1, FS_CardinalityType
<1>6. Cardinality(K(n - 1) \cup {n}) = Cardinality(K(n - 1)) + 1
  <2> HIDE DEF K
  <2>1. QED
    BY <1>1, <1>2, FS_AddElement
<1>7. DueUpTo(g, n, p) = 20 * Cardinality(K(n)) /\ DueUpTo(g, n - 1, p) = 20 * Cardinality(K(n - 1))
  BY DEF DueUpTo
<1> DEFINE new == Cardinality(K(n))
           old == Cardinality(K(n - 1))
<1>8. CASE BelievedIn(g, n, p)
  <2>1. new = old + 1
    BY <1>3, <1>6, <1>8
  <2> HIDE DEF K, new, old
  <2>2. 20 * new = 20 * old + 20 /\ 20 * new \in Nat /\ 20 * old \in Nat
    BY <1>5, <2>1 DEF old
  <2>3. QED
    BY <1>7, <1>8, <2>2 DEF new, old
<1>9. CASE ~BelievedIn(g, n, p)
  <2>1. new = old
    BY <1>4, <1>9
  <2> HIDE DEF K, new, old
  <2>2. 20 * new = 20 * old + 0 /\ 20 * new \in Nat /\ 20 * old \in Nat
    BY <1>5, <2>1 DEF old
  <2>3. QED
    BY <1>7, <1>9, <2>2 DEF new, old
<1>10. QED
  BY <1>8, <1>9

\* Points depend on the votes of the rounds counted only.
LEMMA DueOfVotes ==
  ASSUME NEW g, NEW g2, NEW n, NEW p,
         \A k \in 1..n : BelievedIn(g, k, p) <=> BelievedIn(g2, k, p)
  PROVE  DueUpTo(g, n, p) = DueUpTo(g2, n, p)
<1>1. {k \in 1..n : BelievedIn(g, k, p)} = {k \in 1..n : BelievedIn(g2, k, p)}
  OBVIOUS
<1>2. QED
  BY <1>1 DEF DueUpTo
-----------------------------------------------------------------------------
(* What a step has to leave behind                                          *)

LEMMA PlayParts ==
  ASSUME IInv
  PROVE  /\ db \in Game /\ ids.round \in Nat
         /\ req \in [Handlers -> Request] /\ job \in [Jobs -> Job]
BY DEF IInv, TypeOK

\* The vote a player cast in round n decides the points for it.
LEMMA PointsOfRound ==
  ASSUME IInv, NEW h \in Handlers, NEW n \in Nat, n > 0, VotesInOrder(db, n),
         NEW g, g = req[h].view, SeatVotes(g) = SeatVotes(db),
         NEW p \in Seats, NEW answer \in g.answers,
         NEW votes, votes = {v \in RowsOf(g.votes, p) : v.number = n},
         NEW right \in FoundOut(votes)
  PROVE  DueUpTo(db, n, p) = DueUpTo(db, n - 1, p) + Points(answer, right)
<1>1. Points(answer, right) = IF right THEN 20 ELSE 0
  BY PointsAre DEF IInv, RequestOK
<1>2. right <=> BelievedIn(db, n, p)
  <2>1. \A v \in votes : v \in SeatVotes(db) /\ v \in db.votes /\ v.by = p /\ v.number = n
    BY DEF RowsOf, SeatVotes
  <2>2. \A v \in db.votes : v.by = p /\ v.number = n => v \in votes
    BY DEF RowsOf, SeatVotes
  <2>3. \A v, w \in votes : v = w
    BY <2>1 DEF VotesInOrder
  <2>4. CASE votes = {}
    BY <2>2, <2>4 DEF BelievedIn, FoundOut
  <2>5. CASE votes # {}
    <3>1. PICK v \in votes : right = v.right
      BY <2>5 DEF FoundOut, Firsts
    <3>2. QED
      BY <2>1, <2>2, <2>3, <3>1 DEF BelievedIn
  <2>6. QED
    BY <2>4, <2>5
<1>3. DueUpTo(db, n, p) = DueUpTo(db, n - 1, p) + (IF BelievedIn(db, n, p) THEN 20 ELSE 0)
  BY DueGrows
<1>4. QED
  BY <1>1, <1>2, <1>3

-----------------------------------------------------------------------------
(* Limits                                                                   *)

LEMMA TallyParts ==
  ASSUME IInv, TallyInOrder
  PROVE  /\ db \in Game /\ ids.round \in Nat
         /\ req \in [Handlers -> Request] /\ job \in [Jobs -> Job]
         /\ VotesInOrder(db, ids.round) /\ db.players = Seats
         /\ \A p \in Seats : db.score[p] <= Limit[p] /\ db.score[p] \in Nat
         /\ \A h \in Handlers :
              /\ req[h] \in Request
              /\ RequestTallied(req[h], db, ids.round, told, Limit)
         /\ \A j \in Jobs :
              /\ job[j] \in Job
              /\ CallTallied(job[j], db, ids.round, told, Limit)
         /\ Apart
<1>1. /\ db \in Game /\ req \in [Handlers -> Request] /\ job \in [Jobs -> Job]
      /\ ids.round \in Nat
  BY PlayParts
<1>2. \A p \in Seats : db.score[p] \in Nat
  BY <1>1, SeatsAssumption DEF Game
<1>3. QED
  BY <1>1, <1>2 DEF TallyInOrder, VotesInOrder

\* What is due never falls with the rounds counted.
LEMMA DueRises ==
  ASSUME NEW g, NEW n \in Nat, NEW p
  PROVE  /\ DueUpTo(g, n - 1, p) \in Nat /\ DueUpTo(g, n, p) \in Nat
         /\ DueUpTo(g, n - 1, p) <= DueUpTo(g, n, p)
<1>1. CASE n = 0
  <2>1. {k \in 1..(n - 1) : BelievedIn(g, k, p)} = {} /\ {k \in 1..n : BelievedIn(g, k, p)} = {}
    BY <1>1
  <2>2. DueUpTo(g, n - 1, p) = 0 /\ DueUpTo(g, n, p) = 0
    BY <2>1, FS_EmptySet DEF DueUpTo
  <2>3. QED
    BY <2>2
<1>2. CASE n > 0
  BY <1>2, DueGrows
<1>3. QED
  BY <1>1, <1>2

LEMMA LimitIs ==
  ASSUME IInv, NEW p \in Seats
  PROVE  /\ Limit[p] \in Nat
         /\ Limit[p] <= DueUpTo(db, ids.round, p)
         /\ DueUpTo(db, ids.round - 1, p) <= Limit[p]
         /\ Tallied(told, ids.round) /\ ~Unscored(p) => Limit[p] = DueUpTo(db, ids.round, p)
         /\ ~Tallied(told, ids.round) \/ Unscored(p) => Limit[p] = DueUpTo(db, ids.round - 1, p)
<1> DEFINE n == ids.round
<1>1. n \in Nat
  BY PlayParts
<1>2. /\ DueUpTo(db, n - 1, p) \in Nat /\ DueUpTo(db, n, p) \in Nat
      /\ DueUpTo(db, n - 1, p) <= DueUpTo(db, n, p)
  BY <1>1, DueRises
<1>3. Limit[p] = DueUpTo(db, Counted(p), p)
  BY DEF Limit
<1>4. CASE Tallied(told, n) /\ ~Unscored(p)
  BY <1>2, <1>3, <1>4 DEF Counted
<1>5. CASE ~(Tallied(told, n) /\ ~Unscored(p))
  BY <1>2, <1>3, <1>5 DEF Counted
<1>6. QED
  BY <1>4, <1>5

LEMMA SameDue ==
  ASSUME NEW g, NEW d, SeatVotes(g) = SeatVotes(d), NEW n, NEW p \in Seats
  PROVE  DueUpTo(g, n, p) = DueUpTo(d, n, p)
<1>1. \A k : BelievedIn(g, k, p) <=> BelievedIn(d, k, p)
  BY DEF BelievedIn, SeatVotes
<1>2. QED
  BY <1>1, DueOfVotes

\* As long as the votes stay, limits only rise: when the last points of the round of a
\* player are under way.
LEMMA LimitRises ==
  ASSUME IInv, SeatVotes(db') = SeatVotes(db), ids'.round = ids.round,
         Tallied(told, ids.round) => Tallied(told', ids.round),
         NEW p \in Seats, Unscored(p)' => Unscored(p) \/ ~Tallied(told, ids.round)
  PROVE  Limit[p] <= Limit'[p] /\ Limit[p] \in Nat /\ Limit'[p] \in Nat
<1> DEFINE n == ids.round
<1>1. n \in Nat
  BY PlayParts
<1>2. /\ DueUpTo(db, n - 1, p) \in Nat /\ DueUpTo(db, n, p) \in Nat
      /\ DueUpTo(db, n - 1, p) <= DueUpTo(db, n, p)
  BY <1>1, DueRises
<1>3. Limit[p] = DueUpTo(db, Counted(p), p)
  BY DEF Limit
<1>4. Limit'[p] = DueUpTo(db', Counted(p)', p)
  BY DEF Limit
<1>5. DueUpTo(db', Counted(p)', p) = DueUpTo(db, Counted(p)', p)
  BY SameDue
<1>6. Counted(p)' \in {n, n - 1} /\ Counted(p) \in {n, n - 1} /\ (Counted(p) = n => Counted(p)' = n)
  BY <1>1 DEF Counted
<1>7. QED
  BY <1>2, <1>3, <1>4, <1>5, <1>6

-----------------------------------------------------------------------------
(* What is in memory stays in order while the rest goes on                  *)

LEMMA CopyTalliedLater ==
  ASSUME NEW c \in Game, NEW g, NEW g2, NEW a, NEW b, CopyTallied(c, g, a),
         g2.players = g.players, g2.rounds = g.rounds, SeatVotes(g2) = SeatVotes(g),
         \A p \in Seats : a[p] <= b[p] /\ a[p] \in Nat /\ b[p] \in Nat
  PROVE  CopyTallied(c, g2, b)
<1>1. \A p \in Seats : c.score[p] \in Nat
  BY SeatsAssumption DEF Game
<1>2. QED
  BY <1>1 DEF CopyTallied

LEMMA RequestTalliedLater ==
  ASSUME NEW r \in Request, NEW g, NEW g2, NEW n, NEW t, NEW u, NEW a, NEW b,
         RequestTallied(r, g, n, t, a),
         g2.players = g.players, g2.rounds = g.rounds, SeatVotes(g2) = SeatVotes(g), Tallied(t, n) <=> Tallied(u, n),
         \A p \in Seats : a[p] <= b[p] /\ a[p] \in Nat /\ b[p] \in Nat
  PROVE  RequestTallied(r, g2, n, u, b)
<1>1. r.view \in Game
  BY DEF Request
<1>2. CopyTallied(r.view, g, a) => CopyTallied(r.view, g2, b)
  BY <1>1, CopyTalliedLater
<1>3. QED
  BY <1>2 DEF RequestTallied

LEMMA CallTalliedLater ==
  ASSUME NEW c \in Job, NEW g, NEW g2, NEW n, NEW t, NEW u, NEW a, NEW b,
         CallTallied(c, g, n, t, a),
         g2.players = g.players, g2.rounds = g.rounds, SeatVotes(g2) = SeatVotes(g), Tallied(t, n) <=> Tallied(u, n),
         \A p \in Seats : a[p] <= b[p] /\ a[p] \in Nat /\ b[p] \in Nat
  PROVE  CallTallied(c, g2, n, u, b)
<1>1. c.view \in Game
  BY DEF Job
<1>2. CopyTallied(c.view, g, a) => CopyTallied(c.view, g2, b)
  BY <1>1, CopyTalliedLater
<1>3. c.who \in Seats => c.view.score[c.who] \in Nat
  BY <1>1, SeatsAssumption DEF Game
<1>4. \A p \in Seats : VotedIn(g, n, p) <=> VotedIn(g2, n, p)
  BY DEF VotedIn, SeatVotes
<1>5. c.who \in Seats => \A m : DueUpTo(g, m, c.who) = DueUpTo(g2, m, c.who)
  BY SameDue
<1>6. c.who \in Seats => RowsOf(g.votes, c.who) = RowsOf(g2.votes, c.who)
  BY DEF RowsOf, SeatVotes
<1>7. IsPlayer(g, c.who) => IsPlayer(g2, c.who)
  BY DEF IsPlayer
<1>8. (Casting(c) => c.who \in Seats) /\ (Awarding(c) => c.task = "addScore")
  BY DEF Casting, Awarding
<1>9. c.task = "addScore" => c.who \in Seats
  BY DEF CallTallied
<1>10. CASE c.who \in Seats
  BY <1>2, <1>3, <1>4, <1>5, <1>6, <1>7, <1>8, <1>10 DEF CallTallied
<1>11. CASE c.who \notin Seats
  BY <1>2, <1>8, <1>9, <1>11 DEF CallTallied
<1>12. QED
  BY <1>10, <1>11

LEMMA NothingTallied ==
  ASSUME NEW g, NEW n, NEW t, NEW a
  PROVE  /\ RequestTallied(Idle, g, n, t, a) /\ CallTallied(NoJob, g, n, t, a)
         /\ ~Casting(NoJob) /\ ~Awarding(NoJob) /\ \A p : ~ToScore(Idle, p)
BY DEF RequestTallied, CallTallied, Idle, NoJob, Casting, Awarding, ToScore

\* A step that leaves votes, rounds and the tally as they are.
LEMMA TallyStep ==
  ASSUME IInv, TallyInOrder, db'.players = Seats, db'.rounds = db.rounds,
         SeatVotes(db') = SeatVotes(db), ids'.round = ids.round,
         told \subseteq told', \A a \in told' : a.event = "allVotesSubmitted" => a \in told,
         \A p \in Seats : Unscored(p)' => Unscored(p),
         \A p \in Seats : db'.score[p] <= Limit'[p],
         Apart',
         \A h \in Handlers :
           req'[h] = req[h] \/ RequestTallied(req'[h], db', ids.round, told', Limit'),
         \A j \in Jobs :
           job'[j] = job[j] \/ CallTallied(job'[j], db', ids.round, told', Limit')
  PROVE  TallyInOrder'
<1> DEFINE n == ids.round
<1>1. Tallied(told, n) <=> Tallied(told', n)
  BY DEF Tallied, Say
<1>2. \A p \in Seats : Limit[p] <= Limit'[p] /\ Limit[p] \in Nat /\ Limit'[p] \in Nat
  BY <1>1, LimitRises
<1>3. VotesInOrder(db', n)
  BY DEF TallyInOrder, VotesInOrder, IsPlayer
<1>4. \A a \in told' : a.event = "allVotesSubmitted" => a.number <= n
  BY DEF TallyInOrder
<1>5. Tallied(told', n) => \A p \in Seats : VotedIn(db', n, p)
  BY <1>1 DEF TallyInOrder, VotedIn, SeatVotes
<1>6. \A h \in Handlers : RequestTallied(req'[h], db', n, told', Limit')
  BY <1>1, <1>2, TallyParts, RequestTalliedLater
<1>7. \A j \in Jobs : CallTallied(job'[j], db', n, told', Limit')
  BY <1>1, <1>2, TallyParts, CallTalliedLater
<1>8. QED
  BY <1>3, <1>4, <1>5, <1>6, <1>7 DEF TallyInOrder

-----------------------------------------------------------------------------
(* What a step has to leave behind                                          *)

\* A handler's step, and the call it leaves behind, may go on beside what is in progress.
LEMMA HandlerApart ==
  ASSUME IInv, TallyInOrder, NEW h \in Handlers, NoHandler \/ req[h] # Idle,
         NEW r, NEW c, req' = [req EXCEPT ![h] = r],
         (job' = job /\ c = NoJob) \/ (\E j \in Jobs : Start(j, c)),
         \A j \in Jobs : job[j] # NoJob =>
           /\ ~Opening(r)
           /\ Casting(job[j]) => Polling(r) /\ c = NoJob
           /\ Awarding(job[j]) =>
                ~ToScore(r, job[j].who) /\ ~(Awarding(c) /\ c.who = job[j].who),
         c # NoJob =>
           /\ ~Opening(r)
           /\ Casting(c) => Polling(r) /\ NoCall
           /\ Awarding(c) => ~ToScore(r, c.who)
  PROVE  Apart'
<1>1. req'[h] = r /\ \A k \in Handlers : k # h => req'[k] = Idle
  BY TallyParts DEF Apart, NoHandler
<1>2. \A k, i \in Handlers : req'[k] # Idle /\ req'[i] # Idle => k = i
  BY <1>1
<1>3. Polling(Idle) /\ ~Opening(Idle) /\ \A p : ~ToScore(Idle, p)
  BY DEF Idle, Polling, Opening, ToScore
<1>4. CASE job' = job /\ c = NoJob
  <2>1. \A k \in Handlers, j \in Jobs : job[j] # NoJob =>
          /\ ~Opening(req'[k])
          /\ Casting(job[j]) => Polling(req'[k])
          /\ Awarding(job[j]) => ~ToScore(req'[k], job[j].who)
    BY <1>1, <1>3
  <2>2. QED
    BY <1>2, <1>4, <2>1, TallyParts DEF Apart
<1>5. ASSUME NEW j \in Jobs, Start(j, c) PROVE Apart'
  <2>1. job[j] = NoJob /\ job'[j] = c /\ \A i \in Jobs : i # j => job'[i] = job[i]
    BY <1>5, TallyParts DEF Start
  <2>2. ~Casting(NoJob) /\ ~Awarding(NoJob)
    BY NothingTallied
  <2>3. \A k \in Handlers, i \in Jobs : job'[i] # NoJob =>
          /\ ~Opening(req'[k])
          /\ Casting(job'[i]) => Polling(req'[k])
          /\ Awarding(job'[i]) => ~ToScore(req'[k], job'[i].who)
    <3> SUFFICES ASSUME NEW k \in Handlers, NEW i \in Jobs, job'[i] # NoJob
                 PROVE  /\ ~Opening(req'[k])
                        /\ Casting(job'[i]) => Polling(req'[k])
                        /\ Awarding(job'[i]) => ~ToScore(req'[k], job'[i].who)
      OBVIOUS
    <3>1. CASE k # h
      BY <1>1, <1>3, <3>1
    <3>2. CASE k = h /\ i = j
      BY <1>1, <2>1, <3>2
    <3>3. CASE k = h /\ i # j
      BY <1>1, <2>1, <3>3
    <3>4. QED
      BY <3>1, <3>2, <3>3
  <2>4. \A i, k \in Jobs : Casting(job'[k]) /\ job'[i] # NoJob => i = k
    BY <2>1, <2>2, TallyParts DEF Apart, NoCall
  <2>5. \A i, k \in Jobs :
          Awarding(job'[i]) /\ Awarding(job'[k]) /\ job'[i].who = job'[k].who => i = k
    BY <2>1, <2>2, TallyParts DEF Apart
  <2>6. QED
    BY <1>2, <2>3, <2>4, <2>5 DEF Apart
<1>6. QED
  BY <1>4, <1>5

\* A handler's step that leaves votes and rounds, and counts no points that were not to come.
LEMMA HandlerTallies ==
  ASSUME IInv, IInv', TallyInOrder, Apart', NEW h \in Handlers, NEW r, NEW c,
         req' = [req EXCEPT ![h] = r],
         (job' = job /\ c = NoJob) \/ (\E j \in Jobs : Start(j, c)),
         db'.players = Seats, db'.rounds = db.rounds, SeatVotes(db') = SeatVotes(db),
         ids'.round = ids.round,
         told \subseteq told', \A a \in told' : a.event = "allVotesSubmitted" => a \in told,
         \A p \in Seats : ToScore(r, p) => Unscored(p),
         Awarding(c) => Unscored(c.who),
         \A p \in Seats : db'.score[p] <= Limit[p],
         RequestTallied(r, db, ids.round, told, Limit),
         CallTallied(c, db, ids.round, told, Limit)
  PROVE  TallyInOrder'
<1> DEFINE n == ids.round
<1>1. req'[h] = r /\ \A k \in Handlers : k # h => req'[k] = req[k]
  BY TallyParts
<1>2. \A j \in Jobs : job'[j] = job[j] \/ job'[j] = c
  BY TallyParts DEF Start
<1>3. \A p \in Seats : Unscored(p)' => Unscored(p)
  BY <1>1, <1>2 DEF Unscored
<1>4. Tallied(told, n) <=> Tallied(told', n)
  BY DEF Tallied, Say
<1>5. \A p \in Seats : Limit[p] <= Limit'[p] /\ Limit[p] \in Nat /\ Limit'[p] \in Nat
  BY <1>3, <1>4, LimitRises
<1>6. \A p \in Seats : db'.score[p] <= Limit'[p]
  <2>1. \A p \in Seats : db'.score[p] \in Nat
    BY SeatsAssumption DEF IInv, TypeOK, Game
  <2>2. QED
    BY <1>5, <2>1
<1>7. req' \in [Handlers -> Request] /\ job' \in [Jobs -> Job]
  BY DEF IInv, TypeOK
<1>8. RequestTallied(r, db', n, told', Limit')
  <2>1. r \in Request
    BY <1>1, <1>7
  <2>2. QED
    BY <1>4, <1>5, <2>1, TallyParts, RequestTalliedLater
<1>9. \A j \in Jobs : job'[j] = c => CallTallied(c, db', n, told', Limit')
  <2> SUFFICES ASSUME NEW j \in Jobs, job'[j] = c PROVE CallTallied(c, db', n, told', Limit')
    OBVIOUS
  <2>1. c \in Job
    BY <1>7
  <2>2. QED
    BY <1>4, <1>5, <2>1, TallyParts, CallTalliedLater
<1>10. QED
  BY <1>1, <1>2, <1>3, <1>6, <1>8, <1>9, TallyStep

\* The same when the handler writes nothing.
LEMMA HandlerTalliesAlone ==
  ASSUME IInv, IInv', TallyInOrder, Apart', NEW h \in Handlers, NEW r, NEW c,
         req' = [req EXCEPT ![h] = r],
         (job' = job /\ c = NoJob) \/ (\E j \in Jobs : Start(j, c)),
         db' = db, ids' = ids,
         told \subseteq told', \A a \in told' : a.event = "allVotesSubmitted" => a \in told,
         \A p \in Seats : ToScore(r, p) => Unscored(p),
         Awarding(c) => Unscored(c.who),
         RequestTallied(r, db, ids.round, told, Limit),
         CallTallied(c, db, ids.round, told, Limit)
  PROVE  TallyInOrder'
<1>1. db.players = Seats /\ \A p \in Seats : db.score[p] <= Limit[p]
  BY TallyParts
<1>2. QED
  BY <1>1, HandlerTallies

\* A call goes on, or returns, and casts or awards only what it was to.
LEMMA CallTallies ==
  ASSUME IInv, TallyInOrder, NEW j \in Jobs, job[j] # NoJob, NEW c,
         job' = [job EXCEPT ![j] = c], req' = req, told' = told,
         db'.players = Seats, db'.rounds = db.rounds, SeatVotes(db') = SeatVotes(db),
         ids'.round = ids.round,
         Casting(c) => Casting(job[j]),
         Awarding(c) => Awarding(job[j]) /\ c.who = job[j].who,
         \A p \in Seats : db'.score[p] <= Limit'[p],
         CallTallied(c, db', ids.round, told, Limit')
  PROVE  TallyInOrder'
<1>1. job'[j] = c /\ \A i \in Jobs : i # j => job'[i] = job[i]
  BY TallyParts
<1>2. \A p \in Seats : Unscored(p)' => Unscored(p)
  BY <1>1 DEF Unscored
<1>3. /\ \A i \in Jobs : job'[i] # NoJob => job[i] # NoJob
      /\ \A i \in Jobs : Casting(job'[i]) => Casting(job[i])
      /\ \A i \in Jobs : Awarding(job'[i]) => Awarding(job[i]) /\ job'[i].who = job[i].who
  BY <1>1
<1>4. Apart'
  <2>1. Apart
    BY TallyParts
  <2>2. \A k, h \in Handlers : req'[k] # Idle /\ req'[h] # Idle => k = h
    BY <2>1 DEF Apart
  <2>3. \A h \in Handlers, i \in Jobs : job'[i] # NoJob =>
          /\ ~Opening(req'[h])
          /\ Casting(job'[i]) => Polling(req'[h])
          /\ Awarding(job'[i]) => ~ToScore(req'[h], job'[i].who)
    BY <1>3, <2>1 DEF Apart
  <2>4. \A i, k \in Jobs :
          /\ Casting(job'[k]) /\ job'[i] # NoJob => i = k
          /\ Awarding(job'[i]) /\ Awarding(job'[k]) /\ job'[i].who = job'[k].who => i = k
    BY <1>3, <2>1 DEF Apart
  <2>5. QED
    BY <2>2, <2>3, <2>4 DEF Apart
<1>5. \A i \in Jobs : job'[i] = job[i] \/ CallTallied(job'[i], db', ids.round, told', Limit')
  BY <1>1
<1>6. QED
  BY <1>2, <1>4, <1>5, TallyStep

-----------------------------------------------------------------------------
(* Turns                                                                    *)

LEMMA OwnCopy ==
  ASSUME IInv, TallyInOrder, NEW f, f.players = db.players, f.rounds = db.rounds,
         f.votes = db.votes, f.score = db.score
  PROVE  CopyTallied(f, db, Limit)
BY TallyParts DEF CopyTallied, SeatVotes

\* A request that holds a copy and leaves no call behind.
LEMMA TurnTallies ==
  ASSUME IInv, IInv', TallyInOrder, Quiet, NEW h \in Handlers, NEW pc, NEW view,
         pc = "start.preload" \/ pc = "round.create" \/ pc = "end.save",
         req' = [req EXCEPT ![h] = [pc |-> pc, view |-> view, round |-> NoRound, todo |-> {}]],
         db' = db, ids' = ids, job' = job, told' = told,
         view.players = db.players, view.rounds = db.rounds, view.votes = db.votes,
         view.score = db.score
  PROVE  TallyInOrder'
<1> DEFINE r == [pc |-> pc, view |-> view, round |-> NoRound, todo |-> {}]
<1>1. r.pc = pc /\ r.view = view /\ req' = [req EXCEPT ![h] = r]
  OBVIOUS
<1> HIDE DEF r
<1>2. \A p : ~ToScore(r, p)
  BY <1>1 DEF ToScore
<1>3. RequestTallied(r, db, ids.round, told, Limit)
  BY <1>1, OwnCopy DEF RequestTallied
<1>4. CallTallied(NoJob, db, ids.round, told, Limit) /\ ~Awarding(NoJob) /\ ~Casting(NoJob)
  BY NothingTallied
<1>5. Apart'
  <2>1. \A j \in Jobs : job[j] = NoJob
    BY DEF Quiet, NoCall
  <2>2. NoHandler \/ req[h] # Idle
    BY DEF Quiet
  <2>3. req' = [req EXCEPT ![h] = r] /\ job' = job
    BY <1>1
  <2>5. QED
    BY <1>2, <1>4, <2>1, <2>2, <2>3, HandlerApart
<1>6. QED
  BY <1>1, <1>2, <1>3, <1>4, <1>5, HandlerTalliesAlone

LEMMA StartTurnTallies ==
  ASSUME IInv, IInv', TallyInOrder, Quiet, NEW h \in Handlers,
         StartInTurn(h) \/ TopicInTurn(h) \/ EndInTurn(h)
  PROVE  TallyInOrder'
<1>1. db \in Game
  BY TallyParts
<1>2. CASE StartInTurn(h)
  <2> DEFINE f == [db EXCEPT !.status = "in_progress"]
  <2>1. f.players = db.players /\ f.rounds = db.rounds /\ f.votes = db.votes /\ f.score = db.score
    BY <1>1 DEF Game
  <2>2. /\ req' = [req EXCEPT ![h] = [pc |-> "start.preload", view |-> f, round |-> NoRound,
                                       todo |-> {}]]
        /\ db' = db /\ ids' = ids /\ job' = job /\ told' = told
    BY <1>2 DEF StartInTurn, StartGame, Await
  <2> HIDE DEF f
  <2>3. QED
    BY <2>1, <2>2, TurnTallies
<1>3. CASE TopicInTurn(h)
  <2>1. /\ req' = [req EXCEPT ![h] = [pc |-> "round.create", view |-> db, round |-> NoRound,
                                       todo |-> {}]]
        /\ db' = db /\ ids' = ids /\ job' = job /\ told' = told
    BY <1>3 DEF TopicInTurn, ChooseTopic, Await
  <2>2. QED
    BY <2>1, TurnTallies
<1>4. CASE EndInTurn(h)
  <2> DEFINE f == [db EXCEPT !.status = "finished"]
  <2>1. f.players = db.players /\ f.rounds = db.rounds /\ f.votes = db.votes /\ f.score = db.score
    BY <1>1 DEF Game
  <2>2. /\ req' = [req EXCEPT ![h] = [pc |-> "end.save", view |-> f, round |-> NoRound,
                                       todo |-> {}]]
        /\ db' = db /\ ids' = ids /\ job' = job /\ told' = told
    BY <1>4 DEF EndInTurn, EndGame, Await
  <2> HIDE DEF f
  <2>3. QED
    BY <2>1, <2>2, TurnTallies
<1>5. QED
  BY <1>2, <1>3, <1>4

\* A request that leaves a player's call behind.
LEMMA CallLeftTallies ==
  ASSUME IInv, IInv', TallyInOrder, Quiet, NEW h \in Handlers, NEW r, NEW c,
         r.pc = "answers.count" \/ r.pc = "votes.count",
         req' = [req EXCEPT ![h] = r], \E j \in Jobs : Start(j, c),
         db' = db, ids' = ids, told' = told,
         ~Awarding(c), Casting(c) => r.pc = "votes.count",
         RequestTallied(r, db, ids.round, told, Limit),
         CallTallied(c, db, ids.round, told, Limit)
  PROVE  TallyInOrder'
<1>1. \A p : ~ToScore(r, p)
  BY DEF ToScore
<1>2. ~Opening(r) /\ (Casting(c) => Polling(r))
  BY DEF Opening, Polling
<1>3. NoHandler /\ NoCall /\ \A j \in Jobs : job[j] = NoJob
  BY DEF Quiet, NoCall
<1>4. Apart'
  BY <1>1, <1>2, <1>3, HandlerApart
<1>5. QED
  BY <1>1, <1>4, HandlerTalliesAlone

LEMMA AnswerTurnTallies ==
  ASSUME IInv, IInv', TallyInOrder, Quiet, NEW h \in Handlers, AnswerInTurn(h)
  PROVE  TallyInOrder'
<1>1. PICK u \in Users : SubmitAnswer(h, u)
  BY DEF AnswerInTurn
<1>2. PICK round \in CurrentRounds(db) :
        /\ \E j \in Jobs : Start(j, AddAnswer(u, round))
        /\ Await(h, "answers.count", NewGame, round, {})
  BY <1>1 DEF SubmitAnswer
<1> DEFINE r == [pc |-> "answers.count", view |-> NewGame, round |-> round, todo |-> {}]
           c == AddAnswer(u, round)
<1>3. /\ req' = [req EXCEPT ![h] = r] /\ \E j \in Jobs : Start(j, c)
      /\ db' = db /\ ids' = ids /\ told' = told
  BY <1>1, <1>2 DEF SubmitAnswer, Await
<1>4. c.task = "addAnswer" /\ c.pc = "load"
  BY DEF AddAnswer, NoJob
<1>5. r.pc = "answers.count"
  OBVIOUS
<1> HIDE DEF r, c
<1>6. ~Awarding(c) /\ ~Casting(c)
  BY <1>4 DEF Awarding, Casting
<1>7. RequestTallied(r, db, ids.round, told, Limit)
  BY <1>5 DEF RequestTallied
<1>8. CallTallied(c, db, ids.round, told, Limit)
  BY <1>4, <1>6 DEF CallTallied
<1>9. QED
  BY <1>3, <1>5, <1>6, <1>7, <1>8, CallLeftTallies

\* Whoever may still vote in the last round finds it not tallied.
LEMMA VoteIsInTime ==
  ASSUME IInv, TallyInOrder, NEW u, IsPlayer(db, u), ~VotedIn(db, ids.round, u)
  PROVE  ~Tallied(told, ids.round)
<1> SUFFICES ASSUME Tallied(told, ids.round) PROVE FALSE
  OBVIOUS
<1>1. \A p \in Seats : VotedIn(db, ids.round, p)
  BY DEF TallyInOrder
<1>2. \A p \in Seats : IsPlayer(db, p)
  BY <1>1, TallyParts DEF VotedIn, VotesInOrder, SeatVotes
<1>3. u \in Seats
  BY <1>2, TallyParts, SeatsAreUsers
<1>4. QED
  BY <1>1, <1>3

LEMMA VoteTurnTallies ==
  ASSUME InOrder, IInv, IInv', TallyInOrder, Quiet, NEW h \in Handlers, VoteInTurn(h)
  PROVE  TallyInOrder'
<1> DEFINE n == ids.round
<1>1. PICK u \in Users, ballot \in Ballots : ~HasVoted(u) /\ SubmitVote(h, u, ballot)
  BY DEF VoteInTurn
<1>2. PICK round \in CurrentRounds(db) :
        /\ \E j \in Jobs : Start(j, AddVote(u, round, ballot))
        /\ Await(h, "votes.count", NewGame, round, {})
  BY <1>1 DEF SubmitVote
<1>3. n > 0 /\ round = RoundAt(n) /\ round.number = n
  BY TallyParts, CurrentIsLast DEF RoundAt
<1> DEFINE r == [pc |-> "votes.count", view |-> NewGame, round |-> round, todo |-> {}]
           c == AddVote(u, round, ballot)
<1>4. /\ req' = [req EXCEPT ![h] = r] /\ \E j \in Jobs : Start(j, c)
      /\ db' = db /\ ids' = ids /\ told' = told
  BY <1>1, <1>2 DEF SubmitVote, Await
<1>5. IsPlayer(db, u) /\ ~VotedIn(db, n, u)
  BY <1>1, <1>3 DEF SubmitVote, HasVoted, VotedIn
<1>6. ~Tallied(told, n)
  BY <1>5, VoteIsInTime
<1>7. /\ c.task = "addVote" /\ c.pc = "load" /\ c.who = u /\ c.round = RoundAt(n)
  BY <1>3 DEF AddVote, NoJob
<1>8. r.pc = "votes.count" /\ r.round = RoundAt(n)
  BY <1>3
<1> HIDE DEF r, c
<1>9. ~Awarding(c)
  BY <1>7 DEF Awarding
<1>10. RequestTallied(r, db, n, told, Limit)
  BY <1>6, <1>8 DEF RequestTallied
<1>11. CallTallied(c, db, n, told, Limit)
  BY <1>3, <1>5, <1>7, <1>9 DEF CallTallied
<1>12. QED
  BY <1>4, <1>8, <1>9, <1>10, <1>11, CallLeftTallies

LEMMA TakeTurnTallies ==
  ASSUME InOrder, IInv, IInv', TallyInOrder, NEW h \in Handlers, TakeTurn(h)
  PROVE  TallyInOrder'
BY StartTurnTallies, AnswerTurnTallies, VoteTurnTallies DEF TakeTurn

-----------------------------------------------------------------------------
(* How a handler goes on                                                    *)

\* What a copy in order leaves in the tables, and what preload makes of it.
LEMMA CopySaved ==
  ASSUME IInv, TallyInOrder, NEW g \in Game, CopyTallied(g, db, Limit)
  PROVE  /\ Save(db, g).players = Seats /\ Save(db, g).rounds = db.rounds
         /\ SeatVotes(Save(db, g)) = SeatVotes(db)
         /\ \A p \in Seats : Save(db, g).score[p] <= Limit[p]
         /\ CopyTallied(Preload(db, g), db, Limit)
<1>1. db.players = Seats /\ g.players = Seats /\ SeatVotes(g) = SeatVotes(db) /\ g.rounds = db.rounds
  BY TallyParts DEF CopyTallied
<1>2. \A p \in Seats : Merged(db, g)[p] = g.score[p]
  BY <1>1, SeatsAssumption DEF Merged
<1>3. /\ Save(db, g).players = g.players /\ Save(db, g).rounds = g.rounds
      /\ Save(db, g).votes = (g.votes \ Elsewhere(g.votes, g)) \cup Elsewhere(db.votes, g)
      /\ Save(db, g).score = Merged(db, g)
  BY DEF Save, Game
<1>4. SeatVotes(Save(db, g)) = SeatVotes(db)
  BY <1>1, <1>3 DEF Elsewhere, SeatVotes
<1>5. /\ Preload(db, g).players = g.players \cup db.players
      /\ Preload(db, g).rounds = g.rounds \cup db.rounds
      /\ Preload(db, g).votes = g.votes \cup db.votes
      /\ Preload(db, g).score = Merged(db, g)
  BY DEF Preload, Game
<1>6. SeatVotes(Preload(db, g)) = SeatVotes(db)
  BY <1>1, <1>5 DEF SeatVotes
<1>7. QED
  BY <1>1, <1>2, <1>3, <1>4, <1>5, <1>6 DEF CopyTallied

LEMMA WaitingTallied ==
  ASSUME IInv, TallyInOrder, NEW h \in Handlers, req[h].pc # "idle"
  PROVE  /\ req[h] # Idle /\ req[h].view \in Game
         /\ RequestOK(req[h], told, ids)
         /\ RequestTallied(req[h], db, ids.round, told, Limit)
         /\ \A j \in Jobs : job[j] # NoJob =>
              /\ ~Opening(req[h])
              /\ Casting(job[j]) => req[h].pc = "votes.count"
              /\ Awarding(job[j]) => ~ToScore(req[h], job[j].who)
<1>1. req[h] # Idle /\ req[h].view \in Game
  BY TallyParts DEF Idle, Request
<1>2. QED
  BY <1>1, TallyParts DEF IInv, Apart, Polling

\* The step says nothing of votes being complete.
Quietly == told \subseteq told' /\ \A a \in told' : a.event = "allVotesSubmitted" => a \in told

LEMMA ToldQuietly ==
  ASSUME NEW s, told' = told \/ told' = told \cup s,
         \A a \in s : a.event # "allVotesSubmitted"
  PROVE  Quietly
BY DEF Quietly

\* The step leaves the players, rounds and votes of the tables as they are.
RowsStay == db'.players = Seats /\ db'.rounds = db.rounds /\ SeatVotes(db') = SeatVotes(db)

LEMMA RowsAreLeft ==
  ASSUME IInv, TallyInOrder, db' = db
  PROVE  RowsStay /\ \A p \in Seats : db'.score[p] <= Limit[p]
BY TallyParts DEF RowsStay

\* A handler returns, and leaves a switch behind or nothing.
LEMMA ReplyTallies ==
  ASSUME IInv, IInv', TallyInOrder, NEW h \in Handlers, req[h].pc # "idle", NEW c,
         req' = [req EXCEPT ![h] = Idle],
         (job' = job /\ c = NoJob) \/ (\E j \in Jobs : Start(j, c)),
         c = NoJob \/ req[h].pc # "votes.count",
         c = NoJob \/ ((c.task = "switchSubstate" \/ c.task = "switchState") /\ c.pc = "load"),
         RowsStay, ids'.round = ids.round, Quietly,
         \A p \in Seats : db'.score[p] <= Limit[p]
  PROVE  TallyInOrder'
<1>1. ~Casting(c) /\ ~Awarding(c) /\ CallTallied(c, db, ids.round, told, Limit)
  <2>1. CASE c = NoJob
    BY <2>1, NothingTallied
  <2>2. CASE c # NoJob
    BY <2>2 DEF Casting, Awarding, CallTallied
  <2>3. QED
    BY <2>1, <2>2
<1>2. RequestTallied(Idle, db, ids.round, told, Limit) /\ \A p : ~ToScore(Idle, p)
  BY NothingTallied
<1>3. Polling(Idle) /\ ~Opening(Idle) /\ req[h] # Idle
  BY WaitingTallied DEF Idle, Polling, Opening
<1>4. \A j \in Jobs : Casting(job[j]) => c = NoJob
  BY WaitingTallied, NothingTallied
<1>5. Apart'
  BY <1>1, <1>2, <1>3, <1>4, HandlerApart
<1>6. QED
  BY <1>1, <1>2, <1>5, HandlerTallies DEF RowsStay, Quietly

\* A handler goes on to its next await, and leaves no call behind.
LEMMA GoOnTallies ==
  ASSUME IInv, IInv', TallyInOrder, NEW h \in Handlers, NEW r,
         req[h].pc # "idle", req[h].pc # "votes.count",
         req' = [req EXCEPT ![h] = r], r.pc = "topics" \/ r.pc = "start.save", job' = job,
         RequestTallied(r, db, ids.round, told, Limit),
         RowsStay, ids'.round = ids.round, Quietly,
         \A p \in Seats : db'.score[p] <= Limit[p]
  PROVE  TallyInOrder'
<1>1. ~Casting(NoJob) /\ ~Awarding(NoJob) /\ CallTallied(NoJob, db, ids.round, told, Limit)
  BY NothingTallied
<1>2. \A p : ~ToScore(r, p)
  BY DEF ToScore
<1>3. req[h] # Idle /\ \A j \in Jobs : ~Casting(job[j])
  BY WaitingTallied, NothingTallied
<1>4. ~Opening(r)
  BY DEF Opening
<1>5. Apart'
  BY <1>1, <1>2, <1>3, <1>4, HandlerApart
<1>6. QED
  BY <1>1, <1>2, <1>5, HandlerTallies DEF RowsStay, Quietly

LEMMA ChoseTopicTallies ==
  ASSUME IInv, IInv', TallyInOrder, NEW h \in Handlers, ChoseTopic(h)
  PROVE  TallyInOrder'
<1> DEFINE c == SwitchSubstate(req[h].view.substate, "choosing_topic")
           s == {Say("chooseTopic", 0)}
<1>1. /\ req' = [req EXCEPT ![h] = Idle] /\ db' = db /\ ids' = ids
      /\ req[h].pc = "topics"
      /\ \/ job' = job /\ told' = told
         \/ (\E j \in Jobs : Start(j, c)) /\ told' = told \cup s
  BY DEF ChoseTopic, Reply, Tell
<1>2. Quietly
  <2>1. \A a \in s : a.event # "allVotesSubmitted"
    BY DEF Say
  <2> HIDE DEF s
  <2>2. QED
    BY <1>1, <2>1, ToldQuietly
<1>3. c.task = "switchSubstate" /\ c.pc = "load"
  BY DEF SwitchSubstate, NoJob
<1>4. RowsStay /\ \A p \in Seats : db'.score[p] <= Limit[p]
  BY <1>1, RowsAreLeft
<1> HIDE DEF c, s
<1>5. QED
  BY <1>1, <1>2, <1>3, <1>4, ReplyTallies

LEMMA CountAnswersTallies ==
  ASSUME IInv, IInv', TallyInOrder, NEW h \in Handlers, CountAnswers(h)
  PROVE  TallyInOrder'
<1> DEFINE c == SwitchSubstate("giving_answer", "voting")
           s == {Say("allAnswersSubmitted", req[h].round.number)}
<1>1. /\ req' = [req EXCEPT ![h] = Idle] /\ db' = db /\ ids' = ids
      /\ req[h].pc = "answers.count"
      /\ \/ job' = job /\ told' = told
         \/ (\E j \in Jobs : Start(j, c)) /\ told' = told \cup s
  BY DEF CountAnswers, Reply, Tell
<1>2. Quietly
  <2>1. \A a \in s : a.event # "allVotesSubmitted"
    BY DEF Say
  <2> HIDE DEF s
  <2>2. QED
    BY <1>1, <2>1, ToldQuietly
<1>3. c.task = "switchSubstate" /\ c.pc = "load"
  BY DEF SwitchSubstate, NoJob
<1>4. RowsStay /\ \A p \in Seats : db'.score[p] <= Limit[p]
  BY <1>1, RowsAreLeft
<1> HIDE DEF c, s
<1>5. QED
  BY <1>1, <1>2, <1>3, <1>4, ReplyTallies

\* The host's other changes of the game do not occur.
LEMMA UpdatePreloadTallies ==
  ASSUME IInv, IInv', TallyInOrder, NEW h \in Handlers, UpdatePreload(h)
  PROVE  TallyInOrder'
<1> DEFINE r == [pc |-> "start.save", view |-> Preload(db, req[h].view), round |-> NoRound,
                 todo |-> {}]
<1>1. /\ req' = [req EXCEPT ![h] = r] /\ db' = db /\ ids' = ids /\ job' = job /\ told' = told
      /\ req[h].pc = "start.preload"
  BY TallyParts DEF UpdatePreload, Await, RequestTallied
<1>2. CopyTallied(r.view, db, Limit)
  <2>1. req[h].view \in Game /\ CopyTallied(req[h].view, db, Limit)
    BY <1>1, WaitingTallied DEF RequestTallied
  <2>2. QED
    BY <2>1, CopySaved
<1>3. r.pc = "start.save"
  OBVIOUS
<1> HIDE DEF r
<1>4. RequestTallied(r, db, ids.round, told, Limit)
  BY <1>2, <1>3 DEF RequestTallied
<1>5. Quietly /\ RowsStay /\ \A p \in Seats : db'.score[p] <= Limit[p]
  BY <1>1, RowsAreLeft DEF Quietly
<1>6. QED
  BY <1>1, <1>3, <1>4, <1>5, GoOnTallies

\* The handlers that write the copy they hold.
LEMMA CopyIsSaved ==
  ASSUME IInv, TallyInOrder, NEW h \in Handlers,
         req[h].pc = "start.save" \/ req[h].pc = "round.save" \/ req[h].pc = "end.save",
         db' = Save(db, req[h].view)
  PROVE  RowsStay /\ \A p \in Seats : db'.score[p] <= Limit[p]
<1>1. req[h].view \in Game /\ CopyTallied(req[h].view, db, Limit)
  BY WaitingTallied DEF RequestTallied
<1>2. QED
  BY <1>1, CopySaved DEF RowsStay

LEMMA StartGameSaveTallies ==
  ASSUME IInv, IInv', TallyInOrder, NEW h \in Handlers, StartGameSave(h)
  PROVE  TallyInOrder'
<1> DEFINE r == [pc |-> "topics", view |-> req[h].view, round |-> NoRound, todo |-> {}]
           s == {Say("gameStarted", 0)}
<1>1. /\ req[h].pc = "start.save" /\ ids' = ids /\ job' = job
      /\ db' = Save(db, req[h].view) /\ told' = told \cup s
      /\ req' = [req EXCEPT ![h] = r] \/ req' = [req EXCEPT ![h] = Idle]
  BY DEF StartGameSave, AskForTopic, Await, Reply, Tell
<1>2. RowsStay /\ \A p \in Seats : db'.score[p] <= Limit[p]
  BY <1>1, CopyIsSaved
<1>3. Quietly
  <2>1. \A a \in s : a.event # "allVotesSubmitted"
    BY DEF Say
  <2> HIDE DEF s
  <2>2. QED
    BY <1>1, <2>1, ToldQuietly
<1>4. r.pc = "topics"
  OBVIOUS
<1> HIDE DEF r, s
<1>5. RequestTallied(r, db, ids.round, told, Limit)
  BY <1>4 DEF RequestTallied
<1>6. CASE req' = [req EXCEPT ![h] = r]
  BY <1>1, <1>2, <1>3, <1>4, <1>5, <1>6, GoOnTallies
<1>7. CASE req' = [req EXCEPT ![h] = Idle]
  BY <1>1, <1>2, <1>3, <1>7, ReplyTallies
<1>8. QED
  BY <1>1, <1>6, <1>7

LEMMA LastSaveTallies ==
  ASSUME IInv, IInv', TallyInOrder, NEW h \in Handlers, SaveRound(h) \/ EndGameSave(h)
  PROVE  TallyInOrder'
<1> DEFINE s == {Say("answerPrompt", req[h].round.number)}
           e == {Say("gameEnded", 0)}
<1>1. /\ req[h].pc = "round.save" \/ req[h].pc = "end.save"
      /\ ids' = ids /\ job' = job /\ db' = Save(db, req[h].view)
      /\ told' = told \cup s \/ told' = told \cup e
      /\ req' = [req EXCEPT ![h] = Idle]
  BY DEF SaveRound, EndGameSave, Reply, Tell
<1>2. RowsStay /\ \A p \in Seats : db'.score[p] <= Limit[p]
  BY <1>1, CopyIsSaved
<1>3. Quietly
  <2>1. (\A a \in s : a.event # "allVotesSubmitted") /\ \A a \in e : a.event # "allVotesSubmitted"
    BY DEF Say
  <2> HIDE DEF s, e
  <2>2. QED
    BY <1>1, <2>1, ToldQuietly
<1>4. QED
  BY <1>1, <1>2, <1>3, ReplyTallies

LEMMA ShareScoresTallies ==
  ASSUME IInv, IInv', TallyInOrder, NEW h \in Handlers, ShareScores(h)
  PROVE  TallyInOrder'
<1> DEFINE r == [pc |-> "topics", view |-> db, round |-> NoRound, todo |-> {}]
           c == SwitchState("in_progress", "final_results")
           s == {Say("scoresUpdated", req[h].round.number)}
           e == {Say("scoresUpdated", req[h].round.number), Say("finalResults", 0)}
<1>1. /\ req[h].pc = "score" /\ db' = db /\ ids' = ids
      /\ told' = told \cup s \/ told' = told \cup e
      /\ \/ req' = [req EXCEPT ![h] = r] /\ job' = job
         \/ req' = [req EXCEPT ![h] = Idle] /\ job' = job
         \/ req' = [req EXCEPT ![h] = Idle] /\ \E j \in Jobs : Start(j, c)
  BY DEF ShareScores, AskForTopic, Await, Reply, Tell
<1>2. RowsStay /\ \A p \in Seats : db'.score[p] <= Limit[p]
  BY <1>1, RowsAreLeft
<1>3. Quietly
  <2>1. (\A a \in s : a.event # "allVotesSubmitted") /\ \A a \in e : a.event # "allVotesSubmitted"
    BY DEF Say
  <2> HIDE DEF s, e
  <2>2. QED
    BY <1>1, <2>1, ToldQuietly
<1>4. r.pc = "topics"
  OBVIOUS
<1>5. c.task = "switchState" /\ c.pc = "load"
  BY DEF SwitchState, NoJob
<1> HIDE DEF r, c, s, e
<1>6. RequestTallied(r, db, ids.round, told, Limit)
  BY <1>4 DEF RequestTallied
<1>7. CASE req' = [req EXCEPT ![h] = r] /\ job' = job
  BY <1>1, <1>2, <1>3, <1>4, <1>6, <1>7, GoOnTallies
<1>8. CASE req' = [req EXCEPT ![h] = Idle] /\ job' = job
  BY <1>1, <1>2, <1>3, <1>8, ReplyTallies
<1>9. CASE req' = [req EXCEPT ![h] = Idle] /\ \E j \in Jobs : Start(j, c)
  BY <1>1, <1>2, <1>3, <1>5, <1>9, ReplyTallies
<1>10. QED
  BY <1>1, <1>7, <1>8, <1>9

LEMMA ScorePlayerTallies ==
  ASSUME IInv, IInv', TallyInOrder, NEW h \in Handlers, ScorePlayer(h)
  PROVE  TallyInOrder'
<1> DEFINE n == ids.round
           g == req[h].view
<1>1. req[h].pc = "score" /\ db' = db /\ ids' = ids /\ told' = told
  BY DEF ScorePlayer
<1>2. /\ req[h].round = RoundAt(n) /\ Tallied(told, n) /\ req[h].todo \subseteq Seats
      /\ CopyTallied(g, db, Limit) /\ req[h] # Idle
      /\ \A j \in Jobs : job[j] # NoJob =>
           ~Casting(job[j]) /\ (Awarding(job[j]) => ~ToScore(req[h], job[j].who))
  BY <1>1, WaitingTallied DEF RequestTallied
<1>3. n \in Nat /\ n > 0 /\ req[h].round.number = n
  <2>1. req[h].round.number \in 1..TotalRounds
    BY <1>1, WaitingTallied DEF RequestOK
  <2>2. QED
    BY <1>2, <2>1, RoundsAssumption DEF RoundAt
<1>4. PICK p \in req[h].todo :
        LET answers == {a \in RowsOf(g.answers, p) : a.round.number = n}
            votes   == {v \in RowsOf(g.votes, p) : v.number = n}
        IN  \/ /\ \E j \in Jobs, answer \in Firsts(answers), right \in FoundOut(votes) :
                    Start(j, AddScore(p, Points(answer, right)))
               /\ Await(h, "score", g, req[h].round, req[h].todo \ {p})
            \/ Reply(h) /\ job' = job
  BY <1>3 DEF ScorePlayer
<1> DEFINE votes == {v \in RowsOf(g.votes, p) : v.number = n}
           r == [pc |-> "score", view |-> g, round |-> req[h].round, todo |-> req[h].todo \ {p}]
<1>5. \/ /\ \E j \in Jobs, answer \in g.answers, right \in FoundOut(votes) :
              Start(j, AddScore(p, Points(answer, right)))
         /\ req' = [req EXCEPT ![h] = r]
      \/ req' = [req EXCEPT ![h] = Idle] /\ job' = job
  <2>1. Firsts({a \in RowsOf(g.answers, p) : a.round.number = n}) \subseteq g.answers
    BY DEF Firsts, RowsOf
  <2>2. QED
    BY <1>4, <2>1 DEF Await, Reply
<1>6. r.pc = "score" /\ r.view = g /\ r.round = RoundAt(n) /\ r.todo = req[h].todo \ {p}
  BY <1>2
<1> HIDE DEF r
<1>7. RequestTallied(r, db, n, told, Limit)
  BY <1>2, <1>6 DEF RequestTallied
<1>8. ASSUME NEW answer \in g.answers, NEW right \in FoundOut(votes),
             \E j \in Jobs : Start(j, AddScore(p, Points(answer, right))),
             req' = [req EXCEPT ![h] = r]
      PROVE  TallyInOrder'
  <2> DEFINE points == Points(answer, right)
             c == AddScore(p, points)
  <2>1. c.task = "addScore" /\ c.who = p /\ c.points = points /\ c.pc = "load"
    BY DEF AddScore, NoJob
  <2>2. DueUpTo(db, n - 1, p) + points = DueUpTo(db, n, p)
    <3>1. DueUpTo(db, n, p) = DueUpTo(db, n - 1, p) + points
      BY <1>2, <1>3, TallyParts, PointsOfRound DEF CopyTallied
    <3> HIDE DEF points
    <3>2. QED
      BY <3>1
  <2>3. \E j \in Jobs : Start(j, c)
    BY <1>8
  <2> HIDE DEF points, c, g, votes
  <2>4. CallTallied(c, db, n, told, Limit)
    BY <1>2, <2>1, <2>2 DEF CallTallied, Casting
  <2>5. ~Casting(c) /\ Awarding(c) /\ c # NoJob
    BY <2>1, NothingTallied DEF Casting, Awarding
  <2>6. /\ \A q : ToScore(r, q) => ToScore(req[h], q)
        /\ ToScore(req[h], p) /\ ~ToScore(r, p)
    BY <1>1, <1>4, <1>6 DEF ToScore
  <2>7. \A j \in Jobs : Awarding(job[j]) => job[j] # NoJob
    BY NothingTallied
  <2>8. \A j \in Jobs : Awarding(job[j]) => ~ToScore(r, job[j].who) /\ job[j].who # c.who
    BY <1>2, <2>1, <2>6, <2>7
  <2>9. Apart'
    <3>1. \A j \in Jobs : job[j] # NoJob =>
            /\ ~Opening(r)
            /\ Casting(job[j]) => Polling(r) /\ c = NoJob
            /\ Awarding(job[j]) =>
                 ~ToScore(r, job[j].who) /\ ~(Awarding(c) /\ c.who = job[j].who)
      BY <1>2, <1>6, <2>8 DEF Opening
    <3>2. /\ ~Opening(r)
          /\ Casting(c) => Polling(r) /\ NoCall
          /\ Awarding(c) => ~ToScore(r, c.who)
      BY <1>6, <2>1, <2>5, <2>6 DEF Opening
    <3>3. req[h] # Idle /\ req' = [req EXCEPT ![h] = r] /\ \E j \in Jobs : Start(j, c)
      BY <1>2, <1>8, <2>3
    <3>4. QED
      BY <3>1, <3>2, <3>3, HandlerApart
  <2>10. (\A q \in Seats : ToScore(r, q) => Unscored(q)) /\ Unscored(c.who)
    BY <2>1, <2>6 DEF Unscored
  <2>11. QED
    BY <1>1, <1>7, <1>8, <2>3, <2>4, <2>9, <2>10, HandlerTalliesAlone
<1>9. CASE req' = [req EXCEPT ![h] = Idle] /\ job' = job
  <2>1. Quietly /\ RowsStay /\ \A q \in Seats : db'.score[q] <= Limit[q]
    BY <1>1, RowsAreLeft DEF Quietly
  <2>2. QED
    BY <1>1, <1>9, <2>1, ReplyTallies
<1>10. QED
  BY <1>5, <1>8, <1>9

\* When the votes are complete nothing is cast or awarded, and all points are to come.
LEMMA CountVotesTallies ==
  ASSUME IInv, IInv', TallyInOrder, NEW h \in Handlers, CountVotes(h)
  PROVE  TallyInOrder'
<1> DEFINE n == ids.round
           c == SwitchSubstate("voting", "showing_results")
           r == [pc |-> "score", view |-> db, round |-> req[h].round, todo |-> db.players]
           s == {Say("allVotesSubmitted", req[h].round.number)}
           complete == Cardinality(VotesOfRound(db, req[h].round.number)) = Cardinality(db.players)
<1>1. /\ db' = db /\ ids' = ids /\ req[h].pc = "votes.count"
      /\ \/ /\ complete /\ req' = [req EXCEPT ![h] = r] /\ \E j \in Jobs : Start(j, c)
            /\ told' = told \cup s
         \/ req' = [req EXCEPT ![h] = Idle] /\ job' = job /\ told' = told
  BY DEF CountVotes, Reply, Await, Tell
<1>2. /\ req[h].round = RoundAt(n) /\ ~Tallied(told, n) /\ req[h] # Idle
      /\ req[h].round.number = n /\ n \in Nat
  BY <1>1, WaitingTallied, TallyParts DEF RequestTallied, RoundAt
<1>3. /\ r.pc = "score" /\ r.view = db /\ r.round = RoundAt(n) /\ r.todo = Seats
      /\ c.task = "switchSubstate" /\ c.pc = "load"
  BY <1>2, TallyParts DEF SwitchSubstate, NoJob
<1>4. s = {Say("allVotesSubmitted", n)} /\ (complete => \A p \in Seats : VotedIn(db, n, p))
  BY <1>2, TallyParts, AllHaveVoted
<1> HIDE DEF c, r, s, complete
<1>5. CASE /\ complete /\ req' = [req EXCEPT ![h] = r] /\ \E j \in Jobs : Start(j, c)
           /\ told' = told \cup s
  <2>1. \A j \in Jobs : ~Casting(job[j]) /\ ~Awarding(job[j])
    <3>1. \A j \in Jobs : Casting(job[j]) => job[j].who \in Seats
      BY TallyParts DEF CallTallied, Casting
    <3>2. \A j \in Jobs : Casting(job[j]) => ~VotedIn(db, n, job[j].who)
      BY TallyParts DEF CallTallied
    <3>3. \A j \in Jobs : ~Awarding(job[j])
      BY <1>2, TallyParts DEF CallTallied
    <3>4. QED
      BY <1>4, <1>5, <3>1, <3>2, <3>3
  <2>2. ~Casting(c) /\ ~Awarding(c)
    BY <1>3 DEF Casting, Awarding
  <2>3. Apart'
    <3>1. ~Opening(r)
      BY <1>3 DEF Opening
    <3>2. QED
      BY <1>2, <1>5, <2>1, <2>2, <3>1, HandlerApart
  <2>4. req'[h] = r /\ \A k \in Handlers : k # h => req'[k] = req[k]
    BY <1>5, TallyParts
  <2>5. Tallied(told', n) /\ \A p \in Seats : Unscored(p)'
    BY <1>3, <1>4, <1>5, <2>4 DEF Tallied, Unscored, ToScore
  <2>6. Limit' = Limit
    <3>1. \A p \in Seats : Counted(p) = n - 1
      BY <1>2 DEF Counted
    <3>2. \A p \in Seats : Counted(p)' = n - 1
      BY <1>1, <2>5 DEF Counted
    <3>3. \A p \in Seats : DueUpTo(db', n - 1, p) = DueUpTo(db, n - 1, p)
      BY <1>1
    <3>4. \A p \in Seats : DueUpTo(db', Counted(p)', p) = DueUpTo(db, Counted(p), p)
      BY <3>1, <3>2, <3>3
    <3>5. QED
      BY <3>4 DEF Limit
  <2>7. \A k \in Handlers : k # h => req'[k] = Idle
    BY <1>2, <2>4, TallyParts DEF Apart
  <2>8. \A k \in Handlers : RequestTallied(req'[k], db, n, told', Limit)
    <3>1. RequestTallied(r, db, n, told', Limit)
      BY <1>3, <2>5, OwnCopy DEF RequestTallied
    <3>2. QED
      BY <2>4, <2>7, <3>1, NothingTallied
  <2>9. \A j \in Jobs : CallTallied(job'[j], db, n, told', Limit)
    <3>1. CallTallied(c, db, n, told', Limit)
      BY <1>3, <2>2 DEF CallTallied
    <3>2. \A j \in Jobs : CallTallied(job[j], db, n, told', Limit)
      BY <2>1, TallyParts DEF CallTallied
    <3>3. \A j \in Jobs : job'[j] = job[j] \/ job'[j] = c
      BY <1>5, TallyParts DEF Start
    <3>4. QED
      BY <3>1, <3>2, <3>3
  <2>10. \A a \in told' : a.event = "allVotesSubmitted" => a.number <= n
    BY <1>2, <1>4, <1>5 DEF TallyInOrder, Say
  <2>11. QED
    BY <1>1, <1>4, <1>5, <2>3, <2>6, <2>8, <2>9, <2>10 DEF TallyInOrder
<1>6. CASE req' = [req EXCEPT ![h] = Idle] /\ job' = job /\ told' = told
  <2>1. Quietly /\ RowsStay /\ \A q \in Seats : db'.score[q] <= Limit[q]
    BY <1>1, <1>6, RowsAreLeft DEF Quietly
  <2>2. QED
    BY <1>1, <1>6, <2>1, ReplyTallies
<1>7. QED
  BY <1>1, <1>5, <1>6

LEMMA CreateRoundTallies ==
  ASSUME IInv, IInv', TallyInOrder, NEW h \in Handlers, CreateRound(h)
  PROVE  TallyInOrder'
<1> DEFINE n == ids.round
           m == n + 1
           g == req[h].view
           f == [g EXCEPT !.rounds = @ \cup {RoundAt(m)}, !.substate = "giving_answer"]
           r == [pc |-> "round.save", view |-> f, round |-> RoundAt(m), todo |-> {}]
<1>1. req[h].pc = "round.create" /\ job' = job /\ told' = told
  BY DEF CreateRound
<1>2. /\ CopyTallied(g, db, Limit) /\ g \in Game /\ req[h] # Idle
      /\ \A j \in Jobs : job[j] = NoJob
  BY <1>1, WaitingTallied DEF RequestTallied, Opening
<1>3. db \in Game /\ n \in Nat /\ VotesInOrder(db, n)
  BY TallyParts
<1>4. ids'.round = m
  <2>1. ids' = [ids EXCEPT !.round = n + 1]
    BY DEF CreateRound
  <2>2. QED
    BY <2>1 DEF IInv, TypeOK
<1>5. [id |-> n + 1, number |-> Cardinality(g.rounds) + 1] = RoundAt(m)
  BY <1>2, <1>3, RoundsCounted DEF RoundAt, CopyTallied
<1>6. /\ db' = [db EXCEPT !.rounds = @ \cup {RoundAt(m)}]
      /\ req' = [req EXCEPT ![h] = r]
  BY <1>5 DEF CreateRound, Await
<1>7. /\ db'.rounds = db.rounds \cup {RoundAt(m)} /\ db'.players = Seats
      /\ SeatVotes(db') = SeatVotes(db) /\ db'.score = db.score
  BY <1>3, <1>6 DEF Game, VotesInOrder, SeatVotes
<1>8. /\ f.rounds = db'.rounds /\ f.players = Seats /\ SeatVotes(f) = SeatVotes(db')
      /\ \A p \in Seats : f.score[p] <= Limit[p]
  BY <1>2, <1>7 DEF Game, CopyTallied, SeatVotes
<1>9. r.pc = "round.save" /\ r.view = f
  OBVIOUS
<1>10. req'[h] = r /\ \A k \in Handlers : k # h => req'[k] = Idle
  BY <1>2, <1>6, TallyParts DEF Apart
<1> HIDE DEF r, f, g
<1>11. VotesInOrder(db', m)
  <2>1. db'.rounds = {RoundAt(k) : k \in 1..m}
    BY <1>3, <1>7 DEF VotesInOrder
  <2>2. \A v \in SeatVotes(db') : v.number \in 1..m /\ IsPlayer(db', v.by)
    BY <1>3, <1>7 DEF VotesInOrder, IsPlayer
  <2>3. QED
    BY <1>3, <1>7, <2>1, <2>2 DEF VotesInOrder
<1>12. \A a \in told' : a.event = "allVotesSubmitted" => a.number <= n /\ a.number <= m
  BY <1>1, <1>3 DEF TallyInOrder, IInv, TypeOK, Announcement
<1>13. ~Tallied(told', m)
  BY <1>3, <1>12 DEF Tallied, Say
<1>14. \A p \in Seats : /\ Limit'[p] = DueUpTo(db, n, p)
                        /\ Limit[p] <= Limit'[p] /\ Limit[p] \in Nat /\ Limit'[p] \in Nat
  <2> SUFFICES ASSUME NEW p \in Seats
               PROVE  /\ Limit'[p] = DueUpTo(db, n, p)
                      /\ Limit[p] <= Limit'[p] /\ Limit[p] \in Nat /\ Limit'[p] \in Nat
    OBVIOUS
  <2>1. Counted(p)' = m - 1 /\ m - 1 = n
    BY <1>3, <1>4, <1>13 DEF Counted
  <2>2. Limit'[p] = DueUpTo(db', n, p)
    BY <2>1 DEF Limit
  <2>3. Limit'[p] = DueUpTo(db, n, p)
    BY <1>7, <2>2, SameDue
  <2>4. DueUpTo(db, n, p) \in Nat
    BY <1>3, DueRises
  <2>5. QED
    BY <2>3, <2>4, LimitIs
<1>15. \A p \in Seats : db'.score[p] <= Limit'[p] /\ f.score[p] <= Limit'[p]
  <2>1. \A p \in Seats : db.score[p] \in Nat /\ db.score[p] <= Limit[p]
    BY TallyParts
  <2>2. \A p \in Seats : f.score[p] \in Nat
    <3>1. req' \in [Handlers -> Request]
      BY DEF IInv, TypeOK
    <3>2. f \in Game
      BY <1>9, <1>10, <3>1 DEF Request
    <3>3. QED
      BY <3>2, SeatsAssumption DEF Game
  <2>3. QED
    BY <1>7, <1>8, <1>14, <2>1, <2>2
<1>16. \A k \in Handlers : RequestTallied(req'[k], db', m, told', Limit')
  <2>1. RequestTallied(r, db', m, told', Limit')
    BY <1>8, <1>9, <1>15 DEF RequestTallied, CopyTallied
  <2>2. QED
    BY <1>10, <2>1, NothingTallied
<1>17. \A j \in Jobs : job'[j] = NoJob /\ CallTallied(job'[j], db', m, told', Limit')
  BY <1>1, <1>2, NothingTallied
<1>18. Apart'
  <2>1. \A i, k \in Handlers : req'[i] # Idle /\ req'[k] # Idle => i = k
    BY <1>10
  <2>2. QED
    BY <1>17, <2>1, NothingTallied DEF Apart
<1>19. QED
  BY <1>4, <1>11, <1>12, <1>13, <1>15, <1>16, <1>17, <1>18 DEF TallyInOrder

LEMMA ContinueTallies ==
  ASSUME IInv, IInv', TallyInOrder, NEW h \in Handlers, Continue(h)
  PROVE  TallyInOrder'
<1>1. ~UpdateGameSave(h)
  BY TallyParts DEF UpdateGameSave, RequestTallied
<1>2. QED
  BY <1>1, ChoseTopicTallies, UpdatePreloadTallies, StartGameSaveTallies, CreateRoundTallies,
   LastSaveTallies, CountAnswersTallies, CountVotesTallies, ScorePlayerTallies,
   ShareScoresTallies
DEF Continue

-----------------------------------------------------------------------------
(* How a call goes on                                                       *)

LEMMA CallTalliedParts ==
  ASSUME IInv, TallyInOrder, NEW j \in Jobs
  PROVE  /\ job[j] \in Job /\ job[j].view \in Game
         /\ CallTallied(job[j], db, ids.round, told, Limit)
         /\ job[j].task # "none" \/ job[j].pc # "load" => job[j] # NoJob
BY TallyParts DEF NoJob, Job

\* A call that leaves votes and rounds, and gives nothing but what it was to give.
LEMMA CallGoesOnTallies ==
  ASSUME IInv, IInv', TallyInOrder, NEW j \in Jobs, job[j] # NoJob, NEW c,
         job' = [job EXCEPT ![j] = c], req' = req, told' = told, RowsStay,
         ids'.round = ids.round,
         Casting(c) => Casting(job[j]),
         Awarding(c) => Awarding(job[j]) /\ c.who = job[j].who,
         \A p \in Seats : db'.score[p] <= Limit[p],
         CallTallied(c, db, ids.round, told, Limit)
  PROVE  TallyInOrder'
<1> DEFINE n == ids.round
<1>1. job'[j] = c /\ \A i \in Jobs : i # j => job'[i] = job[i]
  BY TallyParts
<1>2. \A p \in Seats : Unscored(p)' => Unscored(p)
  BY <1>1 DEF Unscored
<1>3. /\ db'.players = Seats /\ db'.rounds = db.rounds /\ SeatVotes(db') = SeatVotes(db)
      /\ Tallied(told, n) => Tallied(told', n)
  BY DEF RowsStay
<1>4. \A p \in Seats : Limit[p] <= Limit'[p] /\ Limit[p] \in Nat /\ Limit'[p] \in Nat
  BY <1>2, <1>3, LimitRises
<1>5. \A p \in Seats : db'.score[p] <= Limit'[p]
  <2>1. \A p \in Seats : db'.score[p] \in Nat
    BY SeatsAssumption DEF IInv, TypeOK, Game
  <2>2. QED
    BY <1>4, <2>1
<1>6. c \in Job
  <2>1. job' \in [Jobs -> Job]
    BY DEF IInv, TypeOK
  <2>2. QED
    BY <1>1, <2>1
<1>7. CallTallied(c, db', n, told, Limit')
  BY <1>3, <1>4, <1>6, TallyParts, CallTalliedLater
<1>8. QED
  BY <1>3, <1>5, <1>7, CallTallies

\* The points are added to the player's copy: from now on they are within the limit.
LEMMA AwardLoadTallies ==
  ASSUME IInv, TallyInOrder, NEW j \in Jobs, JobLoadPlayer(j), job[j].task = "addScore"
  PROVE  TallyInOrder'
<1> DEFINE n == ids.round
           c == job[j]
<1>0. PICK p \in Seats : p = c.who
  BY CallTalliedParts DEF CallTallied
<1> DEFINE view == [PlayerView(db, p) EXCEPT !.score[p] = @ + c.points]
           d == [c EXCEPT !.pc = "preload", !.view = view]
<1>1. /\ c.pc = "load" /\ p \in Profiles
      /\ job' = [job EXCEPT ![j].pc = "preload", ![j].view = view]
      /\ db' = db /\ ids' = ids /\ req' = req /\ told' = told
  BY <1>0 DEF JobLoadPlayer, Goto
<1>2. /\ c \in Job /\ c # NoJob /\ Awarding(c) /\ p \in Seats /\ Tallied(told, n)
      /\ DueUpTo(db, n - 1, p) + c.points = DueUpTo(db, n, p)
  BY <1>0, <1>1, CallTalliedParts DEF Awarding, CallTallied
<1>3. d.task = "addScore" /\ d.who = p /\ d.pc = "preload" /\ d.view = view
  <2> HIDE DEF view
  <2>1. QED
    BY <1>0, <1>2 DEF Job
<1>4. job' = [job EXCEPT ![j] = d]
  BY <1>1, TallyParts
<1>5. /\ view.votes = RowsOf(db.votes, p) /\ view.score[p] = db.score[p] + c.points
      /\ \A v \in view.votes : v.by = p
  <2>1. db.score[p] \in Nat
    BY <1>1, TallyParts DEF Game
  <2>2. QED
    BY <1>1, <2>1 DEF PlayerView, NewGame, RowsOf
<1>6. ~Casting(d) /\ ~Awarding(d)
  BY <1>3 DEF Casting, Awarding
<1> HIDE DEF d, view
<1>7. job'[j] = d /\ \A i \in Jobs : i # j => job'[i] = job[i]
  BY <1>4, TallyParts
<1>8. \A q \in Seats : Unscored(q)' => Unscored(q)
  BY <1>1, <1>6, <1>7 DEF Unscored
<1>9. Unscored(p) /\ ~Unscored(p)'
  <2>1. Unscored(p)
    BY <1>0, <1>2 DEF Unscored
  <2>2. \A h \in Handlers : ~ToScore(req'[h], p)
    BY <1>0, <1>1, <1>2, TallyParts DEF Apart
  <2>3. \A i \in Jobs : ~(Awarding(job'[i]) /\ job'[i].who = p)
    BY <1>0, <1>2, <1>6, <1>7, TallyParts DEF Apart
  <2>4. QED
    BY <2>1, <2>2, <2>3 DEF Unscored
<1>10. \A q \in Seats : Limit[q] <= Limit'[q] /\ Limit[q] \in Nat /\ Limit'[q] \in Nat
  BY <1>1, <1>8, LimitRises
<1>11. \A q \in Seats : db'.score[q] <= Limit'[q]
  BY <1>1, <1>10, TallyParts
<1>12. view.score[p] <= Limit'[p]
  <2>1. Counted(p)' = n
    BY <1>1, <1>2, <1>9 DEF Counted
  <2>2. Limit'[p] = DueUpTo(db, n, p)
    BY <1>1, <1>2, <2>1 DEF Limit
  <2>3. db.score[p] <= DueUpTo(db, n - 1, p) /\ db.score[p] \in Nat
    BY <1>2, <1>9, TallyParts, LimitIs
  <2>4. c.points \in Nat /\ DueUpTo(db, n - 1, p) \in Nat
    BY <1>2, TallyParts, DueRises DEF Job
  <2>5. db.score[p] + c.points <= DueUpTo(db, n - 1, p) + c.points
    BY <2>3, <2>4
  <2>6. QED
    BY <1>2, <1>5, <2>2, <2>5
<1>13. CallTallied(d, db', n, told, Limit')
  BY <1>1, <1>2, <1>3, <1>5, <1>6, <1>12 DEF CallTallied
<1>14. db'.players = Seats
  BY <1>1, TallyParts
<1>15. QED
  BY <1>1, <1>2, <1>4, <1>6, <1>11, <1>13, <1>14, CallTallies

\* A call takes its next await, and keeps the rows as they are.
LEMMA CallWaitsTallies ==
  ASSUME IInv, IInv', TallyInOrder, NEW j \in Jobs, job[j] # NoJob, NEW pc, NEW view, NEW d,
         d = [job[j] EXCEPT !.pc = pc, !.view = view],
         job' = [job EXCEPT ![j].pc = pc, ![j].view = view],
         req' = req, told' = told, db' = db, ids'.round = ids.round,
         Casting(d) => Casting(job[j]), Awarding(d) => Awarding(job[j]),
         CallTallied(d, db, ids.round, told, Limit)
  PROVE  TallyInOrder'
<1>1. job' = [job EXCEPT ![j] = d] /\ d.who = job[j].who
  BY TallyParts DEF Job
<1>2. RowsStay /\ \A p \in Seats : db'.score[p] <= Limit[p]
  BY RowsAreLeft
<1>3. QED
  BY <1>1, <1>2, CallGoesOnTallies

LEMMA PlayerLoadTallies ==
  ASSUME IInv, IInv', TallyInOrder, NEW j \in Jobs, JobLoadPlayer(j)
  PROVE  TallyInOrder'
<1> DEFINE c == job[j]
           view == PlayerView(db, c.who)
           d == [c EXCEPT !.pc = "insert", !.view = view]
<1>1. CASE c.task = "addScore"
  BY <1>1, AwardLoadTallies
<1>2. CASE c.task # "addScore"
  <2>1. /\ c.task = "addAnswer" \/ c.task = "addVote"
        /\ c.pc = "load" /\ c.who \in Profiles
        /\ job' = [job EXCEPT ![j].pc = "insert", ![j].view = view]
        /\ db' = db /\ ids' = ids /\ req' = req /\ told' = told
    BY <1>2 DEF JobLoadPlayer, PlayerTask, Goto
  <2>2. c \in Job /\ c # NoJob /\ CallTallied(c, db, ids.round, told, Limit)
    BY <2>1, CallTalliedParts
  <2>3. d.task = c.task /\ d.who = c.who /\ d.round = c.round /\ d.pc = "insert" /\ d.view = view
    <3> HIDE DEF view
    <3>1. QED
      BY <2>2 DEF Job
  <2>4. /\ view.votes = RowsOf(db.votes, c.who) /\ view.score[c.who] = db.score[c.who]
        /\ \A v \in view.votes : v.by = c.who
    BY <2>1 DEF PlayerView, NewGame, RowsOf
  <2> HIDE DEF d, view
  <2>5. ~Awarding(d) /\ (Casting(d) => Casting(c))
    BY <2>1, <2>3 DEF Awarding, Casting
  <2>6. CallTallied(d, db, ids.round, told, Limit)
    BY <2>1, <2>2, <2>3, <2>4, <2>5, TallyParts DEF CallTallied
  <2>7. QED
    BY <2>1, <2>2, <2>5, <2>6, CallWaitsTallies DEF d
<1>3. QED
  BY <1>1, <1>2

LEMMA InsertAnswerTallies ==
  ASSUME IInv, IInv', TallyInOrder, NEW j \in Jobs, JobInsertAnswer(j)
  PROVE  TallyInOrder'
<1> DEFINE c == job[j]
           row == [id |-> ids.answer[c.who] + 1, by |-> c.who, round |-> c.round]
           view == [c.view EXCEPT !.answers = @ \cup {row}]
           d == [c EXCEPT !.pc = "preload", !.view = view]
<1>1. /\ c.task = "addAnswer" /\ c.pc = "insert"
      /\ job' = [job EXCEPT ![j].pc = "preload", ![j].view = view]
      /\ ids' = [ids EXCEPT !.answer[c.who] = @ + 1]
      /\ db' = db /\ req' = req /\ told' = told
  BY DEF JobInsertAnswer, Goto
<1>2. c \in Job /\ c.view \in Game /\ c # NoJob /\ CallTallied(c, db, ids.round, told, Limit)
  BY <1>1, CallTalliedParts
<1>3. d.task = c.task /\ d.who = c.who /\ d.pc = "preload" /\ d.view = view
  <2> HIDE DEF view
  <2>1. QED
    BY <1>2 DEF Job
<1>4. view.votes = c.view.votes /\ view.score = c.view.score
  BY <1>2 DEF Game
<1>5. ids'.round = ids.round
  BY <1>1 DEF IInv, TypeOK
<1> HIDE DEF d, view, row
<1>6. ~Awarding(d) /\ ~Casting(d)
  BY <1>1, <1>3 DEF Awarding, Casting
<1>7. CallTallied(d, db, ids.round, told, Limit)
  BY <1>1, <1>2, <1>3, <1>4, <1>6 DEF CallTallied
<1>8. QED
  BY <1>1, <1>2, <1>5, <1>6, <1>7, CallWaitsTallies DEF d

LEMMA LoadGameTallies ==
  ASSUME IInv, IInv', TallyInOrder, NEW j \in Jobs, JobLoadGame(j)
  PROVE  TallyInOrder'
<1> DEFINE c == job[j]
           view == IF c.task = "switchSubstate" THEN [db EXCEPT !.substate = c.to]
                                                ELSE [db EXCEPT !.status = c.to]
           d == [c EXCEPT !.pc = "preload", !.view = view]
<1>1. /\ c.task = "switchSubstate" \/ c.task = "switchState"
      /\ job' = [job EXCEPT ![j].pc = "preload", ![j].view = view]
      /\ db' = db /\ ids' = ids /\ req' = req /\ told' = told
  BY DEF JobLoadGame, SwitchTask, Goto
<1>2. c \in Job /\ c # NoJob /\ db \in Game
  BY <1>1, CallTalliedParts, TallyParts
<1>3. d.task = c.task /\ d.pc = "preload" /\ d.view = view
  <2> HIDE DEF view
  <2>1. QED
    BY <1>2 DEF Job
<1>4. /\ view.players = db.players /\ view.rounds = db.rounds
      /\ view.votes = db.votes /\ view.score = db.score
  BY <1>2 DEF Game
<1> HIDE DEF d, view
<1>5. ~Awarding(d) /\ ~Casting(d)
  BY <1>1, <1>3 DEF Awarding, Casting
<1>6. CallTallied(d, db, ids.round, told, Limit)
  BY <1>1, <1>3, <1>4, <1>5, OwnCopy DEF CallTallied
<1>7. QED
  BY <1>1, <1>2, <1>5, <1>6, CallWaitsTallies DEF d

LEMMA PreloadTallies ==
  ASSUME IInv, IInv', TallyInOrder, NEW j \in Jobs, JobPreload(j)
  PROVE  TallyInOrder'
<1> DEFINE c == job[j]
           view == IF PlayerTask(j) THEN PreloadPlayer(db, c.view, c.who)
                                    ELSE Preload(db, c.view)
           d == [c EXCEPT !.pc = "save", !.view = view]
<1>1. /\ c.pc = "preload"
      /\ job' = [job EXCEPT ![j].pc = "save", ![j].view = view]
      /\ db' = db /\ ids' = ids /\ req' = req /\ told' = told
  BY DEF JobPreload, Goto
<1>2. /\ c \in Job /\ c.view \in Game /\ c # NoJob
      /\ CallTallied(c, db, ids.round, told, Limit)
  BY <1>1, CallTalliedParts
<1>3. d.task = c.task /\ d.who = c.who /\ d.pc = "save" /\ d.view = view
  <2> HIDE DEF view
  <2>1. QED
    BY <1>2 DEF Job
<1>4. CASE PlayerTask(j)
  <2>1. /\ view.votes = c.view.votes \cup RowsOf(db.votes, c.who)
        /\ view.score = c.view.score
    BY <1>2, <1>4 DEF PreloadPlayer, Game
  <2>2. c.task = "addAnswer" \/ c.task = "addVote" \/ c.task = "addScore"
    BY <1>4 DEF PlayerTask
  <2> HIDE DEF d, view
  <2>3. ~Awarding(d) /\ ~Casting(d)
    BY <1>3 DEF Awarding, Casting
  <2>4. /\ \A v \in c.view.votes : v.by = c.who
        /\ c.who \in Seats => /\ c.view.votes = RowsOf(db.votes, c.who)
                              /\ c.view.score[c.who] <= Limit[c.who]
        /\ c.task = "addScore" => c.who \in Seats
    BY <1>1, <1>2, <2>2 DEF CallTallied
  <2>5. /\ \A v \in view.votes : v.by = c.who
        /\ c.who \in Seats => view.votes = RowsOf(db.votes, c.who)
    BY <2>1, <2>4 DEF RowsOf
  <2>6. CallTallied(d, db, ids.round, told, Limit)
    BY <1>3, <2>1, <2>2, <2>3, <2>4, <2>5 DEF CallTallied
  <2>7. QED
    BY <1>1, <1>2, <2>3, <2>6, CallWaitsTallies DEF d
<1>5. CASE ~PlayerTask(j)
  <2>1. c.task = "switchSubstate" \/ c.task = "switchState"
    <3>1. c.task # "none"
      BY <1>1 DEF IInv, CallOK
    <3>2. QED
      BY <1>2, <1>5, <3>1 DEF PlayerTask, Job, Tasks
  <2>2. CopyTallied(c.view, db, Limit)
    BY <1>1, <1>2, <2>1 DEF CallTallied
  <2>3. CopyTallied(view, db, Limit)
    BY <1>2, <1>5, <2>2, CopySaved
  <2> HIDE DEF d, view
  <2>4. ~Awarding(d) /\ ~Casting(d)
    BY <1>3 DEF Awarding, Casting
  <2>5. CallTallied(d, db, ids.round, told, Limit)
    BY <1>3, <2>1, <2>3, <2>4 DEF CallTallied
  <2>6. QED
    BY <1>1, <1>2, <2>4, <2>5, CallWaitsTallies DEF d
<1>6. QED
  BY <1>4, <1>5

\* What a call saves has the votes of the tables and no score beyond the limit.
LEMMA JobSaveLeaves ==
  ASSUME IInv, TallyInOrder, NEW j \in Jobs, JobSave(j)
  PROVE  RowsStay /\ \A p \in Seats : db'.score[p] <= Limit[p]
<1> DEFINE c == job[j]
<1>1. /\ c.pc = "save" /\ job' = [job EXCEPT ![j] = NoJob]
      /\ ids' = ids /\ req' = req /\ told' = told
      /\ db' = IF PlayerTask(j) THEN SavePlayer(db, c.view, c.who) ELSE Save(db, c.view)
  BY DEF JobSave
<1>2. /\ c \in Job /\ c.view \in Game /\ c # NoJob
      /\ CallTallied(c, db, ids.round, told, Limit)
  BY <1>1, CallTalliedParts
<1>3. RowsStay /\ \A p \in Seats : db'.score[p] <= Limit[p]
  <2>1. CASE PlayerTask(j)
    <3>1. /\ c.who \in Profiles /\ \A v \in c.view.votes : v.by = c.who
          /\ c.who \in Seats => /\ c.view.votes = RowsOf(db.votes, c.who)
                                /\ c.view.score[c.who] <= Limit[c.who]
      BY <1>1, <1>2, <2>1 DEF CallTallied, PlayerTask, IInv, CallOK
    <3>2. /\ db'.players = db.players /\ db'.rounds = db.rounds
          /\ db'.votes = (db.votes \ RowsOf(db.votes, c.who)) \cup c.view.votes
          /\ db'.score = [db.score EXCEPT ![c.who] = c.view.score[c.who]]
      BY <1>1, <2>1, TallyParts DEF SavePlayer, Game
    <3>3. SeatVotes(db') = SeatVotes(db)
      BY <3>1, <3>2 DEF RowsOf, SeatVotes
    <3>4. db.score \in [Profiles -> Nat] /\ \A p \in Seats : db.score[p] <= Limit[p]
      BY TallyParts DEF Game
    <3>5. \A p \in Seats : db'.score[p] <= Limit[p]
      BY <3>1, <3>2, <3>4, SeatsAssumption
    <3>6. QED
      BY <3>2, <3>3, <3>5, TallyParts DEF RowsStay
  <2>2. CASE ~PlayerTask(j)
    <3>1. c.task = "switchSubstate" \/ c.task = "switchState"
      <4>1. c.task # "none"
        BY <1>1 DEF IInv, CallOK
      <4>2. QED
        BY <1>2, <2>2, <4>1 DEF PlayerTask, Job, Tasks
    <3>2. CopyTallied(c.view, db, Limit)
      BY <1>1, <1>2, <3>1 DEF CallTallied
    <3>3. QED
      BY <1>1, <1>2, <2>2, <3>2, CopySaved DEF RowsStay
  <2>3. QED
    BY <2>1, <2>2
<1>4. QED
  BY <1>3

LEMMA SaveTallies ==
  ASSUME IInv, IInv', TallyInOrder, NEW j \in Jobs, JobSave(j)
  PROVE  TallyInOrder'
<1> DEFINE c == job[j]
<1>1. /\ c.pc = "save" /\ job' = [job EXCEPT ![j] = NoJob]
      /\ ids' = ids /\ req' = req /\ told' = told
  BY DEF JobSave
<1>2. c # NoJob
  BY <1>1, CallTalliedParts
<1>3. RowsStay /\ \A p \in Seats : db'.score[p] <= Limit[p]
  BY JobSaveLeaves
<1>4. ~Casting(NoJob) /\ ~Awarding(NoJob) /\ CallTallied(NoJob, db, ids.round, told, Limit)
  BY NothingTallied
<1>5. QED
  BY <1>1, <1>2, <1>3, <1>4, CallGoesOnTallies

\* A vote of the round being played, from a player who has none in it, gives nothing yet.
LEMMA VoteCast ==
  ASSUME NEW g, NEW n \in Nat, VotesInOrder(g, n), NEW v, v.number = n, v.number \in 1..n,
         v.by \in Seats, IsPlayer(g, v.by), ~VotedIn(g, n, v.by),
         NEW f, f.votes = g.votes \cup {v}, f.players = g.players, f.rounds = g.rounds
  PROVE  /\ VotesInOrder(f, n)
         /\ \A p : DueUpTo(f, n - 1, p) = DueUpTo(g, n - 1, p)
<1>1. /\ SeatVotes(f) = SeatVotes(g) \cup {v}
      /\ \A w \in SeatVotes(g) : ~(w.by = v.by /\ w.number = v.number)
  BY DEF VotedIn, SeatVotes
<1>2. VotesInOrder(f, n)
  BY <1>1 DEF VotesInOrder, IsPlayer
<1>3. ASSUME NEW p PROVE DueUpTo(f, n - 1, p) = DueUpTo(g, n - 1, p)
  <2>1. \A k \in 1..(n - 1) : v.number # k
    OBVIOUS
  <2>2. \A k \in 1..(n - 1) : BelievedIn(f, k, p) <=> BelievedIn(g, k, p)
    BY <2>1 DEF BelievedIn
  <2>3. QED
    BY <2>2, DueOfVotes
<1>4. QED
  BY <1>2, <1>3

\* The vote is inserted while no copy of the votes is in memory but the caster's own.
LEMMA SeatVoteTallies ==
  ASSUME IInv, IInv', TallyInOrder, NEW j \in Jobs, JobInsertVote(j), job[j].who \in Seats
  PROVE  TallyInOrder'
<1> DEFINE n == ids.round
           c == job[j]
           row == [id |-> ids.vote[c.who] + 1, by |-> c.who, number |-> c.round.number,
                   right |-> c.ballot = "truth", answer |-> NoAnswer]
           view == [c.view EXCEPT !.votes = @ \cup {row}]
           d == [c EXCEPT !.pc = "preload", !.view = view]
<1>1. /\ c.task = "addVote" /\ c.pc = "insert" /\ req' = req /\ told' = told
      /\ db' = [db EXCEPT !.votes = @ \cup {row}]
      /\ job' = [job EXCEPT ![j].pc = "preload", ![j].view = view]
      /\ ids' = [ids EXCEPT !.vote[c.who] = @ + 1]
  BY DEF JobInsertVote, Goto
<1>2. /\ c \in Job /\ c.view \in Game /\ c # NoJob /\ Casting(c)
      /\ n > 0 /\ c.round = RoundAt(n) /\ ~VotedIn(db, n, c.who) /\ IsPlayer(db, c.who)
      /\ c.view.votes = RowsOf(db.votes, c.who) /\ c.view.score[c.who] <= Limit[c.who]
  BY <1>1, CallTalliedParts DEF CallTallied, Casting
<1>3. d.task = c.task /\ d.who = c.who /\ d.pc = "preload" /\ d.view = view
  <2> HIDE DEF view
  <2>1. QED
    BY <1>2 DEF Job
<1>4. view.votes = c.view.votes \cup {row} /\ view.score = c.view.score
  BY <1>2 DEF Game
<1>5. row.by = c.who /\ row.number = n
  BY <1>2 DEF RoundAt
<1>6. ids'.round = n
  BY <1>1 DEF IInv, TypeOK
<1>7. job' = [job EXCEPT ![j] = d]
  BY <1>1, TallyParts
<1> HIDE DEF row, view, d
<1>8. /\ db'.votes = db.votes \cup {row} /\ db'.players = db.players
      /\ db'.rounds = db.rounds /\ db'.score = db.score
  BY <1>1, TallyParts DEF Game
<1>9. VotesInOrder(db', n) /\ \A p : DueUpTo(db', n - 1, p) = DueUpTo(db, n - 1, p)
  <2>1. n \in Nat /\ VotesInOrder(db, n) /\ n \in 1..n
    BY <1>2, TallyParts
  <2>2. QED
    BY <1>2, <1>5, <1>8, <2>1, VoteCast
<1>10. ~Tallied(told, n)
  BY <1>2 DEF TallyInOrder
<1>11. Limit' = Limit
  <2>1. \A p \in Seats : Counted(p) = n - 1
    BY <1>10 DEF Counted
  <2>2. \A p \in Seats : Counted(p)' = n - 1
    BY <1>1, <1>6, <1>10 DEF Counted
  <2>3. \A p \in Seats : DueUpTo(db', Counted(p)', p) = DueUpTo(db, Counted(p), p)
    BY <1>9, <2>1, <2>2
  <2>4. QED
    BY <2>3 DEF Limit
<1>12. job'[j] = d /\ \A i \in Jobs : i # j => job'[i] = NoJob
  BY <1>2, <1>7, TallyParts DEF Apart
<1>13. ~Casting(d) /\ ~Awarding(d)
  BY <1>1, <1>3 DEF Casting, Awarding
<1>14. Apart'
  <2>1. \A k, h \in Handlers : req'[k] # Idle /\ req'[h] # Idle => k = h
    BY <1>1, TallyParts DEF Apart
  <2>2. \A i \in Jobs : ~Casting(job'[i]) /\ ~Awarding(job'[i])
    BY <1>12, <1>13, NothingTallied
  <2>3. \A h \in Handlers : ~Opening(req'[h])
    BY <1>1, <1>2, TallyParts DEF Apart
  <2>4. QED
    BY <2>1, <2>2, <2>3 DEF Apart
<1>15. \A h \in Handlers : RequestTallied(req'[h], db', n, told', Limit')
  <2>1. \A h \in Handlers : Polling(req[h])
    BY <1>2, TallyParts DEF Apart
  <2>2. \A h \in Handlers : RequestTallied(req[h], db, n, told, Limit)
    BY TallyParts
  <2>3. QED
    BY <1>1, <2>1, <2>2 DEF RequestTallied, Polling
<1>16. \A i \in Jobs : CallTallied(job'[i], db', n, told', Limit')
  <2>1. view.votes = RowsOf(db'.votes, c.who) /\ \A v \in view.votes : v.by = c.who
    BY <1>2, <1>4, <1>5, <1>8 DEF RowsOf
  <2>2. CallTallied(d, db', n, told', Limit')
    BY <1>1, <1>2, <1>3, <1>4, <1>11, <1>13, <2>1 DEF CallTallied
  <2>3. QED
    BY <1>12, <2>2, NothingTallied
<1>17. \A a \in told' : a.event = "allVotesSubmitted" => a.number <= n
  BY <1>1 DEF TallyInOrder
<1>18. \A p \in Seats : db'.score[p] <= Limit'[p]
  BY <1>8, <1>11, TallyParts
<1>19. QED
  BY <1>1, <1>6, <1>9, <1>10, <1>14, <1>15, <1>16, <1>17, <1>18 DEF TallyInOrder

\* The vote of a user without a seat of the same id changes no seat's votes.
LEMMA StrangeVoteTallies ==
  ASSUME IInv, IInv', TallyInOrder, NEW j \in Jobs, JobInsertVote(j), job[j].who \notin Seats
  PROVE  TallyInOrder'
<1> DEFINE c == job[j]
           row == [id |-> ids.vote[c.who] + 1, by |-> c.who, number |-> c.round.number,
                   right |-> c.ballot = "truth", answer |-> NoAnswer]
           view == [c.view EXCEPT !.votes = @ \cup {row}]
           d == [c EXCEPT !.pc = "preload", !.view = view]
<1>1. /\ c.task = "addVote" /\ c.pc = "insert" /\ req' = req /\ told' = told
      /\ db' = [db EXCEPT !.votes = @ \cup {row}]
      /\ job' = [job EXCEPT ![j].pc = "preload", ![j].view = view]
      /\ ids' = [ids EXCEPT !.vote[c.who] = @ + 1]
  BY DEF JobInsertVote, Goto
<1>2. /\ c \in Job /\ c.view \in Game /\ c # NoJob
      /\ \A v \in c.view.votes : v.by = c.who
  BY <1>1, CallTalliedParts DEF CallTallied
<1>3. d.task = c.task /\ d.who = c.who /\ d.pc = "preload" /\ d.view = view
  <2> HIDE DEF view
  <2>1. QED
    BY <1>2 DEF Job
<1>4. view.votes = c.view.votes \cup {row} /\ row.by = c.who
  BY <1>2 DEF Game
<1>5. ids'.round = ids.round
  BY <1>1 DEF IInv, TypeOK
<1>6. job' = [job EXCEPT ![j] = d]
  BY <1>1, TallyParts
<1> HIDE DEF row, view, d
<1>7. RowsStay /\ \A p \in Seats : db'.score[p] <= Limit[p]
  <2>1. /\ db'.votes = db.votes \cup {row} /\ db'.players = db.players
        /\ db'.rounds = db.rounds /\ db'.score = db.score
    BY <1>1, TallyParts DEF Game
  <2>2. QED
    BY <1>4, <2>1, TallyParts DEF RowsStay, SeatVotes
<1>8. ~Casting(d) /\ ~Awarding(d)
  BY <1>1, <1>3 DEF Casting, Awarding
<1>9. CallTallied(d, db, ids.round, told, Limit)
  BY <1>1, <1>2, <1>3, <1>4, <1>8 DEF CallTallied
<1>10. QED
  BY <1>1, <1>2, <1>5, <1>6, <1>7, <1>8, <1>9, CallGoesOnTallies

\* All that is lost in a crash can only keep points back.
LEMMA DieTallies ==
  ASSUME IInv, IInv', TallyInOrder, Die
  PROVE  TallyInOrder'
<1>1. /\ db' = db /\ ids' = ids /\ told' = told
      /\ \A h \in Handlers : req'[h] = Idle
      /\ \A j \in Jobs : job'[j] = NoJob
  BY DEF Die
<1>2. \A p \in Seats : ~Unscored(p)'
  BY <1>1, NothingTallied DEF Unscored
<1>3. SeatVotes(db') = SeatVotes(db)
  BY <1>1
<1>4. \A p \in Seats : Limit[p] <= Limit'[p] /\ Limit[p] \in Nat /\ Limit'[p] \in Nat
  BY <1>1, <1>2, <1>3, LimitRises
<1>5. \A p \in Seats : db'.score[p] <= Limit'[p]
  BY <1>1, <1>4, TallyParts
<1>6. Apart'
  BY <1>1, NothingTallied DEF Apart
<1>7. /\ \A h \in Handlers : RequestTallied(req'[h], db', ids.round, told', Limit')
      /\ \A j \in Jobs : CallTallied(job'[j], db', ids.round, told', Limit')
  BY <1>1, NothingTallied
<1>8. db'.players = Seats
  BY <1>1, TallyParts
<1>9. QED
  BY <1>1, <1>2, <1>3, <1>5, <1>6, <1>7, <1>8, TallyStep

LEMMA RunJobTallies ==
  ASSUME IInv, IInv', TallyInOrder, NEW j \in Jobs, RunJob(j)
  PROVE  TallyInOrder'
BY PlayerLoadTallies, InsertAnswerTallies, SeatVoteTallies, StrangeVoteTallies,
   LoadGameTallies, PreloadTallies, SaveTallies, DieTallies
DEF RunJob, JobReject

LEMMA StutterTallies ==
  ASSUME TallyInOrder,
         db' = db /\ ids' = ids /\ req' = req /\ job' = job /\ told' = told
  PROVE  TallyInOrder'
<1>1. \A p \in Seats : Counted(p)' = Counted(p)
  BY DEF Counted, Unscored
<1>2. Limit' = Limit
  BY <1>1 DEF Limit
<1>3. Apart'
  BY DEF TallyInOrder, Apart
<1>4. QED
  BY <1>2, <1>3 DEF TallyInOrder

LEMMA StepTallies ==
  ASSUME InOrder, IInv, IInv', TallyInOrder, [TurnNext]_vars
  PROVE  TallyInOrder'
<1>1. CASE UNCHANGED vars
  BY <1>1, StutterTallies DEF vars
<1>2. CASE Process
  BY <1>2, DieTallies, StutterTallies DEF Process, Stop, Restart, Connect
<1>3. CASE TurnNext /\ ~Process
  BY <1>3, TakeTurnTallies, ContinueTallies, RunJobTallies DEF TurnNext
<1>4. QED
  BY <1>1, <1>2, <1>3

LEMMA InitTallies ==
  ASSUME Init
  PROVE  TallyInOrder
<1>1. /\ db = NewGame /\ ids.round = 0 /\ told = {}
      /\ \A h \in Handlers : req[h] = Idle
      /\ \A j \in Jobs : job[j] = NoJob
  BY DEF Init
<1>2. VotesInOrder(db, 0)
  BY <1>1 DEF NewGame, VotesInOrder, SeatVotes
<1>3. \A p \in Seats : db.score[p] = 0 /\ Limit[p] = 0
  <2> SUFFICES ASSUME NEW p \in Seats PROVE db.score[p] = 0 /\ Limit[p] = 0
    OBVIOUS
  <2>1. db.score[p] = 0
    BY <1>1, SeatsAssumption DEF NewGame
  <2>2. Counted(p) \in {0, -1}
    BY <1>1 DEF Counted
  <2>3. {k \in 1..Counted(p) : BelievedIn(db, k, p)} = {}
    BY <2>2
  <2>4. DueUpTo(db, Counted(p), p) = 0
    BY <2>3, FS_EmptySet DEF DueUpTo
  <2>5. QED
    BY <2>1, <2>4 DEF Limit
<1>4. Apart
  BY <1>1, NothingTallied DEF Apart
<1>5. /\ \A h \in Handlers : RequestTallied(req[h], db, ids.round, told, Limit)
      /\ \A j \in Jobs : CallTallied(job[j], db, ids.round, told, Limit)
  BY <1>1, NothingTallied
<1>6. QED
  BY <1>1, <1>2, <1>3, <1>4, <1>5 DEF TallyInOrder, Tallied

-----------------------------------------------------------------------------
(* What the votes are worth                                                 *)

\* Each true vote of a player is the player's only one in its round.
LEMMA DueForVotes ==
  ASSUME NEW n \in Nat, VotesInOrder(db, n), NEW p \in Seats
  PROVE  20 * Cardinality(TrueVotes(p)) = DueUpTo(db, n, p)
<1> DEFINE S == {k \in 1..n : BelievedIn(db, k, p)}
           T == TrueVotes(p)
           f == [v \in T |-> v.number]
<1>1. \A v \in T : v \in SeatVotes(db) /\ v.number \in S
  BY DEF TrueVotes, SeatVotes, VotesInOrder, BelievedIn
<1>2. f \in Bijection(T, S)
  <2>1. \A v, w \in T : v.number = w.number => v = w
    BY <1>1 DEF TrueVotes, VotesInOrder
  <2>2. \A k \in S : \E v \in T : v.number = k
    BY DEF TrueVotes, BelievedIn
  <2> HIDE DEF S, T
  <2>3. QED
    BY <1>1, <2>1, <2>2 DEF Bijection, Injection, Surjection, IsInjective
<1>3. ExistsBijection(T, S)
  BY <1>2 DEF ExistsBijection
<1>4. ExistsBijection(S, T)
  BY <1>3, Fun_ExistsBijSymmetric
<1>5. IsFiniteSet(S)
  <2>1. IsFiniteSet(1..n) /\ S \in SUBSET (1..n)
    BY FS_Interval
  <2>2. QED
    BY <2>1, FS_Subset
<1>6. Cardinality(T) = Cardinality(S)
  BY <1>4, <1>5, FS_Bijection
<1>7. QED
  BY <1>6 DEF DueUpTo

\* No copy of a score, and none in the tables, is more than the tallied votes give.
LEMMA TalliedIsDue ==
  ASSUME IInv, TallyInOrder
  PROVE  ScoresAreDue
<1> SUFFICES ASSUME NEW p \in Seats
             PROVE  db.score[p] <= 20 * Cardinality(TrueVotes(p))
  BY DEF ScoresAreDue
<1>1. db.score[p] <= Limit[p] /\ db.score[p] \in Nat
  BY TallyParts
<1>2. Limit[p] \in Nat /\ Limit[p] <= DueUpTo(db, ids.round, p)
  BY LimitIs
<1>3. DueUpTo(db, ids.round, p) \in Nat
  BY PlayParts, DueRises
<1>4. db.score[p] <= DueUpTo(db, ids.round, p)
  BY <1>1, <1>2, <1>3
<1>5. QED
  BY <1>4, TallyParts, DueForVotes

-----------------------------------------------------------------------------
(* Theorems                                                                 *)

\* What clients that take turns make the program do is what the program does for any:
\* the properties proved of GameLoop hold of it.
THEOREM TurnsAreGameLoop == TurnSpec => Spec
<1>1. \A h \in Handlers : TakeTurn(h) => Arrive(h)
  BY UsersAssumption
     DEF TakeTurn, StartInTurn, TopicInTurn, AnswerInTurn, VoteInTurn, EndInTurn, Arrive
<1>2. [TurnNext]_vars => [Next]_vars
  BY <1>1 DEF TurnNext, Next
<1>3. QED
  BY <1>2, PTL DEF TurnSpec, Spec

\* With no call awaited and the process stopped at any moment, and whichever user each
\* player belongs to, the votes of a round are complete before its points are given, each
\* player's points are given by one call at most, and every copy of a score, in the tables
\* or in memory, is within what the votes tallied so far give.
THEOREM TallyStaysInOrder ==
  ASSUME InOrder
  PROVE  TurnSpec => []TallyInOrder
<1>1. Init => TallyInOrder
  BY InitTallies
<1>2. IInv /\ IInv' /\ TallyInOrder /\ [TurnNext]_vars => TallyInOrder'
  BY StepTallies
<1>3. TurnSpec => []IInv
  BY TurnsAreGameLoop, Invariant, PTL
<1>4. QED
  BY <1>1, <1>2, <1>3, PTL DEF TurnSpec

\* Points may be lost to a stale copy of the game, but no player ever has points that no
\* true vote stored for that player gave, and no vote is counted twice.
THEOREM NoPointsAreForged ==
  ASSUME InOrder
  PROVE  TurnSpec => []ScoresAreDue
<1>1. IInv /\ TallyInOrder => ScoresAreDue
  BY TalliedIsDue
<1>2. TurnSpec => []IInv
  BY TurnsAreGameLoop, Invariant, PTL
<1>3. QED
  BY <1>1, <1>2, TallyStaysInOrder, PTL
=============================================================================
