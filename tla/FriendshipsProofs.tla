--------------------------- MODULE FriendshipsProofs ---------------------------
(***************************************************************************)
(* Friendships keeps its invariant, for any number of users, requests,      *)
(* listeners, rows and stops.                                               *)
(***************************************************************************)
EXTENDS Friendships, TLAPS, FiniteSetTheorems

USE DEF Asked, Agreed

\* The statement of the last part of the invariant.
Crowd(u, v) == Cardinality(Between(u, v)) + Cardinality(Asking(u, v))

\* Slots and rows are finite in number.
LEMMA CrowdsAreCounted ==
  ASSUME TypeOK, NEW u, NEW v
  PROVE  /\ IsFiniteSet(Between(u, v)) /\ Cardinality(Between(u, v)) \in Nat
         /\ IsFiniteSet(Asking(u, v)) /\ Cardinality(Asking(u, v)) \in Nat
         /\ Cardinality(Asking(u, v)) <= Cardinality(Handlers)
         /\ Cardinality(Handlers) \in Nat
<1>1. Len(rows) \in Nat /\ DOMAIN rows = 1..Len(rows)
  BY DEF TypeOK
<1>2. IsFiniteSet(1..Len(rows))
  BY <1>1, FS_Interval
<1>3. Between(u, v) \subseteq 1..Len(rows) /\ Asking(u, v) \subseteq Handlers
  BY <1>1 DEF Between, Asking
<1>4. QED
  BY <1>2, <1>3, HandlersAssumption, FS_Subset, FS_CardinalityType

\* The initial state satisfies the invariant.
LEMMA InitOK == Init => IInv
<1> SUFFICES ASSUME Init PROVE IInv
  OBVIOUS
<1>1. rows = <<>> /\ rows \in Seq(Friendship) /\ DOMAIN rows = {}
  BY DEF Init
<1>2. TypeOK
  BY <1>1, MaxStopsAssumption DEF Init, TypeOK, Idle, Request, Listener
<1>3. \A u, v : Between(u, v) = {} /\ Asking(u, v) = {}
  BY <1>1 DEF Init, Between, Asking, Idle
<1>4. \A u, v \in Users : Crowd(u, v) <= Cardinality(Handlers)
  BY <1>2, <1>3, FS_EmptySet, CrowdsAreCounted DEF Crowd
<1>5. QED
  BY <1>1, <1>2, <1>4 DEF Init, IInv, Crowd, WaitOK, Idle, FriendsAgreed, NotesAreTrue, ShownIsStored

-----------------------------------------------------------------------------
(* What one request may do                                                  *)

\* Rows keep their ends, and nobody takes back what they were willing to.
Grows ==
  /\ rows' \in Seq(Friendship)
  /\ DOMAIN rows \subseteq DOMAIN rows'
  /\ \A i \in DOMAIN rows : /\ rows'[i].requester = rows[i].requester
                            /\ rows'[i].addressee = rows[i].addressee
  /\ willing \subseteq willing' /\ willing' \subseteq Users \X Users

\* What was true of a row stays true.
LEMMA TruthStays ==
  ASSUME IInv, Grows
  PROVE  /\ \A n : IsTrue(n) => IsTrue(n)'
         /\ \A r : WaitOK(r) => WaitOK(r)'
         /\ \A i \in DOMAIN rows : Asked(i)' /\ (Agreed(i) => Agreed(i)')
<1>1. \A i \in DOMAIN rows : Asked(i)' /\ (Agreed(i) => Agreed(i)')
  BY DEF IInv, Grows
<1>2. ASSUME NEW n, IsTrue(n) PROVE IsTrue(n)'
  BY <1>2 DEF IsTrue, Grows
<1>3. ASSUME NEW r, WaitOK(r) PROVE WaitOK(r)'
  BY <1>1, <1>3 DEF WaitOK, Grows
<1>4. QED
  BY <1>1, <1>2, <1>3

\* A request goes on, having written what was agreed to and told what is true.
LEMMA RequestStep ==
  ASSUME IInv, Grows,
         NEW h \in Handlers, NEW r \in Request,
         req' = [req EXCEPT ![h] = r], WaitOK(r)',
         \/ heard' = heard
         \/ \E l \in Listeners, n \in Notification :
              heard' = [heard EXCEPT ![l] = [pc |-> "store", note |-> n]] /\ IsTrue(n)',
         \A i \in DOMAIN rows' : Asked(i)',
         FriendsAgreed',
         \A u, v \in Users : Crowd(u, v)' <= Cardinality(Handlers),
         UNCHANGED <<notes, shown, up, stops>>
  PROVE  IInv'
<1>1. /\ req' \in [Handlers -> Request]
      /\ \A g \in Handlers : req'[g] = IF g = h THEN r ELSE req[g]
  BY DEF IInv, TypeOK
<1> DEFINE Told == /\ heard \in [Listeners -> Listener]
                   /\ \A l \in Listeners : heard[l].pc # "idle" => IsTrue(heard[l].note)
                   /\ \A l \in Listeners : heard[l].pc = "push" => heard[l].note \in notes
<1>2. Told'
  <2>1. CASE heard' = heard
    BY <2>1, TruthStays DEF IInv, TypeOK
  <2>2. ASSUME NEW l \in Listeners, NEW n \in Notification,
               heard' = [heard EXCEPT ![l] = [pc |-> "store", note |-> n]], IsTrue(n)'
        PROVE  Told'
    <3>1. \A m \in Listeners : heard'[m] = IF m = l THEN [pc |-> "store", note |-> n]
                                                    ELSE heard[m]
      BY <2>2 DEF IInv, TypeOK
    <3>2. [pc |-> "store", note |-> n] \in Listener
      BY DEF Listener
    <3>3. QED
      BY <2>2, <3>1, <3>2, TruthStays DEF IInv, TypeOK
  <2>3. QED
    BY <2>1, <2>2
<1>3. TypeOK'
  BY <1>1, <1>2 DEF IInv, TypeOK, Grows
<1>4. NotesAreTrue' /\ ShownIsStored'
  BY TruthStays DEF IInv, NotesAreTrue, ShownIsStored
<1>5. \A g \in Handlers : WaitOK(req[g])'
  BY <1>1, TruthStays DEF IInv
<1>6. QED
  BY <1>2, <1>3, <1>4, <1>5 DEF IInv, Crowd

\* The requests of a pair do not grow in number when none sets out and none is stored.
LEMMA NoMoreOfThem ==
  ASSUME IInv, TypeOK',
         NEW u \in Users, NEW v \in Users,
         Between(u, v)' = Between(u, v), Asking(u, v)' \subseteq Asking(u, v)
  PROVE  Crowd(u, v)' <= Cardinality(Handlers)
<1>1. Cardinality(Asking(u, v)') <= Cardinality(Asking(u, v)) /\ Cardinality(Asking(u, v)') \in Nat
  BY CrowdsAreCounted, FS_Subset, FS_CardinalityType DEF IInv
<1>2. Crowd(u, v) <= Cardinality(Handlers)
  BY DEF IInv, Crowd
<1>3. QED
  BY <1>1, <1>2, CrowdsAreCounted DEF IInv, Crowd

\* A row whose status changes stays where it was.
LEMMA StatusChanges ==
  ASSUME IInv, NEW i \in DOMAIN rows, NEW status \in FriendshipStatus,
         SetStatus(i, status), UNCHANGED willing
  PROVE  /\ Grows
         /\ DOMAIN rows' = DOMAIN rows
         /\ \A j \in DOMAIN rows : rows'[j].status = IF j = i THEN status ELSE rows[j].status
         /\ \A u, v : Between(u, v)' = Between(u, v)
<1>1. rows \in Seq(Friendship) /\ rows[i] \in Friendship /\ willing \subseteq Users \X Users
  BY DEF IInv, TypeOK
<1>2. [rows[i] EXCEPT !.status = status] \in Friendship
  BY <1>1 DEF Friendship
<1>3. /\ rows' \in Seq(Friendship) /\ DOMAIN rows' = DOMAIN rows
      /\ \A j \in DOMAIN rows : rows'[j] = IF j = i THEN [rows[i] EXCEPT !.status = status]
                                                    ELSE rows[j]
  BY <1>1, <1>2 DEF SetStatus
<1>4. \A j \in DOMAIN rows : /\ rows'[j].requester = rows[j].requester
                             /\ rows'[j].addressee = rows[j].addressee
                             /\ rows'[j].status = IF j = i THEN status ELSE rows[j].status
  BY <1>1, <1>3 DEF Friendship
<1>5. Grows
  BY <1>1, <1>3, <1>4 DEF Grows
<1>6. \A u, v : Between(u, v)' = Between(u, v)
  BY <1>3, <1>4 DEF Between
<1>7. QED
  BY <1>3, <1>4, <1>5, <1>6

\* Nothing is written.
LEMMA RowsStay ==
  ASSUME IInv, UNCHANGED rows, willing \subseteq willing', willing' \subseteq Users \X Users
  PROVE  /\ Grows
         /\ \A u, v : Between(u, v)' = Between(u, v)
         /\ \A i \in DOMAIN rows' : Asked(i)'
         /\ FriendsAgreed'
<1>1. Grows
  BY DEF Grows, IInv, TypeOK
<1>2. QED
  BY <1>1, TruthStays DEF Between, IInv, FriendsAgreed

\* A request that comes to wait for something else than to look for a row or to
\* insert one, or stays with the two users it is between.
LEMMA SlotsStay ==
  ASSUME IInv, NEW h \in Handlers, NEW r \in Request, req' = [req EXCEPT ![h] = r],
         r.pc \in {"reverse", "insert"} =>
           /\ req[h].pc \in {"reverse", "insert"}
           /\ r.from = req[h].from /\ r.to = req[h].to
  PROVE  \A u, v : Asking(u, v)' \subseteq Asking(u, v)
<1>1. \A g \in Handlers : req'[g] = IF g = h THEN r ELSE req[g]
  BY DEF IInv, TypeOK
<1>2. QED
  BY <1>1 DEF Asking

\* The parts of a step that writes no rows and sends no request out.
LEMMA QuietStep ==
  ASSUME IInv, NEW h \in Handlers, NEW r \in Request, req' = [req EXCEPT ![h] = r],
         r.pc \in {"reverse", "insert"} =>
           /\ req[h].pc \in {"reverse", "insert"}
           /\ r.from = req[h].from /\ r.to = req[h].to,
         willing \subseteq willing', willing' \subseteq Users \X Users,
         WaitOK(r)',
         UNCHANGED <<rows, notes, heard, shown, up, stops>>
  PROVE  IInv'
<1>1. /\ Grows /\ \A i \in DOMAIN rows' : Asked(i)'
      /\ FriendsAgreed'
      /\ \A u, v : Between(u, v)' = Between(u, v)
  BY RowsStay
<1>2. \A u, v : Asking(u, v)' \subseteq Asking(u, v)
  BY SlotsStay
<1>3. req' \in [Handlers -> Request]
  BY DEF IInv, TypeOK
<1>4. TypeOK'
  BY <1>3 DEF IInv, TypeOK
<1>5. \A u, v \in Users : Crowd(u, v)' <= Cardinality(Handlers)
  BY <1>1, <1>2, <1>4, NoMoreOfThem
<1>6. QED
  BY <1>1, <1>5, RequestStep

-----------------------------------------------------------------------------
(* The actions                                                              *)

\* A request sets out only when none of its pair is stored, and takes a slot.
LEMMA SendRequestOK ==
  ASSUME IInv, NEW h \in Handlers, NEW u \in Users, NEW v \in Users, SendRequest(h, u, v)
  PROVE  IInv'
<1> DEFINE r == [pc |-> "reverse", from |-> u, to |-> v]
<1>1. r \in Request /\ req' = [req EXCEPT ![h] = r] /\ req[h] = Idle
  BY DEF SendRequest, Await, Request
<1>2. /\ UNCHANGED rows /\ willing \subseteq willing'
      /\ willing' \subseteq Users \X Users /\ <<u, v>> \in willing'
  BY DEF SendRequest, IInv, TypeOK
<1>3. /\ Grows /\ \A i \in DOMAIN rows' : Asked(i)'
      /\ FriendsAgreed'
      /\ \A a, b : Between(a, b)' = Between(a, b)
  BY <1>2, RowsStay
<1>4. WaitOK(r)'
  BY <1>2 DEF WaitOK
<1>5. req' \in [Handlers -> Request] /\ \A g \in Handlers : req'[g] = IF g = h THEN r ELSE req[g]
  BY <1>1 DEF IInv, TypeOK
<1>6. TypeOK'
  BY <1>2, <1>5 DEF SendRequest, IInv, TypeOK
<1>7. ASSUME NEW a \in Users, NEW b \in Users
      PROVE  Crowd(a, b)' <= Cardinality(Handlers)
  <2>1. CASE a = u /\ b = v
    <3>1. Between(a, b)' = {}
      BY <1>3, <2>1 DEF SendRequest, NeverAsked
    <3>2. /\ IsFiniteSet(Handlers) /\ Asking(a, b)' \subseteq Handlers
          /\ Cardinality(Handlers) \in Nat
      BY HandlersAssumption, FS_CardinalityType DEF Asking
    <3>3. Cardinality(Asking(a, b)') <= Cardinality(Handlers) /\ Cardinality(Asking(a, b)') \in Nat
      BY <3>2, FS_Subset, FS_CardinalityType
    <3>4. QED
      BY <3>1, <3>2, <3>3, FS_EmptySet DEF Crowd
  <2>2. CASE ~(a = u /\ b = v)
    <3>1. Asking(a, b)' \subseteq Asking(a, b)
      BY <1>5, <2>2 DEF Asking
    <3>2. QED
      BY <1>3, <1>6, <3>1, NoMoreOfThem
  <2>3. QED
    BY <2>1, <2>2
<1>8. QED
  BY <1>1, <1>3, <1>4, <1>7, RequestStep DEF SendRequest

\* A slot that is free.
LEMMA IdleOK == Idle \in Request /\ Idle.pc = "idle"
BY DEF Idle, Request

\* A reverse request that is pending was asked for by its requester, who is willing.
LEMMA FindReverseOK ==
  ASSUME IInv, NEW h \in Handlers, FindReverse(h)
  PROVE  IInv'
<1>1. /\ req[h] \in Request /\ req[h].pc = "reverse"
      /\ WaitOK(req[h])
  BY DEF FindReverse, IInv, TypeOK
<1>2. PICK u \in Users, v \in Users :
        req[h].from = u /\ req[h].to = v /\ <<u, v>> \in willing
  BY <1>1 DEF Request, Idle, WaitOK
<1>3. willing' = willing /\ willing' \subseteq Users \X Users /\ rows' = rows
  BY DEF FindReverse, IInv, TypeOK
<1>4. CASE Await(h, [pc |-> "insert", from |-> u, to |-> v])
  <2> DEFINE r == [pc |-> "insert", from |-> u, to |-> v]
  <2>1. r \in Request /\ WaitOK(r)'
    BY <1>2, <1>3 DEF Request, WaitOK
  <2>2. req' = [req EXCEPT ![h] = r]
    BY <1>4 DEF Await
  <2>3. QED
    BY <1>1, <1>2, <1>3, <2>1, <2>2, QuietStep DEF FindReverse
<1>5. ASSUME NEW i \in Between(v, u), Await(h, [pc |-> "befriend", id |-> i])
      PROVE  IInv'
  <2> DEFINE r == [pc |-> "befriend", id |-> i]
  <2>1. i \in DOMAIN rows /\ i \in Nat \ {0} /\ Agreed(i)
    BY <1>2 DEF Between, IInv, TypeOK
  <2>2. r \in Request /\ WaitOK(r)'
    BY <1>3, <2>1 DEF Request, WaitOK
  <2>3. req' = [req EXCEPT ![h] = r]
    BY <1>5 DEF Await
  <2>4. QED
    BY <1>3, <2>2, <2>3, QuietStep DEF FindReverse
<1>6. CASE Reply(h)
  <2>1. WaitOK(Idle)'
    BY IdleOK DEF WaitOK
  <2>2. QED
    BY <1>3, <1>6, <2>1, IdleOK, QuietStep DEF FindReverse, Reply, Await
<1>7. QED
  BY <1>2, <1>4, <1>5, <1>6 DEF FindReverse

\* The slot of a request becomes a row.
LEMMA InsertRequestOK ==
  ASSUME IInv, NEW h \in Handlers, InsertRequest(h)
  PROVE  IInv'
<1>1. /\ req[h] \in Request /\ req[h].pc = "insert"
      /\ WaitOK(req[h])
  BY DEF InsertRequest, IInv, TypeOK
<1>2. PICK u \in Users, v \in Users, n \in Nat \ {0} :
        /\ req[h].from = u /\ req[h].to = v /\ <<u, v>> \in willing
        /\ n = Len(rows) + 1
  <2>1. Len(rows) + 1 \in Nat \ {0}
    BY DEF IInv, TypeOK
  <2>2. req[h].from \in Users /\ req[h].to \in Users /\ <<req[h].from, req[h].to>> \in willing
    BY <1>1 DEF Request, Idle, WaitOK
  <2>3. QED
    BY <2>1, <2>2
<1> DEFINE new == [requester |-> u, addressee |-> v, status |-> "pending"]
<1>3. /\ rows \in Seq(Friendship) /\ new \in Friendship
      /\ Len(rows) \in Nat /\ DOMAIN rows = 1..Len(rows)
      /\ willing' = willing /\ willing \subseteq Users \X Users
  BY <1>2 DEF InsertRequest, IInv, TypeOK, Friendship, FriendshipStatus
<1>4. /\ rows' = Append(rows, new) /\ rows' \in Seq(Friendship)
      /\ DOMAIN rows' = DOMAIN rows \cup {n} /\ n \notin DOMAIN rows
      /\ \A i \in DOMAIN rows : rows'[i] = rows[i]
      /\ rows'[n] = new
  BY <1>2, <1>3 DEF InsertRequest
<1>5. Grows
  BY <1>3, <1>4 DEF Grows
<1>6. \A i \in DOMAIN rows' : Asked(i)'
  BY <1>2, <1>3, <1>4 DEF IInv
<1>7. FriendsAgreed'
  BY <1>3, <1>4 DEF IInv, FriendsAgreed
<1>8. \E l \in Listeners, m \in Notification :
        heard' = [heard EXCEPT ![l] = [pc |-> "store", note |-> m]] /\ IsTrue(m)'
  <2> DEFINE m == RequestNote(n, u, v)
  <2>1. m \in Notification
    BY <1>2, <1>3 DEF RequestNote, Notification
  <2>2. IsTrue(m)'
    BY <1>4 DEF IsTrue, RequestNote
  <2>3. QED
    BY <1>2, <2>1, <2>2 DEF InsertRequest, Emit
<1>9. /\ req' = [req EXCEPT ![h] = Idle] /\ req' \in [Handlers -> Request]
      /\ \A g \in Handlers : req'[g] = IF g = h THEN Idle ELSE req[g]
  BY IdleOK DEF InsertRequest, Reply, Await, IInv, TypeOK
<1>10. WaitOK(Idle)'
  BY IdleOK DEF WaitOK
<1>11. heard' \in [Listeners -> Listener]
  BY <1>8 DEF IInv, TypeOK, Listener
<1>12. TypeOK'
  BY <1>3, <1>4, <1>9, <1>11 DEF InsertRequest, IInv, TypeOK
<1>13. ASSUME NEW a \in Users, NEW b \in Users
       PROVE  Crowd(a, b)' <= Cardinality(Handlers)
  <2>1. Crowd(a, b) <= Cardinality(Handlers)
    BY DEF IInv, Crowd
  <2>2. CASE a = u /\ b = v
    <3>1. Between(a, b)' = Between(a, b) \cup {n} /\ n \notin Between(a, b)
      BY <1>4, <2>2 DEF Between
    <3>2. Asking(a, b)' = Asking(a, b) \ {h} /\ h \in Asking(a, b)
      BY <1>1, <1>2, <1>9, <2>2, IdleOK DEF Asking
    <3>3. Cardinality(Between(a, b)') = Cardinality(Between(a, b)) + 1
      BY <3>1, CrowdsAreCounted, FS_AddElement DEF IInv
    <3>5. Cardinality(Asking(a, b)') = Cardinality(Asking(a, b)) - 1
      BY <3>2, CrowdsAreCounted, FS_RemoveElement DEF IInv
    <3>4. QED
      BY <2>1, <3>3, <3>5, CrowdsAreCounted DEF Crowd, IInv
  <2>3. CASE ~(a = u /\ b = v)
    <3>1. Between(a, b)' = Between(a, b)
      BY <1>4, <2>3 DEF Between
    <3>2. Asking(a, b)' \subseteq Asking(a, b)
      BY <1>9, IdleOK DEF Asking
    <3>3. QED
      BY <1>12, <3>1, <3>2, NoMoreOfThem
  <2>4. QED
    BY <2>2, <2>3
<1>14. QED
  BY <1>5, <1>6, <1>7, <1>8, <1>9, <1>10, <1>13, IdleOK, RequestStep DEF InsertRequest

\* Two users become friends by a row whose two sides are willing.
LEMMA StatusStep ==
  ASSUME IInv, NEW h \in Handlers, NEW i \in DOMAIN rows, NEW status \in FriendshipStatus,
         SetStatus(i, status), UNCHANGED willing,
         status = "accepted" => Agreed(i),
         Reply(h),
         \/ heard' = heard
         \/ \E l \in Listeners, n \in Notification :
              heard' = [heard EXCEPT ![l] = [pc |-> "store", note |-> n]] /\ IsTrue(n)',
         UNCHANGED <<notes, shown, up, stops>>
  PROVE  IInv'
<1>1. /\ Grows /\ DOMAIN rows' = DOMAIN rows
      /\ \A j \in DOMAIN rows : rows'[j].status = IF j = i THEN status ELSE rows[j].status
      /\ \A u, v : Between(u, v)' = Between(u, v)
  BY StatusChanges
<1>2. \A j \in DOMAIN rows' : Asked(j)'
  BY <1>1, TruthStays
<1>3. FriendsAgreed'
  <2>1. ASSUME NEW j \in DOMAIN rows, rows'[j].status = "accepted" PROVE Agreed(j)
    BY <1>1, <2>1 DEF IInv, FriendsAgreed
  <2>2. ASSUME NEW j \in DOMAIN rows, rows'[j].status = "accepted"
        PROVE  Asked(j)' /\ Agreed(j)'
    BY <1>1, <2>1, <2>2, TruthStays
  <2>3. QED
    BY <1>1, <2>2 DEF FriendsAgreed
<1>4. req' = [req EXCEPT ![h] = Idle] /\ WaitOK(Idle)'
  BY IdleOK DEF Reply, Await, WaitOK
<1>5. \A u, v : Asking(u, v)' \subseteq Asking(u, v)
  BY <1>4, IdleOK, SlotsStay
<1>6. req' \in [Handlers -> Request]
  BY <1>4, IdleOK DEF IInv, TypeOK
<1>7. heard' \in [Listeners -> Listener]
  BY DEF IInv, TypeOK, Listener
<1>8. TypeOK'
  BY <1>1, <1>6, <1>7 DEF IInv, TypeOK, Grows
<1>9. \A u, v \in Users : Crowd(u, v)' <= Cardinality(Handlers)
  BY <1>1, <1>5, <1>8, NoMoreOfThem
<1>10. QED
  BY <1>1, <1>2, <1>3, <1>4, <1>9, IdleOK, RequestStep

\* The row a request waits to save.
LEMMA RowOfRequest ==
  ASSUME IInv, NEW h \in Handlers, req[h].pc \in {"befriend", "accept", "refuse"}
  PROVE  \E i \in DOMAIN rows :
           /\ i = req[h].id /\ i \in Nat \ {0}
           /\ rows[i] \in Friendship
           /\ req[h].pc \in {"befriend", "accept"} => Agreed(i)
<1>1. WaitOK(req[h]) /\ rows \in Seq(Friendship)
  BY DEF IInv, TypeOK
<1>2. PICK i \in DOMAIN rows : i = req[h].id
  BY <1>1 DEF WaitOK
<1>3. i \in Nat \ {0} /\ rows[i] \in Friendship
  BY <1>1
<1>4. req[h].pc \in {"befriend", "accept"} => Agreed(i)
  BY <1>1, <1>2 DEF WaitOK
<1>5. QED
  BY <1>2, <1>3, <1>4

\* Befriend, SaveAccepted and SaveRefused write the row they have.
LEMMA BefriendOK ==
  ASSUME IInv, NEW h \in Handlers, Befriend(h)
  PROVE  IInv'
<1>1. PICK i \in DOMAIN rows : i = req[h].id /\ Agreed(i)
  BY RowOfRequest DEF Befriend
<1>2. QED
  BY <1>1, StatusStep DEF Befriend, FriendshipStatus

\* As Befriend, and the requester is told of it.
LEMMA SaveAcceptedOK ==
  ASSUME IInv, NEW h \in Handlers, SaveAccepted(h)
  PROVE  IInv'
<1>1. PICK i \in DOMAIN rows : /\ i = req[h].id /\ i \in Nat \ {0} /\ Agreed(i)
                               /\ rows[i] \in Friendship
  BY RowOfRequest DEF SaveAccepted
<1>2. SetStatus(i, "accepted") /\ UNCHANGED willing /\ "accepted" \in FriendshipStatus
  BY <1>1 DEF SaveAccepted, FriendshipStatus
<1>3. PICK n \in Notification, l \in Listeners :
        /\ n = AcceptedNote(i, rows[i].requester, rows[i].addressee)
        /\ heard' = [heard EXCEPT ![l] = [pc |-> "store", note |-> n]]
  <2> DEFINE m == AcceptedNote(i, rows[i].requester, rows[i].addressee)
  <2>1. m \in Notification
    BY <1>1 DEF AcceptedNote, Notification, Friendship
  <2>2. QED
    BY <1>1, <2>1 DEF SaveAccepted, Emit
<1>4. IsTrue(n)
  BY <1>1, <1>3 DEF IsTrue, AcceptedNote
<1>5. IsTrue(n)'
  BY <1>2, <1>4, StatusChanges, TruthStays
<1>6. QED
  BY <1>1, <1>2, <1>3, <1>5, StatusStep DEF SaveAccepted

\* Refusing makes nobody friends.
LEMMA SaveRefusedOK ==
  ASSUME IInv, NEW h \in Handlers, SaveRefused(h)
  PROVE  IInv'
<1>1. PICK i \in DOMAIN rows : i = req[h].id
  BY RowOfRequest DEF SaveRefused
<1>2. QED
  BY <1>1, StatusStep DEF SaveRefused, FriendshipStatus

\* The addressee who accepts is willing from then on.
LEMMA AcceptRequestOK ==
  ASSUME IInv, NEW h \in Handlers, NEW u \in Users, NEW i \in DOMAIN rows, AcceptRequest(h, u, i)
  PROVE  IInv'
<1> DEFINE r == [pc |-> "accept", id |-> i]
<1>1. rows[i] \in Friendship /\ i \in Nat \ {0} /\ willing \subseteq Users \X Users
  BY DEF IInv, TypeOK
<1>2. r \in Request /\ req' = [req EXCEPT ![h] = r]
  BY <1>1 DEF AcceptRequest, Await, Request
<1>3. /\ willing \subseteq willing' /\ willing' \subseteq Users \X Users
      /\ UNCHANGED rows /\ <<rows[i].addressee, rows[i].requester>> \in willing'
  BY <1>1 DEF AcceptRequest, Friendship
<1>4. WaitOK(r)'
  BY <1>3 DEF WaitOK
<1>5. QED
  BY <1>2, <1>3, <1>4, QuietStep DEF AcceptRequest

\* The row to refuse is in the table.
LEMMA RefuseRequestOK ==
  ASSUME IInv, NEW h \in Handlers, NEW u \in Users, NEW i \in DOMAIN rows, RefuseRequest(h, u, i)
  PROVE  IInv'
<1> DEFINE r == [pc |-> "refuse", id |-> i]
<1>1. i \in Nat \ {0} /\ willing' \subseteq Users \X Users /\ UNCHANGED <<rows, willing>>
  BY DEF RefuseRequest, IInv, TypeOK
<1>2. r \in Request /\ req' = [req EXCEPT ![h] = r] /\ WaitOK(r)'
  BY <1>1 DEF RefuseRequest, Await, Request, WaitOK
<1>3. QED
  BY <1>1, <1>2, QuietStep DEF RefuseRequest

-----------------------------------------------------------------------------
\* A step that leaves the rows, and of the requests no more than there were.
LEMMA BesideStep ==
  ASSUME IInv, TypeOK',
         UNCHANGED <<rows, willing>>,
         \A h \in Handlers : req'[h] \in {req[h], Idle},
         \A l \in Listeners : heard'[l].pc # "idle" => heard[l].pc # "idle" /\ heard'[l].note = heard[l].note,
         \A l \in Listeners : heard'[l].pc = "push" => heard'[l].note \in notes',
         NotesAreTrue', ShownIsStored'
  PROVE  IInv'
<1>1. /\ Grows /\ \A i \in DOMAIN rows' : Asked(i)'
      /\ FriendsAgreed'
      /\ \A u, v : Between(u, v)' = Between(u, v)
  BY RowsStay DEF IInv, TypeOK
<1>2. \A u, v : Asking(u, v)' \subseteq Asking(u, v)
  BY IdleOK DEF Asking
<1>3. \A u, v \in Users : Crowd(u, v)' <= Cardinality(Handlers)
  BY <1>1, <1>2, NoMoreOfThem
<1>4. \A h \in Handlers : WaitOK(req[h])'
  BY IdleOK DEF IInv, WaitOK
<1>5. \A l \in Listeners : heard'[l].pc # "idle" => IsTrue(heard[l].note)'
  BY DEF IInv, IsTrue
<1>6. QED
  BY <1>1, <1>3, <1>4, <1>5 DEF IInv, Crowd

\* What a listener stores is true, and from then on it may be pushed.
LEMMA StoreNoteOK ==
  ASSUME IInv, NEW l \in Listeners, StoreNote(l)
  PROVE  IInv'
<1>1. heard \in [Listeners -> Listener] /\ heard[l].pc = "store" /\ heard[l] \in Listener
  BY DEF StoreNote, IInv, TypeOK
<1>2. PICK n \in Notification : heard[l] = [pc |-> "store", note |-> n]
  BY <1>1 DEF Listener, Idle
<1>3. [heard[l] EXCEPT !.pc = "push"] = [pc |-> "push", note |-> n]
  BY <1>2
<1>4. heard' = [heard EXCEPT ![l] = [pc |-> "push", note |-> n]] /\ notes' = notes \cup {n}
  BY <1>1, <1>2, <1>3 DEF StoreNote, Stores
<1>5. [pc |-> "push", note |-> n] \in Listener
  BY DEF Listener
<1>6. /\ heard' \in [Listeners -> Listener]
      /\ \A m \in Listeners : heard'[m] = IF m = l THEN [pc |-> "push", note |-> n] ELSE heard[m]
  BY <1>1, <1>4, <1>5
<1>7. TypeOK'
  BY <1>4, <1>6 DEF StoreNote, IInv, TypeOK
<1>8. /\ \A m \in Listeners : heard'[m].pc # "idle" =>
           heard[m].pc # "idle" /\ heard'[m].note = heard[m].note
      /\ \A m \in Listeners : heard'[m].pc = "push" => heard'[m].note \in notes'
  BY <1>2, <1>4, <1>6 DEF IInv
<1>9. NotesAreTrue'
  <2>1. IsTrue(n)
    BY <1>2 DEF IInv
  <2>2. ASSUME NEW m \in notes' PROVE IsTrue(m)'
    BY <1>4, <2>1 DEF StoreNote, IInv, NotesAreTrue, IsTrue
  <2>3. QED
    BY <2>2 DEF NotesAreTrue
<1>10. ShownIsStored'
  BY <1>4 DEF StoreNote, IInv, ShownIsStored
<1>11. QED
  BY <1>7, <1>8, <1>9, <1>10, BesideStep DEF StoreNote

\* What is pushed to a user is in the table, as one of the user's.
LEMMA PushNoteOK ==
  ASSUME IInv, NEW l \in Listeners, PushNote(l)
  PROVE  IInv'
<1>1. heard \in [Listeners -> Listener] /\ heard[l].pc = "push" /\ heard[l] \in Listener
  BY DEF PushNote, IInv, TypeOK
<1>2. PICK n \in Notification : heard[l].note = n /\ n \in notes /\ n.user \in Users
  BY <1>1 DEF Listener, Idle, IInv, Notification
<1>3. /\ heard' \in [Listeners -> Listener]
      /\ \A m \in Listeners : heard'[m] = IF m = l THEN Idle ELSE heard[m]
  BY <1>1 DEF PushNote, Listener
<1>4. /\ shown \in [Users -> SUBSET Notification]
      /\ shown' \in {shown, [shown EXCEPT ![n.user] = @ \cup {n}]}
  BY <1>2 DEF PushNote, IInv, TypeOK
<1>5. TypeOK'
  BY <1>2, <1>3, <1>4 DEF PushNote, IInv, TypeOK
<1>6. NotesAreTrue'
  BY DEF PushNote, IInv, NotesAreTrue, IsTrue
<1>7. ShownIsStored'
  BY <1>2, <1>4 DEF PushNote, IInv, ShownIsStored
<1>8. QED
  BY <1>3, <1>5, <1>6, <1>7, IdleOK, BesideStep DEF PushNote, IInv

\* A stop loses the requests and the listeners; what is stored stays.
LEMMA StopOK ==
  ASSUME IInv, Stop
  PROVE  IInv'
<1>1. stops' \in 0..MaxStops /\ up' \in BOOLEAN
  <2>1. stops \in 0..MaxStops
    BY DEF IInv, TypeOK
  <2>2. stops < MaxStops /\ stops' = stops + 1
    BY DEF Stop
  <2>3. stops' \in 0..MaxStops
    BY <2>1, <2>2, MaxStopsAssumption
  <2>4. up' \in BOOLEAN
    BY DEF Stop
  <2>5. QED
    BY <2>3, <2>4
<1>2. Idle \in Listener /\ Idle \in Request
  BY IdleOK DEF Listener
<1>3. /\ req' \in [Handlers -> Request] /\ \A h \in Handlers : req'[h] = Idle
      /\ heard' \in [Listeners -> Listener] /\ \A l \in Listeners : heard'[l] = Idle
  BY <1>2 DEF Stop
<1>4. UNCHANGED <<rows, notes, shown, willing>>
  BY DEF Stop
<1>5. TypeOK'
  BY <1>1, <1>3, <1>4 DEF IInv, TypeOK
<1>6. NotesAreTrue' /\ ShownIsStored'
  BY <1>4 DEF IInv, NotesAreTrue, IsTrue, ShownIsStored
<1>7. QED
  BY <1>3, <1>4, <1>5, <1>6, IdleOK, BesideStep

\* A restart, and a step that changes nothing.
LEMMA RestartOK ==
  ASSUME IInv, Restart \/ UNCHANGED vars
  PROVE  IInv'
<1>1. UNCHANGED <<rows, notes, req, heard, shown, stops, willing>> /\ up' \in BOOLEAN
  BY DEF Restart, vars, IInv, TypeOK
<1>2. TypeOK'
  BY <1>1 DEF IInv, TypeOK
<1>3. NotesAreTrue' /\ ShownIsStored'
  BY <1>1 DEF IInv, NotesAreTrue, IsTrue, ShownIsStored
<1>4. QED
  BY <1>1, <1>2, <1>3, BesideStep DEF IInv

\* Every step keeps the invariant.
LEMMA StepOK == IInv /\ [Next]_vars => IInv'
<1> SUFFICES ASSUME IInv, [Next]_vars PROVE IInv'
  OBVIOUS
<1>1. ASSUME NEW h \in Handlers, Arrive(h) PROVE IInv'
  BY <1>1, SendRequestOK, AcceptRequestOK, RefuseRequestOK DEF Arrive
<1>2. ASSUME NEW h \in Handlers, Continue(h) PROVE IInv'
  BY <1>2, FindReverseOK, InsertRequestOK, BefriendOK, SaveAcceptedOK, SaveRefusedOK DEF Continue
<1>3. ASSUME NEW l \in Listeners, Listen(l) PROVE IInv'
  BY <1>3, StoreNoteOK, PushNoteOK DEF Listen
<1>4. QED
  BY <1>1, <1>2, <1>3, StopOK, RestartOK DEF Next

-----------------------------------------------------------------------------
(* Requests are notified                                                    *)

\* What a step must not do: forget a note that a listener has in hand, or insert a
\* row without giving its note to a listener.
LEMMA NoteIsKept ==
  ASSUME RequestIsNotified, UNCHANGED stops, notes \subseteq notes',
         \A i \in DOMAIN rows' :
           \/ i \in DOMAIN rows /\ RequestOf(i)' = RequestOf(i)
           \/ \E l \in Listeners : heard'[l].pc # "idle" /\ heard'[l].note = RequestOf(i)',
         \A l \in Listeners : heard[l].pc # "idle" =>
           \/ heard[l].note \in notes'
           \/ heard'[l].pc # "idle" /\ heard'[l].note = heard[l].note
  PROVE  RequestIsNotified'
BY DEF RequestIsNotified

\* A row that keeps its ends keeps its note.
LEMMA SameRequest ==
  ASSUME IInv, NEW i \in DOMAIN rows, NEW status \in FriendshipStatus,
         SetStatus(i, status), UNCHANGED willing
  PROVE  \A j \in DOMAIN rows' : j \in DOMAIN rows /\ RequestOf(j)' = RequestOf(j)
BY StatusChanges DEF Grows, RequestOf, RequestNote

\* A listener that takes an event was idle, and the others go on.
LEMMA ListenersGoOn ==
  ASSUME IInv, NEW n, Emit(n)
  PROVE  /\ \A l \in Listeners : heard[l].pc # "idle" => heard'[l] = heard[l]
         /\ \E l \in Listeners : heard'[l].pc # "idle" /\ heard'[l].note = n
<1>1. PICK l \in Listeners :
        heard[l] = Idle /\ heard' = [heard EXCEPT ![l] = [pc |-> "store", note |-> n]]
  BY DEF Emit
<1>2. \A m \in Listeners : heard'[m] = IF m = l THEN [pc |-> "store", note |-> n] ELSE heard[m]
  BY <1>1 DEF IInv, TypeOK
<1>3. QED
  BY <1>1, <1>2, IdleOK

\* Every step but a stop keeps each request's note in hand or in the table.
LEMMA NotifiedStep == IInv /\ RequestIsNotified /\ [Next]_vars => RequestIsNotified'
<1> SUFFICES ASSUME IInv, RequestIsNotified, [Next]_vars PROVE RequestIsNotified'
  OBVIOUS
<1>1. ASSUME UNCHANGED <<rows, notes, heard, stops>> PROVE RequestIsNotified'
  BY <1>1 DEF RequestIsNotified, RequestOf
<1>2. ASSUME NEW h \in Handlers, InsertRequest(h) PROVE RequestIsNotified'
  <2>1. req[h] \in Request /\ req[h].pc = "insert"
    BY <1>2 DEF InsertRequest, IInv, TypeOK
  <2>2. PICK u \in Users, v \in Users : req[h].from = u /\ req[h].to = v
    BY <2>1 DEF Request, Idle
  <2>3. PICK n \in Nat \ {0} :
          /\ n = Len(rows) + 1
          /\ rows' = Append(rows, [requester |-> u, addressee |-> v, status |-> "pending"])
          /\ DOMAIN rows' = DOMAIN rows \cup {n}
          /\ \A i \in DOMAIN rows : rows'[i] = rows[i]
          /\ rows'[n] = [requester |-> u, addressee |-> v, status |-> "pending"]
    BY <1>2, <2>2 DEF InsertRequest, IInv, TypeOK
  <2>4. Emit(RequestNote(n, u, v)) /\ UNCHANGED <<notes, stops>>
    BY <1>2, <2>2, <2>3 DEF InsertRequest
  <2>5. /\ \A i \in DOMAIN rows : RequestOf(i)' = RequestOf(i)
        /\ RequestOf(n)' = RequestNote(n, u, v)
    BY <2>3 DEF RequestOf, RequestNote
  <2>6. PICK note : note = RequestNote(n, u, v)
    OBVIOUS
  <2>7. /\ \A l \in Listeners : heard[l].pc # "idle" => heard'[l] = heard[l]
        /\ \E l \in Listeners : heard'[l].pc # "idle" /\ heard'[l].note = note
    BY <2>4, <2>6, ListenersGoOn
  <2>8. QED
    BY <2>3, <2>4, <2>5, <2>6, <2>7, NoteIsKept
<1>3. ASSUME NEW h \in Handlers, Befriend(h) \/ SaveRefused(h) PROVE RequestIsNotified'
  <2>1. PICK i \in DOMAIN rows : i = req[h].id
    BY <1>3, RowOfRequest DEF Befriend, SaveRefused
  <2>2. PICK status \in FriendshipStatus : SetStatus(i, status)
    BY <1>3, <2>1 DEF Befriend, SaveRefused, FriendshipStatus
  <2>3. UNCHANGED <<notes, heard, stops, willing>>
    BY <1>3 DEF Befriend, SaveRefused
  <2>4. QED
    BY <2>2, <2>3, SameRequest, NoteIsKept
<1>4. ASSUME NEW h \in Handlers, SaveAccepted(h) PROVE RequestIsNotified'
  <2>1. PICK i \in DOMAIN rows : i = req[h].id
    BY <1>4, RowOfRequest DEF SaveAccepted
  <2>2. /\ SetStatus(i, "accepted") /\ "accepted" \in FriendshipStatus
        /\ UNCHANGED <<notes, stops, willing>>
    BY <1>4, <2>1 DEF SaveAccepted, FriendshipStatus
  <2>3. PICK note : note = AcceptedNote(i, rows[i].requester, rows[i].addressee) /\ Emit(note)
    BY <1>4, <2>1 DEF SaveAccepted
  <2>4. QED
    BY <2>2, <2>3, SameRequest, ListenersGoOn, NoteIsKept
<1>5. ASSUME NEW l \in Listeners, StoreNote(l) \/ PushNote(l) PROVE RequestIsNotified'
  <2>1. \A m \in Listeners : heard[m].pc # "idle" =>
          heard[m].note \in notes' \/ heard'[m] = heard[m]
    BY <1>5 DEF StoreNote, PushNote, Stores, IInv, TypeOK
  <2>2. UNCHANGED <<rows, stops>> /\ notes \subseteq notes'
    BY <1>5 DEF StoreNote, PushNote
  <2>3. \A i \in DOMAIN rows' : i \in DOMAIN rows /\ RequestOf(i)' = RequestOf(i)
    BY <2>2 DEF RequestOf
  <2>4. QED
    BY <2>1, <2>2, <2>3, NoteIsKept
<1>6. CASE Stop
  <2>1. stops \in Nat /\ stops' = stops + 1
    BY <1>6 DEF Stop, IInv, TypeOK
  <2>2. QED
    BY <2>1 DEF RequestIsNotified
<1>7. QED
  BY <1>1, <1>2, <1>3, <1>4, <1>5, <1>6
  DEF Next, Arrive, Continue, Listen, SendRequest, AcceptRequest, RefuseRequest,
      FindReverse, Restart, vars

-----------------------------------------------------------------------------
(* The theorems                                                             *)

\* In every state the requests in progress, the listeners and the tables agree.
THEOREM InvariantHolds == Spec => []IInv
<1>1. QED
  BY InitOK, StepOK, PTL DEF Spec

\* However the requests of two users cross, only users who both agreed are friends.
THEOREM OnlyTheWillingAreFriends == Spec => []FriendsAgreed
<1>1. IInv => FriendsAgreed
  BY DEF IInv
<1>2. QED
  BY <1>1, InvariantHolds, PTL

\* The notifications in the table say what happened, to the user it concerns.
THEOREM NotificationsAreTrue == Spec => []NotesAreTrue
<1>1. IInv => NotesAreTrue
  BY DEF IInv
<1>2. QED
  BY <1>1, InvariantHolds, PTL

\* No stream shows a user what the table does not have.
THEOREM NothingIsOnlyShown == Spec => []ShownIsStored
<1>1. IInv => ShownIsStored
  BY DEF IInv
<1>2. QED
  BY <1>1, InvariantHolds, PTL

\* Requests of one pair that raced are no more than the slots they raced in.
THEOREM DuplicatesAreFew == Spec => []FewDuplicates
<1>1. IInv => FewDuplicates
  <2> SUFFICES ASSUME IInv, NEW u \in Users, NEW v \in Users
               PROVE  Cardinality(Between(u, v)) <= Cardinality(Handlers)
    BY DEF FewDuplicates
  <2>1. QED
    BY CrowdsAreCounted DEF IInv
<1>2. QED
  BY <1>1, InvariantHolds, PTL

\* Unless the process stops, no request's notification is forgotten.
THEOREM RequestsAreNotified == Spec => []RequestIsNotified
<1>1. Init => RequestIsNotified
  BY DEF Init, RequestIsNotified
<1>2. QED
  BY <1>1, InvariantHolds, NotifiedStep, PTL DEF Spec
=============================================================================
