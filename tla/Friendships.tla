----------------------------- MODULE Friendships -----------------------------
(***************************************************************************)
(* FriendshipService, and the NotificationsService that listens to it.      *)
(*                                                                         *)
(* A friend request is a row from the requester to the addressee.  Sending, *)
(* accepting and refusing each read rows, decide, and write an await later; *)
(* nothing in the table keeps two requests of one pair apart.  A written    *)
(* row emits an event.  Its listener stores a notification some awaits      *)
(* later, and then pushes it to the streams that are open at that time.     *)
(***************************************************************************)
EXTENDS Naturals, FiniteSets, Sequences

CONSTANTS
  Users,         \* ids of registered users
  Handlers,      \* slots for requests in progress
  Listeners,     \* slots for event listeners in progress
  MaxRows,       \* friend requests inserted in a run
  MaxStops       \* how often the process is stopped in a run

ASSUME HandlersAssumption == IsFiniteSet(Handlers)
ASSUME MaxRowsAssumption  == MaxRows \in Nat
ASSUME MaxStopsAssumption == MaxStops \in Nat

VARIABLES
  rows,       \* the friendship table, a row at the place of its id
  notes,      \* the notification table
  req,        \* the requests in progress
  heard,      \* the listeners in progress
  shown,      \* what was pushed to each user
  up,         \* the process is running
  stops,      \* how often it was stopped
  willing     \* history: <<u, v>> when u has asked for v, or accepted v's request

vars == <<rows, notes, req, heard, shown, up, stops, willing>>

FriendshipStatus == {"pending", "accepted", "rejected"}

Friendship == [requester : Users, addressee : Users, status : FriendshipStatus]

\* Two notifications of the same thing are not told apart.
Notification == [type : {"FRIEND_REQUEST", "FRIEND_REQUEST_ACCEPTED"},
                 user : Users, sender : Users, friendship : Nat \ {0}]

(* A request waits to look for, or to insert, a row between two users, or to *)
(* save the row it has loaded; a listener waits to store its notification,   *)
(* or to push it.                                                            *)

Idle == [pc |-> "idle"]

Request == {Idle} \cup [pc : {"reverse", "insert"}, from : Users, to : Users]
                  \cup [pc : {"befriend", "accept", "refuse"}, id : Nat \ {0}]

Listener == {Idle} \cup [pc : {"store", "push"}, note : Notification]

Init ==
  /\ rows = <<>> /\ notes = {}
  /\ req = [h \in Handlers |-> Idle]
  /\ heard = [l \in Listeners |-> Idle]
  /\ shown = [u \in Users |-> {}]
  /\ up = TRUE /\ stops = 0
  /\ willing = {}

(* Where a definition below follows one that names a mistake, the first is the  *)
(* second with that mistake in it, for trying the properties; no specification *)
(* uses it.                                                                    *)

-----------------------------------------------------------------------------
Await(h, wait) == req' = [req EXCEPT ![h] = wait]

Reply(h) == Await(h, Idle)

\* The event emitter calls the listener at once; it goes on by itself.
Emit(note) ==
  \E l \in Listeners :
    heard[l] = Idle /\ heard' = [heard EXCEPT ![l] = [pc |-> "store", note |-> note]]

RequestNote(i, u, v) ==
  [type |-> "FRIEND_REQUEST", user |-> v, sender |-> u, friendship |-> i]

AcceptedNote(i, u, v) ==
  [type |-> "FRIEND_REQUEST_ACCEPTED", user |-> u, sender |-> v, friendship |-> i]

\* findFriendship finds one of these, or none.
Between(u, v) == {i \in DOMAIN rows : rows[i].requester = u /\ rows[i].addressee = v}

SetStatus(i, status) == rows' = [rows EXCEPT ![i].status = status]

RoomForRow ==
  Len(rows) + Cardinality({h \in Handlers : req[h].pc \in {"reverse", "insert"}}) < MaxRows

-----------------------------------------------------------------------------
(* sendRequest                                                              *)

\* Only a request that is open, or was accepted, keeps another from being sent.
UnlessRejected(u, v) == \A i \in Between(u, v) : rows[i].status = "rejected"

NeverAsked(u, v) == Between(u, v) = {}

\* The users are not the same, the addressee exists, and there is no request yet.
SendRequest(h, u, v) ==
  /\ up /\ req[h] = Idle /\ RoomForRow
  /\ u # v
  /\ NeverAsked(u, v)
  /\ Await(h, [pc |-> "reverse", from |-> u, to |-> v])
  /\ willing' = willing \cup {<<u, v>>}
  /\ UNCHANGED <<rows, notes, heard, shown, up, stops>>

\* The reverse request is looked for in the wrong direction.
FindReverseSwapped(h) ==
  /\ req[h].pc = "reverse"
  /\ LET u == req[h].from
         v == req[h].to
     IN  \/ Between(u, v) = {} /\ Await(h, [pc |-> "insert", from |-> u, to |-> v])
         \/ \E i \in Between(u, v) :
              rows[i].status = "pending" /\ Await(h, [pc |-> "befriend", id |-> i])
  /\ UNCHANGED <<rows, notes, heard, shown, up, stops, willing>>

FindReverse(h) ==
  /\ req[h].pc = "reverse"
  /\ LET u == req[h].from
         v == req[h].to
     IN  \/ /\ Between(v, u) = {} \/ \E i \in Between(v, u) : rows[i].status = "rejected"
            /\ Await(h, [pc |-> "insert", from |-> u, to |-> v])
         \/ \E i \in Between(v, u) :
              \/ rows[i].status = "pending" /\ Await(h, [pc |-> "befriend", id |-> i])
              \/ rows[i].status = "accepted" /\ Reply(h)
  /\ UNCHANGED <<rows, notes, heard, shown, up, stops, willing>>

\* The event may be forgotten.
InsertRequestQuietly(h) ==
  /\ req[h].pc = "insert"
  /\ LET u == req[h].from
         v == req[h].to
     IN  /\ rows' = Append(rows, [requester |-> u, addressee |-> v, status |-> "pending"])
         /\ Emit(RequestNote(Len(rows) + 1, u, v)) \/ UNCHANGED heard
  /\ Reply(h)
  /\ UNCHANGED <<notes, shown, up, stops, willing>>

InsertRequest(h) ==
  /\ req[h].pc = "insert"
  /\ LET u == req[h].from
         v == req[h].to
     IN  /\ rows' = Append(rows, [requester |-> u, addressee |-> v, status |-> "pending"])
         /\ Emit(RequestNote(Len(rows) + 1, u, v))
  /\ Reply(h)
  /\ UNCHANGED <<notes, shown, up, stops, willing>>

\* The other has asked before: they are friends, and nobody is told.
Befriend(h) ==
  /\ req[h].pc = "befriend"
  /\ SetStatus(req[h].id, "accepted")
  /\ Reply(h)
  /\ UNCHANGED <<notes, heard, shown, up, stops, willing>>

-----------------------------------------------------------------------------
(* acceptRequest and refuseRequest                                          *)

AcceptRequest(h, u, i) ==
  /\ up /\ req[h] = Idle
  /\ rows[i].addressee = u /\ rows[i].status = "pending"
  /\ Await(h, [pc |-> "accept", id |-> i])
  /\ willing' = willing \cup {<<u, rows[i].requester>>}
  /\ UNCHANGED <<rows, notes, heard, shown, up, stops>>

\* The user who accepts is told.
SaveAcceptedToSelf(h) ==
  /\ req[h].pc = "accept"
  /\ LET i == req[h].id
     IN  /\ SetStatus(i, "accepted")
         /\ Emit(AcceptedNote(i, rows[i].addressee, rows[i].requester))
  /\ Reply(h)
  /\ UNCHANGED <<notes, shown, up, stops, willing>>

SaveAccepted(h) ==
  /\ req[h].pc = "accept"
  /\ LET i == req[h].id
     IN  /\ SetStatus(i, "accepted")
         /\ Emit(AcceptedNote(i, rows[i].requester, rows[i].addressee))
  /\ Reply(h)
  /\ UNCHANGED <<notes, shown, up, stops, willing>>

\* Whatever its status is.
RefuseRequest(h, u, i) ==
  /\ up /\ req[h] = Idle
  /\ rows[i].addressee = u
  /\ Await(h, [pc |-> "refuse", id |-> i])
  /\ UNCHANGED <<rows, notes, heard, shown, up, stops, willing>>

SaveRefused(h) ==
  /\ req[h].pc = "refuse"
  /\ SetStatus(req[h].id, "rejected")
  /\ Reply(h)
  /\ UNCHANGED <<notes, heard, shown, up, stops, willing>>

-----------------------------------------------------------------------------
(* handleFriendRequest and handleFriendRequestAccepted.  They load the two    *)
(* users and the row, none of which is ever deleted.                         *)

Stores(l, pc) == heard' = [heard EXCEPT ![l].pc = pc]

\* The stream is served before the table.
StoreNoteLast(l) ==
  /\ heard[l].pc = "store"
  /\ LET n == heard[l].note
     IN  shown' \in {shown, [shown EXCEPT ![n.user] = @ \cup {n}]}
  /\ Stores(l, "push")
  /\ UNCHANGED <<rows, notes, req, up, stops, willing>>

StoreNote(l) ==
  /\ heard[l].pc = "store"
  /\ notes' = notes \cup {heard[l].note}
  /\ Stores(l, "push")
  /\ UNCHANGED <<rows, req, shown, up, stops, willing>>

\* The user's stream lets it through, if one is open at this time.
PushNote(l) ==
  /\ heard[l].pc = "push"
  /\ LET n == heard[l].note
     IN  shown' \in {shown, [shown EXCEPT ![n.user] = @ \cup {n}]}
  /\ heard' = [heard EXCEPT ![l] = Idle]
  /\ UNCHANGED <<rows, notes, req, up, stops, willing>>

-----------------------------------------------------------------------------
(* The process                                                              *)

\* What is going on is lost, events that wait for their listener included.
Stop ==
  /\ up /\ stops < MaxStops
  /\ up' = FALSE /\ stops' = stops + 1
  /\ req' = [h \in Handlers |-> Idle]
  /\ heard' = [l \in Listeners |-> Idle]
  /\ UNCHANGED <<rows, notes, shown, willing>>

Restart ==
  /\ ~up
  /\ up' = TRUE
  /\ UNCHANGED <<rows, notes, req, heard, shown, stops, willing>>

Arrive(h) ==
  \E u \in Users :
    \/ \E v \in Users : SendRequest(h, u, v)
    \/ \E i \in DOMAIN rows : AcceptRequest(h, u, i) \/ RefuseRequest(h, u, i)

Continue(h) ==
  FindReverse(h) \/ InsertRequest(h) \/ Befriend(h) \/ SaveAccepted(h) \/ SaveRefused(h)

Listen(l) == StoreNote(l) \/ PushNote(l)

Next ==
  \/ \E h \in Handlers : Arrive(h) \/ Continue(h)
  \/ \E l \in Listeners : Listen(l)
  \/ Stop \/ Restart

Spec == Init /\ [][Next]_vars
-----------------------------------------------------------------------------
(* Properties                                                               *)

TypeOK ==
  /\ rows \in Seq(Friendship)
  /\ notes \subseteq Notification
  /\ req \in [Handlers -> Request]
  /\ heard \in [Listeners -> Listener]
  /\ shown \in [Users -> SUBSET Notification]
  /\ up \in BOOLEAN /\ stops \in 0..MaxStops
  /\ willing \subseteq Users \X Users

IsTrue(n) ==
  /\ n.friendship \in DOMAIN rows
  /\ LET r == rows[n.friendship]
     IN  \/ /\ n.type = "FRIEND_REQUEST"
            /\ n.user = r.addressee /\ n.sender = r.requester
         \/ /\ n.type = "FRIEND_REQUEST_ACCEPTED"
            /\ n.user = r.requester /\ n.sender = r.addressee
            /\ <<n.sender, n.user>> \in willing

\* sendRequest and acceptRequest decide on rows they read an await earlier, and either
\* may make two users friends.  No two users are friends unless each of them asked
\* for the other or accepted the other's request.
FriendsAgreed ==
  \A i \in DOMAIN rows : rows[i].status = "accepted" =>
    /\ <<rows[i].requester, rows[i].addressee>> \in willing
    /\ <<rows[i].addressee, rows[i].requester>> \in willing

\* A notification is stored for one side of a request about the other: the addressee
\* learns of the request, the requester of an acceptance by one who did accept.
NotesAreTrue == \A n \in notes : IsTrue(n)

\* A stream is not replayed and the process may stop at any time: whatever a user saw
\* pass there is in the table, to be found again.
ShownIsStored == \A u \in Users : shown[u] \subseteq {n \in notes : n.user = u}

\* sendRequest looks for a request before it inserts one, and others may insert theirs
\* in between.  There are never more requests from one user to another than requests
\* the server works on at one time.
FewDuplicates == \A u, v \in Users : Cardinality(Between(u, v)) <= Cardinality(Handlers)

RequestOf(i) == RequestNote(i, rows[i].requester, rows[i].addressee)

\* The event of a request lives in memory only.  As long as the process is not stopped,
\* each request in the table is in the addressee's notifications, or a listener has it
\* in hand; no other handler's doings make one be forgotten.
RequestIsNotified ==
  stops = 0 =>
    \A i \in DOMAIN rows :
      \/ RequestOf(i) \in notes
      \/ \E l \in Listeners : heard[l].pc # "idle" /\ heard[l].note = RequestOf(i)

-----------------------------------------------------------------------------
(* The inductive invariant: what a request is about to write, and a listener to     *)
(* store, is already agreed to; and the requests of a pair that are stored or on    *)
(* their way are no more than the slots, since none sets out once one is stored.    *)

Asked(i)  == <<rows[i].requester, rows[i].addressee>> \in willing
Agreed(i) == <<rows[i].addressee, rows[i].requester>> \in willing

WaitOK(r) ==
  /\ r.pc \in {"reverse", "insert"} => <<r.from, r.to>> \in willing
  /\ r.pc \in {"befriend", "accept", "refuse"} => r.id \in DOMAIN rows
  /\ r.pc \in {"befriend", "accept"} => Agreed(r.id)

Asking(u, v) ==
  {h \in Handlers : req[h].pc \in {"reverse", "insert"} /\ req[h].from = u /\ req[h].to = v}

IInv ==
  /\ TypeOK
  /\ \A h \in Handlers : WaitOK(req[h])
  /\ \A l \in Listeners : heard[l].pc # "idle" => IsTrue(heard[l].note)
  /\ \A l \in Listeners : heard[l].pc = "push" => heard[l].note \in notes
  /\ \A i \in DOMAIN rows : Asked(i)
  /\ FriendsAgreed /\ NotesAreTrue /\ ShownIsStored
  /\ \A u, v \in Users :
       Cardinality(Between(u, v)) + Cardinality(Asking(u, v)) <= Cardinality(Handlers)
=============================================================================
