------------------------------- MODULE Payments -------------------------------
(***************************************************************************)
(* The purchase of lifetime premium: PaymentService and the webhook of      *)
(* PaymentController, with Stripe and the paying users around them.         *)
(*                                                                         *)
(* Stripe keeps a checkout session for each attempt, and tells the server   *)
(* of its end by a webhook which it repeats until it gets an answer.  The   *)
(* server keeps a row for each session it handed out.  Requests and         *)
(* webhooks run from one await to the next in one step; the process may be  *)
(* stopped at any of them, and loses whatever was going on.                 *)
(***************************************************************************)
EXTENDS Naturals, FiniteSets

CONSTANTS
  Users,       \* ids of registered users
  Sessions,    \* ids of the checkout sessions Stripe can open in a run
  Handlers,    \* slots for createPayment requests in progress
  Hooks,       \* slots for webhooks in progress
  MaxStops,    \* how often the process is stopped in a run
  NoUser,      \* nobody
  NoSession    \* no session

ASSUME StopsAssumption   == MaxStops \in Nat
ASSUME NobodyAssumption  == NoUser \notin Users /\ NoSession \notin Sessions

VARIABLES
  stripe,     \* Stripe's sessions: of whom, and how far
  due,        \* the events Stripe has still to get an answer for
  urls,       \* sessions whose checkout page the user was sent to
  row,        \* the payment_session table: session -> row
  premium,    \* users with isPremium
  req,        \* the requests in progress
  hook,       \* the webhooks in progress
  up,         \* the process is running
  stops       \* how often it was stopped

vars == <<stripe, due, urls, row, premium, req, hook, up, stops>>

Checkout == [user : Users \cup {NoUser}, status : {"unopened", "open", "complete", "expired"}]

Event == [session : Sessions, type : {"completed", "expired"}]

\* createdAt is the place in the order of insertion.
SessionRow == [createdAt : Nat, completed : BOOLEAN]

Request == [pc : {"idle", "find", "retrieve", "create", "store"},
            user : Users \cup {NoUser}, session : Sessions \cup {NoSession}]

Idle == [pc |-> "idle", user |-> NoUser, session |-> NoSession]

Webhook == [pc : {"idle", "find", "complete", "upgrade", "answer"},
            session : Sessions \cup {NoSession}]

Silent == [pc |-> "idle", session |-> NoSession]

Stored == DOMAIN row

NewRow == [createdAt |-> Cardinality(Stored) + 1, completed |-> FALSE]

Complete == {s \in Sessions : stripe[s].status = "complete"}

Init ==
  /\ stripe = [s \in Sessions |-> [user |-> NoUser, status |-> "unopened"]]
  /\ due = {} /\ urls = {}
  /\ row = [s \in {} |-> [createdAt |-> 0, completed |-> FALSE]]
  /\ premium = {}
  /\ req = [h \in Handlers |-> Idle]
  /\ hook = [k \in Hooks |-> Silent]
  /\ up = TRUE /\ stops = 0

(* Where a definition below follows one that names a mistake, the first is the  *)
(* second with that mistake in it, for trying the properties; no specification *)
(* uses it.                                                                    *)

-----------------------------------------------------------------------------
(* Stripe, and the users on its pages.  The row's stripeExpiresAt is the     *)
(* time Stripe gave, so a session is past it exactly when it has expired.   *)

Pay(s) ==
  /\ s \in urls /\ stripe[s].status = "open"
  /\ stripe' = [stripe EXCEPT ![s].status = "complete"]
  /\ due' = due \cup {[session |-> s, type |-> "completed"]}
  /\ UNCHANGED <<urls, row, premium, req, hook, up, stops>>

Expire(s) ==
  /\ stripe[s].status = "open"
  /\ stripe' = [stripe EXCEPT ![s].status = "expired"]
  /\ due' = due \cup {[session |-> s, type |-> "expired"]}
  /\ UNCHANGED <<urls, row, premium, req, hook, up, stops>>

-----------------------------------------------------------------------------
(* createPaymentSession                                                     *)

Await(h, pc, u, s) == req' = [req EXCEPT ![h] = [pc |-> pc, user |-> u, session |-> s]]

Reply(h) == req' = [req EXCEPT ![h] = Idle]

\* The user is loaded, and is not premium yet.
CreatePayment(h, u) ==
  /\ up /\ req[h] = Idle
  /\ u \notin premium
  /\ Await(h, "find", u, NoSession)
  /\ UNCHANGED <<stripe, due, urls, row, premium, hook, up, stops>>

\* The user's sessions that are neither completed nor past their time.
Unfinished(u) ==
  {s \in Stored : stripe[s].user = u /\ ~row[s].completed /\ stripe[s].status # "expired"}

Latest(rows) == {s \in rows : \A r \in rows : row[r].createdAt <= row[s].createdAt}

FindSession(h) ==
  /\ req[h].pc = "find"
  /\ LET u == req[h].user
     IN  IF Unfinished(u) = {}
         THEN Await(h, "create", u, NoSession)
         ELSE \E s \in Latest(Unfinished(u)) : Await(h, "retrieve", u, s)
  /\ UNCHANGED <<stripe, due, urls, row, premium, hook, up, stops>>

\* A session Stripe has open is handed out again; when Stripe cannot be reached,
\* or has it no longer open, there will be another.
RetrieveSession(h) ==
  /\ req[h].pc = "retrieve"
  /\ LET s == req[h].session
     IN  \/ /\ stripe[s].status = "open"
            /\ urls' = urls \cup {s}
            /\ Reply(h)
         \/ /\ Await(h, "create", req[h].user, NoSession)
            /\ UNCHANGED urls
  /\ UNCHANGED <<stripe, due, row, premium, hook, up, stops>>

\* The page is handed out before the row is stored.
CreateSessionEagerly(h) ==
  /\ req[h].pc = "create"
  /\ \E s \in Sessions :
       /\ stripe[s].status = "unopened"
       /\ stripe' = [stripe EXCEPT ![s] = [user |-> req[h].user, status |-> "open"]]
       /\ urls' = urls \cup {s}
       /\ Await(h, "store", req[h].user, s)
  /\ UNCHANGED <<due, row, premium, hook, up, stops>>

\* Stripe opens a session; the answer may be lost, or the call may fail.
CreateSession(h) ==
  /\ req[h].pc = "create"
  /\ \/ \E s \in Sessions :
          /\ stripe[s].status = "unopened"
          /\ stripe' = [stripe EXCEPT ![s] = [user |-> req[h].user, status |-> "open"]]
          /\ Await(h, "store", req[h].user, s) \/ Reply(h)
     \/ Reply(h) /\ UNCHANGED stripe
  /\ UNCHANGED <<due, urls, row, premium, hook, up, stops>>

StoreSession(h) ==
  /\ req[h].pc = "store"
  /\ LET s == req[h].session
     IN  /\ row' = [t \in Stored \cup {s} |-> IF t = s THEN NewRow ELSE row[t]]
         /\ urls' = urls \cup {s}
  /\ Reply(h)
  /\ UNCHANGED <<stripe, due, premium, hook, up, stops>>

-----------------------------------------------------------------------------
(* handleStripeWebhook and handleCheckoutSessionCompleted                   *)

GoTo(k, pc) == hook' = [hook EXCEPT ![k].pc = pc]

\* Stripe has the answer, or it got lost and Stripe will try again.
Answer(k) ==
  /\ hook[k].pc = "answer"
  /\ hook' = [hook EXCEPT ![k] = Silent]
  /\ due' \in {due, due \ {[session |-> hook[k].session, type |-> "completed"]}}
  /\ UNCHANGED <<stripe, urls, row, premium, req, up, stops>>

\* Any event of a session is taken for its completion.
HandlesAny(type) == type \in {"completed", "expired"}

Handles(type) == type = "completed"

\* An event of another type is answered at once; a completed session's user is loaded.
Deliver(k, e) ==
  /\ up /\ hook[k] = Silent /\ e \in due
  /\ IF Handles(e.type)
     THEN hook' = [hook EXCEPT ![k] = [pc |-> "find", session |-> e.session]] /\ UNCHANGED due
     ELSE due' \in {due, due \ {e}} /\ UNCHANGED hook
  /\ UNCHANGED <<stripe, urls, row, premium, req, up, stops>>

\* A session that is completed is taken for one that is done with.
FindRowOnce(k) ==
  /\ hook[k].pc = "find"
  /\ LET s == hook[k].session
     IN  GoTo(k, IF s \in Stored /\ ~row[s].completed THEN "complete" ELSE "answer")
  /\ UNCHANGED <<stripe, due, urls, row, premium, req, up, stops>>

FindRow(k) ==
  /\ hook[k].pc = "find"
  /\ GoTo(k, IF hook[k].session \in Stored THEN "complete" ELSE "answer")
  /\ UNCHANGED <<stripe, due, urls, row, premium, req, up, stops>>

MarkCompleted(k) ==
  /\ hook[k].pc = "complete"
  /\ row' = [row EXCEPT ![hook[k].session].completed = TRUE]
  /\ GoTo(k, "upgrade")
  /\ UNCHANGED <<stripe, due, urls, premium, req, up, stops>>

\* The user is the one in the session's metadata.
UpgradeUser(k) ==
  /\ hook[k].pc = "upgrade"
  /\ premium' = premium \cup {stripe[hook[k].session].user}
  /\ GoTo(k, "answer")
  /\ UNCHANGED <<stripe, due, urls, row, req, up, stops>>

-----------------------------------------------------------------------------
(* The process                                                              *)

Stop ==
  /\ up /\ stops < MaxStops
  /\ up' = FALSE /\ stops' = stops + 1
  /\ req' = [h \in Handlers |-> Idle]
  /\ hook' = [k \in Hooks |-> Silent]
  /\ UNCHANGED <<stripe, due, urls, row, premium>>

Restart ==
  /\ ~up
  /\ up' = TRUE
  /\ UNCHANGED <<stripe, due, urls, row, premium, req, hook, stops>>

Continue(h) == FindSession(h) \/ RetrieveSession(h) \/ CreateSession(h) \/ StoreSession(h)

Handle(k) == FindRow(k) \/ MarkCompleted(k) \/ UpgradeUser(k) \/ Answer(k)

Next ==
  \/ \E s \in Sessions : Pay(s) \/ Expire(s)
  \/ \E h \in Handlers : Continue(h) \/ \E u \in Users : CreatePayment(h, u)
  \/ \E k \in Hooks : Handle(k) \/ \E e \in due : Deliver(k, e)
  \/ Stop \/ Restart

Spec == Init /\ [][Next]_vars

\* Node runs what is ready, somebody starts the process again, and Stripe tries each
\* event again on a schedule of its own, however often the others take the slots.
FairSpec ==
  /\ Spec
  /\ WF_vars(Restart)
  /\ \A k \in Hooks : WF_vars(Handle(k))
  /\ \A e \in Event : SF_vars(\E k \in Hooks : Deliver(k, e))

-----------------------------------------------------------------------------
(* Properties                                                               *)

TypeOK ==
  /\ stripe \in [Sessions -> Checkout]
  /\ due \subseteq Event
  /\ urls \subseteq Sessions
  /\ Stored \subseteq Sessions /\ IsFiniteSet(Stored)
  /\ row \in [Stored -> SessionRow]
  /\ premium \subseteq Users
  /\ req \in [Handlers -> Request]
  /\ hook \in [Hooks -> Webhook]
  /\ up \in BOOLEAN /\ stops \in 0..MaxStops

\* createPaymentSession opens the session at Stripe two awaits before it answers, and
\* may be cut off in between.  No session is ever paid that the server has no row for,
\* so the webhook of a payment never finds nothing and drops it.
PaidSessionIsKnown == Complete \subseteq Stored

Payers == {stripe[s].user : s \in Complete}

Promise == INSTANCE Purchase WITH payers <- Payers

\* Whatever is repeated, lost, cut off or run at the same time, whoever is premium has
\* paid and stays premium: the payments implement the purchase.
PurchaseIsKept == Promise!Spec

\* handleCheckoutSessionCompleted marks the row and then the user, and may be cut off
\* between the two.  Stripe repeats the webhook, which does both again: whoever has
\* paid becomes premium.
PaidBecomesPremium == \A u \in Users : u \in Payers ~> u \in premium

\* Premium is bought once: no user pays twice for it.
PaidOnce == \A u \in Users : Cardinality({s \in Complete : stripe[s].user = u}) <= 1

-----------------------------------------------------------------------------
(* The inductive invariant: a page is handed out only of a session with a row, only   *)
(* those are paid, and what is said or done of a completed session is true of Stripe. *)

Begun(r) == r.pc # "idle" => r.user \in Users

IInv ==
  /\ TypeOK
  /\ \A s \in Sessions : stripe[s].status # "unopened" => stripe[s].user \in Users
  /\ urls \subseteq Stored
  /\ Complete \subseteq urls
  /\ \A s \in Stored : stripe[s].status # "unopened"
  /\ \A e \in due : e.type = "completed" => e.session \in Complete
  /\ \A h \in Handlers :
       /\ Begun(req[h])
       /\ req[h].pc = "retrieve" => req[h].session \in Stored
       /\ req[h].pc = "store" =>
            req[h].session \in Sessions /\ stripe[req[h].session].status # "unopened"
  /\ \A k \in Hooks :
       /\ hook[k].pc # "idle" => hook[k].session \in Complete
       /\ hook[k].pc = "complete" => hook[k].session \in Stored
  /\ premium \subseteq Payers
=============================================================================
