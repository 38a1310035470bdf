----------------------------- MODULE PaymentsProofs -----------------------------
(***************************************************************************)
(* Payments keeps its invariant and implements Purchase, for any number of  *)
(* users, sessions, requests, webhooks and stops.                           *)
(***************************************************************************)
EXTENDS Payments, TLAPS, FiniteSetTheorems

\* The initial state satisfies the invariant.
LEMMA InitOK == Init => IInv
BY StopsAssumption, NobodyAssumption, FS_EmptySet
   DEF Init, IInv, TypeOK, Checkout, Stored, SessionRow, Request, Idle, Webhook, Silent,
       Complete, Payers, Begun

\* Paying moves one session from open to complete, and nothing back.
LEMMA PayOK ==
  ASSUME IInv, NEW s \in Sessions, Pay(s)
  PROVE  IInv' /\ Promise!Pay(stripe[s].user) /\ stripe[s].user \in Users
<1> USE NobodyAssumption
<1>1. stripe[s].user \in Users /\ s \in urls
  BY DEF Pay, IInv
<1>2. /\ stripe' \in [Sessions -> Checkout]
      /\ \A t \in Sessions : stripe'[t].user = stripe[t].user
      /\ \A t \in Sessions \ {s} : stripe'[t] = stripe[t]
      /\ stripe'[s].status = "complete"
  BY DEF Pay, IInv, TypeOK, Checkout
<1>3. Complete' = Complete \cup {s}
  BY <1>2 DEF Complete
<1>4. Payers' = Payers \cup {stripe[s].user}
  BY <1>2, <1>3 DEF Payers, Complete
<1>5. TypeOK'
  BY <1>2 DEF Pay, IInv, TypeOK, Event, Stored
<1>6. IInv'
  BY <1>1, <1>2, <1>3, <1>4, <1>5 DEF Pay, IInv, Stored
<1>7. QED
  BY <1>1, <1>4, <1>6 DEF Pay, Promise!Pay

\* Expiry ends a session nobody paid.
LEMMA ExpireOK ==
  ASSUME IInv, NEW s \in Sessions, Expire(s)
  PROVE  IInv' /\ UNCHANGED <<Payers, premium>>
<1>1. /\ stripe' \in [Sessions -> Checkout]
      /\ \A t \in Sessions : stripe'[t].user = stripe[t].user
      /\ \A t \in Sessions \ {s} : stripe'[t] = stripe[t]
      /\ stripe[s].status = "open" /\ stripe'[s].status = "expired"
  BY DEF Expire, IInv, TypeOK, Checkout
<1>2. Complete' = Complete
  BY <1>1 DEF Complete
<1>3. Payers' = Payers
  BY <1>1, <1>2 DEF Payers, Complete
<1>4. TypeOK'
  BY <1>1 DEF Expire, IInv, TypeOK, Event, Stored
<1>5. IInv'
  BY <1>1, <1>2, <1>3, <1>4 DEF Expire, IInv, Stored
<1>6. QED
  BY <1>3, <1>5 DEF Expire

\* A request is taken to another wait, or answered.
LEMMA RequestMoves ==
  ASSUME IInv, NEW h \in Handlers, NEW r \in Request, Begun(r),
         r.pc = "retrieve" => r.session \in Stored,
         r.pc = "store" => r.session \in Sessions /\ stripe[r.session].status # "unopened",
         req' = [req EXCEPT ![h] = r],
         UNCHANGED <<stripe, due, row, premium, hook, up, stops>>,
         urls \subseteq urls', urls' \subseteq Stored
  PROVE  IInv' /\ UNCHANGED <<Payers, premium>>
<1>1. req' \in [Handlers -> Request]
  BY DEF IInv, TypeOK
<1>2. UNCHANGED <<Complete, Payers, Stored>>
  BY DEF Complete, Payers, Stored
<1>3. TypeOK'
  BY <1>1, <1>2 DEF IInv, TypeOK
<1>4. \A g \in Handlers : req'[g] = IF g = h THEN r ELSE req[g]
  BY DEF IInv, TypeOK
<1>5. IInv'
  BY <1>2, <1>3, <1>4 DEF IInv, Begun
<1>6. QED
  BY <1>2, <1>5

\* A slot that is free.
LEMMA IdleOK == Idle \in Request /\ Begun(Idle) /\ Idle.pc = "idle"
BY DEF Idle, Request, Begun

\* The user becomes the request's, and is registered.
LEMMA CreatePaymentOK ==
  ASSUME IInv, NEW h \in Handlers, NEW u \in Users, CreatePayment(h, u)
  PROVE  IInv' /\ UNCHANGED <<Payers, premium>>
<1> DEFINE r == [pc |-> "find", user |-> u, session |-> NoSession]
<1>1. r \in Request /\ Begun(r)
  BY DEF Request, Begun
<1>2. urls \subseteq Stored
  BY DEF IInv
<1>3. req' = [req EXCEPT ![h] = r]
  BY DEF CreatePayment, Await
<1>4. QED
  BY <1>1, <1>2, <1>3, RequestMoves DEF CreatePayment

\* Only a session with a row is looked up at Stripe.
LEMMA FindSessionOK ==
  ASSUME IInv, NEW h \in Handlers, FindSession(h)
  PROVE  IInv' /\ UNCHANGED <<Payers, premium>>
<1> DEFINE u == req[h].user
<1>1. u \in Users /\ urls \subseteq Stored /\ Stored \subseteq Sessions
  BY DEF FindSession, IInv, TypeOK, Begun
<1>2. CASE Unfinished(u) = {}
  <2> DEFINE r == [pc |-> "create", user |-> u, session |-> NoSession]
  <2>1. r \in Request /\ Begun(r)
    BY <1>1 DEF Request, Begun
  <2>2. req' = [req EXCEPT ![h] = r]
    BY <1>2 DEF FindSession, Await
  <2>3. QED
    BY <1>1, <2>1, <2>2, RequestMoves DEF FindSession
<1>3. CASE Unfinished(u) # {}
  <2>1. PICK s \in Latest(Unfinished(u)) : Await(h, "retrieve", u, s)
    BY <1>3 DEF FindSession
  <2> DEFINE r == [pc |-> "retrieve", user |-> u, session |-> s]
  <2>2. s \in Stored
    BY <2>1 DEF Latest, Unfinished
  <2>3. r \in Request /\ Begun(r)
    BY <1>1, <2>2 DEF Request, Begun
  <2>4. req' = [req EXCEPT ![h] = r]
    BY <2>1 DEF Await
  <2>5. QED
    BY <1>1, <2>2, <2>3, <2>4, RequestMoves DEF FindSession
<1>4. QED
  BY <1>2, <1>3

\* Only a session with a row is handed out again.
LEMMA RetrieveSessionOK ==
  ASSUME IInv, NEW h \in Handlers, RetrieveSession(h)
  PROVE  IInv' /\ UNCHANGED <<Payers, premium>>
<1> DEFINE r == [pc |-> "create", user |-> req[h].user, session |-> NoSession]
<1>1. /\ req[h].user \in Users /\ req[h].session \in Stored
      /\ urls \subseteq Stored
  BY DEF RetrieveSession, IInv, Begun
<1>2. r \in Request /\ Begun(r)
  BY <1>1 DEF Request, Begun
<1>3. CASE urls' = urls \cup {req[h].session} /\ Reply(h)
  BY <1>1, <1>3, IdleOK, RequestMoves DEF RetrieveSession, Reply
<1>4. CASE Await(h, "create", req[h].user, NoSession) /\ UNCHANGED urls
  BY <1>1, <1>2, <1>4, RequestMoves DEF RetrieveSession, Await
<1>5. QED
  BY <1>3, <1>4 DEF RetrieveSession

\* Opening a session changes nothing that is paid for or in the table.
LEMMA CreateSessionOK ==
  ASSUME IInv, NEW h \in Handlers, CreateSession(h)
  PROVE  IInv' /\ UNCHANGED <<Payers, premium>>
<1>1. /\ req[h].user \in Users
      /\ urls \subseteq Stored
  BY DEF CreateSession, IInv, Begun
<1>2. CASE Reply(h) /\ UNCHANGED stripe
  BY <1>1, <1>2, IdleOK, RequestMoves DEF CreateSession, Reply
<1>3. ASSUME NEW s \in Sessions, stripe[s].status = "unopened",
             stripe' = [stripe EXCEPT ![s] = [user |-> req[h].user, status |-> "open"]],
             Await(h, "store", req[h].user, s) \/ Reply(h)
      PROVE  IInv' /\ UNCHANGED <<Payers, premium>>
  <2>1. /\ stripe' \in [Sessions -> Checkout]
        /\ \A t \in Sessions \ {s} : stripe'[t] = stripe[t]
        /\ stripe'[s].user = req[h].user /\ stripe'[s].status = "open"
    BY <1>1, <1>3 DEF IInv, TypeOK, Checkout
  <2>2. Complete' = Complete /\ Stored' = Stored
    BY <1>3, <2>1 DEF CreateSession, Complete, Stored
  <2>3. Payers' = Payers
    BY <1>3, <2>1, <2>2 DEF Payers, Complete
  <2>4. PICK r \in Request :
          /\ req' = [req EXCEPT ![h] = r] /\ Begun(r)
          /\ r.pc # "retrieve"
          /\ r.pc = "store" => r.session = s
    <3>1. CASE Reply(h)
      BY <3>1, IdleOK DEF Reply
    <3>2. CASE Await(h, "store", req[h].user, s)
      <4> DEFINE r == [pc |-> "store", user |-> req[h].user, session |-> s]
      <4>1. r \in Request /\ Begun(r)
        BY <1>1 DEF Request, Begun
      <4>2. req' = [req EXCEPT ![h] = r]
        BY <3>2 DEF Await
      <4>3. QED
        BY <4>1, <4>2
    <3>3. QED
      BY <1>3, <3>1, <3>2
  <2>5. req' \in [Handlers -> Request] /\ \A g \in Handlers : req'[g] = IF g = h THEN r ELSE req[g]
    BY <2>4 DEF IInv, TypeOK
  <2>6. TypeOK'
    BY <2>1, <2>2, <2>5 DEF CreateSession, IInv, TypeOK
  <2>7. \A t \in Stored : t # s
    BY <1>3 DEF IInv
  <2>8. IInv'
    BY <1>1, <2>1, <2>2, <2>3, <2>4, <2>5, <2>6, <2>7 DEF CreateSession, IInv, Begun, TypeOK
  <2>9. QED
    BY <2>3, <2>8 DEF CreateSession
<1>4. QED
  BY <1>2, <1>3 DEF CreateSession

\* The page is handed out with the row in the table.
LEMMA StoreSessionOK ==
  ASSUME IInv, NEW h \in Handlers, StoreSession(h)
  PROVE  IInv' /\ UNCHANGED <<Payers, premium>>
<1> DEFINE s == req[h].session
<1>1. /\ s \in Sessions /\ stripe[s].status # "unopened"
      /\ Stored \subseteq Sessions /\ row \in [Stored -> SessionRow]
      /\ urls \subseteq Stored
  BY DEF StoreSession, IInv, TypeOK
<1>2. PICK n \in Nat : row' = [t \in Stored \cup {s} |->
                               IF t = s THEN [createdAt |-> n, completed |-> FALSE] ELSE row[t]]
  <2>1. Cardinality(Stored) + 1 \in Nat
    BY FS_CardinalityType DEF IInv, TypeOK
  <2>2. row' = [t \in Stored \cup {s} |->
                 IF t = s THEN [createdAt |-> Cardinality(Stored) + 1, completed |-> FALSE]
                          ELSE row[t]]
    BY DEF StoreSession, NewRow
  <2>3. QED
    BY <2>1, <2>2
<1>3. /\ Stored' = Stored \cup {s} /\ IsFiniteSet(Stored')
      /\ row' \in [Stored' -> SessionRow]
  BY <1>1, <1>2, FS_AddElement DEF Stored, SessionRow, IInv, TypeOK
<1>4. /\ req' \in [Handlers -> Request]
      /\ \A g \in Handlers : req'[g] = IF g = h THEN Idle ELSE req[g]
  BY IdleOK DEF StoreSession, Reply, IInv, TypeOK
<1>5. UNCHANGED <<Complete, Payers, premium>>
  BY DEF StoreSession, Complete, Payers
<1>6. TypeOK'
  BY <1>1, <1>3, <1>4 DEF StoreSession, IInv, TypeOK
<1>7. IInv'
  BY <1>1, <1>3, <1>4, <1>5, <1>6, IdleOK DEF StoreSession, IInv
<1>8. QED
  BY <1>5, <1>7

-----------------------------------------------------------------------------
\* A webhook is taken to another wait, or is over.
LEMMA WebhookMoves ==
  ASSUME IInv, NEW k \in Hooks, NEW w \in Webhook,
         w.pc # "idle" => w.session \in Complete,
         w.pc = "complete" => w.session \in Stored,
         hook' = [hook EXCEPT ![k] = w],
         due' \subseteq due,
         UNCHANGED <<stripe, urls, row, premium, req, up, stops>>
  PROVE  IInv' /\ UNCHANGED <<Payers, premium>>
<1>1. /\ hook' \in [Hooks -> Webhook]
      /\ \A l \in Hooks : hook'[l] = IF l = k THEN w ELSE hook[l]
  BY DEF IInv, TypeOK
<1>2. UNCHANGED <<Complete, Payers, Stored>>
  BY DEF Complete, Payers, Stored
<1>3. TypeOK'
  BY <1>1, <1>2 DEF IInv, TypeOK
<1>4. IInv'
  BY <1>1, <1>2, <1>3 DEF IInv
<1>5. QED
  BY <1>2, <1>4

\* What GoTo makes of a webhook.
LEMMA GoToOK ==
  ASSUME IInv, NEW k \in Hooks, hook[k].pc # "idle",
         NEW pc \in {"find", "complete", "upgrade", "answer"}, GoTo(k, pc)
  PROVE  /\ hook[k].session \in Complete
         /\ [pc |-> pc, session |-> hook[k].session] \in Webhook
         /\ hook' = [hook EXCEPT ![k] = [pc |-> pc, session |-> hook[k].session]]
<1>1. hook \in [Hooks -> Webhook] /\ hook[k].session \in Complete
  BY DEF IInv, TypeOK
<1>2. [hook[k] EXCEPT !.pc = pc] = [pc |-> pc, session |-> hook[k].session]
  BY <1>1 DEF Webhook
<1>3. QED
  BY <1>1, <1>2 DEF GoTo, Webhook, Complete

\* An event is only forgotten when it has its answer.
LEMMA AnswerOK ==
  ASSUME IInv, NEW k \in Hooks, Answer(k)
  PROVE  IInv' /\ UNCHANGED <<Payers, premium>>
<1>1. Silent \in Webhook /\ Silent.pc = "idle"
  BY DEF Silent, Webhook
<1>2. QED
  BY <1>1, WebhookMoves DEF Answer

\* The session of a completed event is paid.
LEMMA DeliverOK ==
  ASSUME IInv, NEW k \in Hooks, NEW e \in due, Deliver(k, e)
  PROVE  IInv' /\ UNCHANGED <<Payers, premium>>
<1>1. e.session \in Sessions
  BY DEF IInv, TypeOK, Event
<1>2. CASE Handles(e.type)
  <2> DEFINE w == [pc |-> "find", session |-> e.session]
  <2>1. w \in Webhook /\ w.session \in Complete
    BY <1>1, <1>2 DEF Webhook, Handles, IInv
  <2>2. QED
    BY <1>2, <2>1, WebhookMoves DEF Deliver
<1>3. CASE ~Handles(e.type)
  <2>1. /\ hook[k] \in Webhook /\ hook' = [hook EXCEPT ![k] = hook[k]]
        /\ hook[k].pc = "idle"
    BY <1>3 DEF Deliver, IInv, TypeOK, Silent
  <2>2. QED
    BY <1>3, <2>1, WebhookMoves DEF Deliver
<1>4. QED
  BY <1>2, <1>3

\* A row found is a row of the table.
LEMMA FindRowOK ==
  ASSUME IInv, NEW k \in Hooks, FindRow(k)
  PROVE  IInv' /\ UNCHANGED <<Payers, premium>>
<1> DEFINE pc == IF hook[k].session \in Stored THEN "complete" ELSE "answer"
<1>1. pc \in {"find", "complete", "upgrade", "answer"} /\ GoTo(k, pc) /\ hook[k].pc # "idle"
  BY DEF FindRow
<1> DEFINE w == [pc |-> pc, session |-> hook[k].session]
<1>2. w \in Webhook /\ w.session \in Complete /\ hook' = [hook EXCEPT ![k] = w]
  BY <1>1, GoToOK
<1>3. w.pc = "complete" => w.session \in Stored
  OBVIOUS
<1>4. QED
  BY <1>2, <1>3, WebhookMoves DEF FindRow

\* The table keeps its rows.
LEMMA MarkCompletedOK ==
  ASSUME IInv, NEW k \in Hooks, MarkCompleted(k)
  PROVE  IInv' /\ UNCHANGED <<Payers, premium>>
<1> DEFINE s == hook[k].session
           w == [pc |-> "upgrade", session |-> s]
<1>1. /\ w \in Webhook /\ w.session \in Complete
      /\ hook' = [hook EXCEPT ![k] = w]
  BY GoToOK DEF MarkCompleted
<1>2. /\ hook' \in [Hooks -> Webhook]
      /\ \A l \in Hooks : hook'[l] = IF l = k THEN w ELSE hook[l]
  BY <1>1 DEF IInv, TypeOK
<1>3. Stored' = Stored /\ row' \in [Stored' -> SessionRow]
  BY DEF MarkCompleted, Stored, SessionRow, IInv, TypeOK
<1>4. UNCHANGED <<Complete, Payers, premium>>
  BY DEF MarkCompleted, Complete, Payers
<1>5. TypeOK'
  BY <1>2, <1>3 DEF MarkCompleted, IInv, TypeOK
<1>6. IInv'
  BY <1>1, <1>2, <1>3, <1>4, <1>5 DEF MarkCompleted, IInv
<1>7. QED
  BY <1>4, <1>6

\* The one step that makes a user premium is for one who has paid.
LEMMA UpgradeUserOK ==
  ASSUME IInv, NEW k \in Hooks, UpgradeUser(k)
  PROVE  /\ IInv'
         /\ stripe[hook[k].session].user \in Users
         /\ Promise!Upgrade(stripe[hook[k].session].user)
<1> DEFINE s == hook[k].session
           w == [pc |-> "answer", session |-> s]
<1>1. /\ w \in Webhook /\ s \in Complete
      /\ hook' = [hook EXCEPT ![k] = w]
  BY GoToOK DEF UpgradeUser
<1>2. /\ hook' \in [Hooks -> Webhook]
      /\ \A l \in Hooks : hook'[l] = IF l = k THEN w ELSE hook[l]
  BY <1>1 DEF IInv, TypeOK
<1>3. UNCHANGED <<Complete, Payers, Stored>>
  BY DEF UpgradeUser, Complete, Payers, Stored
<1>4. stripe[s].user \in Payers /\ stripe[s].user \in Users
  BY <1>1 DEF Payers, IInv, Complete
<1>5. TypeOK'
  BY <1>2, <1>3, <1>4 DEF UpgradeUser, IInv, TypeOK
<1>6. IInv'
  BY <1>1, <1>2, <1>3, <1>4, <1>5 DEF UpgradeUser, IInv
<1>7. QED
  BY <1>3, <1>4, <1>6 DEF UpgradeUser, Promise!Upgrade

-----------------------------------------------------------------------------
\* A stopped process forgets its requests and webhooks, and nothing else.
LEMMA StopOK ==
  ASSUME IInv, Stop
  PROVE  IInv' /\ UNCHANGED <<Payers, premium>>
<1>1. /\ req' \in [Handlers -> Request] /\ \A h \in Handlers : req'[h] = Idle
      /\ hook' \in [Hooks -> Webhook] /\ \A k \in Hooks : hook'[k].pc = "idle"
  BY IdleOK DEF Stop, Silent, Webhook
<1>2. UNCHANGED <<Complete, Payers, Stored>>
  BY DEF Stop, Complete, Payers, Stored
<1>3. stops' \in 0..MaxStops
  <2>1. stops \in 0..MaxStops /\ stops < MaxStops /\ stops' = stops + 1
    BY DEF Stop, IInv, TypeOK
  <2>2. QED
    BY <2>1, StopsAssumption
<1>4. /\ UNCHANGED <<stripe, due, urls, row, premium>>
      /\ up' \in BOOLEAN
  BY DEF Stop
<1>5. TypeOK'
  BY <1>1, <1>2, <1>3, <1>4 DEF IInv, TypeOK
<1>6. IInv'
  BY <1>1, <1>2, <1>4, <1>5, IdleOK DEF IInv
<1>7. QED
  BY <1>2, <1>4, <1>6

\* A process that is started again, and a step that does nothing.
LEMMA RestartOK ==
  ASSUME IInv, Restart \/ UNCHANGED vars
  PROVE  IInv' /\ UNCHANGED <<Payers, premium>>
<1>1. UNCHANGED <<Complete, Payers, Stored, premium>>
  BY DEF Restart, vars, Complete, Payers, Stored
<1>2. TypeOK'
  BY <1>1 DEF Restart, vars, IInv, TypeOK
<1>3. QED
  BY <1>1, <1>2 DEF Restart, vars, IInv

-----------------------------------------------------------------------------
\* Every step keeps the invariant and is a step of the purchase, or none.
LEMMA StepOK ==
  ASSUME IInv, [Next]_vars
  PROVE  IInv' /\ [Promise!Next]_(Promise!vars)
<1> USE DEF Promise!vars
<1>1. ASSUME NEW s \in Sessions, Pay(s)
      PROVE  IInv' /\ Promise!Next
  BY <1>1, PayOK DEF Promise!Next
<1>2. ASSUME NEW s \in Sessions, Expire(s)
      PROVE  IInv' /\ UNCHANGED <<Payers, premium>>
  BY <1>2, ExpireOK
<1>3. ASSUME NEW h \in Handlers, Continue(h)
      PROVE  IInv' /\ UNCHANGED <<Payers, premium>>
  BY <1>3, FindSessionOK, RetrieveSessionOK, CreateSessionOK, StoreSessionOK DEF Continue
<1>4. ASSUME NEW h \in Handlers, NEW u \in Users, CreatePayment(h, u)
      PROVE  IInv' /\ UNCHANGED <<Payers, premium>>
  BY <1>4, CreatePaymentOK
<1>5. ASSUME NEW k \in Hooks, UpgradeUser(k)
      PROVE  IInv' /\ Promise!Next
  BY <1>5, UpgradeUserOK DEF Promise!Next
<1>6. ASSUME NEW k \in Hooks, FindRow(k) \/ MarkCompleted(k) \/ Answer(k)
      PROVE  IInv' /\ UNCHANGED <<Payers, premium>>
  BY <1>6, FindRowOK, MarkCompletedOK, AnswerOK
<1>7. ASSUME NEW k \in Hooks, NEW e \in due, Deliver(k, e)
      PROVE  IInv' /\ UNCHANGED <<Payers, premium>>
  BY <1>7, DeliverOK
<1>8. CASE Stop
  BY <1>8, StopOK
<1>9. CASE Restart \/ UNCHANGED vars
  BY <1>9, RestartOK
<1>10. QED
  BY <1>1, <1>2, <1>3, <1>4, <1>5, <1>6, <1>7, <1>8, <1>9 DEF Next, Handle

\* The invariant holds in every state: pages are handed out only of sessions with a
\* row, only those are paid, and only payers are premium.
THEOREM InvariantHolds == Spec => []IInv
<1>1. IInv /\ [Next]_vars => IInv'
  BY StepOK
<1>2. QED
  BY InitOK, <1>1, PTL DEF Spec

\* No session is ever paid that handleCheckoutSessionCompleted would not find a row for.
THEOREM PaymentsAreKnown == Spec => []PaidSessionIsKnown
<1>1. IInv => PaidSessionIsKnown
  BY DEF IInv, PaidSessionIsKnown
<1>2. QED
  BY InvariantHolds, <1>1, PTL

\* createPaymentSession and handleCheckoutSessionCompleted, with webhooks repeated and
\* the process stopped at any await, implement the purchase of premium.
THEOREM Refinement == Spec => PurchaseIsKept
<1>1. Init => Promise!Init
  BY DEF Init, Promise!Init, Payers, Complete
<1>2. IInv /\ [Next]_vars => [Promise!Next]_(Promise!vars)
  BY StepOK
<1>3. QED
  BY <1>1, <1>2, InvariantHolds, PTL DEF Spec, PurchaseIsKept, Promise!Spec
=============================================================================
