SPECIFICATION FairSpec
CONSTANTS
  Users = {u1, u2}
  Sessions = {s1, s2}
  Handlers = {h1}
  Hooks = {k1, k2}
  MaxStops = 1
  NoUser = nobody
  NoSession = none
INVARIANTS
  IInv
  PaidSessionIsKnown
PROPERTIES
  PurchaseIsKept
  PaidBecomesPremium
\* Once every user is premium and Stripe has its answers, there is nothing left to do.
CHECK_DEADLOCK FALSE
