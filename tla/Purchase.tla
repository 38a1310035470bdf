------------------------------- MODULE Purchase -------------------------------
(***************************************************************************)
(* What buying lifetime premium promises: whoever is premium has paid, and  *)
(* stays premium.                                                           *)
(***************************************************************************)
CONSTANT Users

VARIABLES
  payers,     \* users who have paid
  premium     \* users with premium status

vars == <<payers, premium>>

Init == payers = {} /\ premium = {}

Pay(u) ==
  /\ payers' = payers \cup {u}
  /\ UNCHANGED premium

Upgrade(u) ==
  /\ u \in payers
  /\ premium' = premium \cup {u}
  /\ UNCHANGED payers

Next == \E u \in Users : Pay(u) \/ Upgrade(u)

Spec == Init /\ [][Next]_vars
=============================================================================
