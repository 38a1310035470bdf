---------------------------- MODULE DeceptionRules ----------------------------
(***************************************************************************)
(* What playing a game promises to those who play it, whatever becomes of   *)
(* the process in between: rounds follow each other, each player has one    *)
(* vote in a round, no vote comes after the votes of the round were shown,  *)
(* and no player has more points than the shown votes are worth: twenty for *)
(* each of the player's own votes for the truth and ten for each vote that  *)
(* another player gave to the player's lie.                                 *)
(***************************************************************************)
EXTENDS Naturals, FiniteSets

CONSTANTS Players, TotalRounds

VARIABLES
  round,      \* number of the round the players were last asked to answer in
  cast,       \* votes: the round, the player, and what or whom the vote is for
  tallied,    \* rounds of which all votes were shown to the room
  score,
  final       \* the final results were given

vars == <<round, cast, tallied, score, final>>

\* A vote is for the truth, for the lie of a player, or for an answer nobody can find.
Target == Players \cup {"truth", "unknown"}

Init ==
  /\ round = 0 /\ cast = {} /\ tallied = {}
  /\ score = [p \in Players |-> 0]
  /\ final = FALSE

Voted(p) == \E target \in Target : [round |-> round, by |-> p, for |-> target] \in cast

Shown == {vote \in cast : vote.round \in tallied}

Due(p) == 20 * Cardinality({vote \in Shown : vote.by = p /\ vote.for = "truth"})
          + 10 * Cardinality({vote \in Shown : vote.by # p /\ vote.for = p})

\* A round whose prompt never reached the players is passed over.
OpenRound ==
  /\ ~final
  /\ round = 0 \/ round \in tallied
  /\ \E n \in (round + 1)..TotalRounds : round' = n
  /\ UNCHANGED <<cast, tallied, score, final>>

Vote(p, target) ==
  /\ round > 0 /\ round \notin tallied
  /\ ~Voted(p)
  /\ cast' = cast \cup {[round |-> round, by |-> p, for |-> target]}
  /\ UNCHANGED <<round, tallied, score, final>>

Tally ==
  /\ round > 0 /\ round \notin tallied
  /\ \A p \in Players : Voted(p)
  /\ tallied' = tallied \cup {round}
  /\ UNCHANGED <<round, cast, score, final>>

\* Points come one player at a time, and may be lost again.
Settle ==
  /\ \A p \in Players : score'[p] \in 0..Due(p)
  /\ DOMAIN score' = Players
  /\ UNCHANGED <<round, cast, tallied, final>>

AnnounceWinner ==
  /\ TotalRounds \in tallied
  /\ final' = TRUE
  /\ UNCHANGED <<round, cast, tallied, score>>

Next ==
  \/ OpenRound \/ Tally \/ Settle \/ AnnounceWinner
  \/ \E p \in Players, target \in Target : Vote(p, target)

Spec == Init /\ [][Next]_vars
=============================================================================
