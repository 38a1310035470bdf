----------------------------- MODULE MCDepartures -----------------------------
(***************************************************************************)
(* Values for the constants of Departures in the runs of TLC.               *)
(***************************************************************************)
EXTENDS Departures

CONSTANTS u1, u2, MaxRounds, MaxAnswers, MaxVotes

Two == {u1, u2}

\* The seat that has a user's number is the other user's.
Crossed == [p \in Two |-> IF p = u1 THEN u2 ELSE u1]

Rows == [round |-> MaxRounds, answer |-> MaxAnswers, vote |-> MaxVotes]

\* The relation paths the handlers rely on.
AllRelations == {"players", "answer.round", "vote.player"}
=============================================================================
