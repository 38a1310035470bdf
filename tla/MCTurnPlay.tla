------------------------------ MODULE MCTurnPlay ------------------------------
(***************************************************************************)
(* Values for the constants of TurnPlay in the runs of TLC.                 *)
(***************************************************************************)
EXTENDS Tally

CONSTANTS u1, u2, u3, MaxRounds, MaxAnswers, MaxVotes

Two   == {u1, u2}
Three == {u1, u2, u3}

\* Profile ids and user ids are drawn from the same sequence of numbers: the
\* profile of a user has the user's own number, or that of another user.
Aligned == [p \in Users |-> p]
Crossed == [p \in Two |-> IF p = u1 THEN u2 ELSE u1]

Rows == [round |-> MaxRounds, answer |-> MaxAnswers, vote |-> MaxVotes]

\* The relation paths the handlers rely on.
AllRelations == {"players", "answer.round", "vote.player"}
=============================================================================
