------------------------------ MODULE MCGameLoop ------------------------------
(***************************************************************************)
(* Values for the constants of GameLoop in the runs of TLC.                 *)
(***************************************************************************)
EXTENDS GameLoopInvariant, TLC

CONSTANTS u1, u2,
          MaxRounds, MaxAnswers, MaxVotes   \* rows of each table in a run

\* Profile ids and user ids are drawn from the same sequence of numbers.
Two == {u1, u2}

Aligned == [p \in Two |-> p]

Rows == [round |-> MaxRounds, answer |-> MaxAnswers, vote |-> MaxVotes]

\* The relation paths the handlers rely on.
AllRelations == {"players", "answer.round", "vote.player"}

\* Slots are taken by any request or call, and no property tells them apart.
Slots == Permutations(Handlers) \cup Permutations(Jobs)
=============================================================================
