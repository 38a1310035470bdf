----------------------------- MODULE MCGameLobby -----------------------------
(* GameLobby on a small instance.                                           *)
EXTENDS GameLobby, TLC

\* Commands do not depend on the slot they take.
Slots == Permutations(Handlers)
=============================================================================
