------------------------------ MODULE MCCatalogue ------------------------------
(***************************************************************************)
(* Values for the constants of Catalogue in the run of TLC.                 *)
(***************************************************************************)
EXTENDS Catalogue, TLC

\* Any name will do, and any slot.
Alike == Permutations(Names) \cup Permutations(Handlers)
=============================================================================
