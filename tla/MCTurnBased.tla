----------------------------- MODULE MCTurnBased -----------------------------
(* Instances of TurnBased for TLC.  The .cfg files give the constants. *)
EXTENDS TurnBasedMatch, Replay, TLC

\* Cells are interchangeable.
CellSymmetry == Permutations(Cell)
=============================================================================
