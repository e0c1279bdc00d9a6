----------------------------- MODULE MCCellMap -----------------------------
(***************************************************************************)
(* CellMap for TLC: creatures are interchangeable.                         *)
(***************************************************************************)
EXTENDS CellMap

Symmetry == Permutations(Creatures)
=============================================================================
