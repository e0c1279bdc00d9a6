------------------------------ MODULE MCWorld ------------------------------
(***************************************************************************)
(* World for TLC: lengths of the model's genomes, and slice sizes.         *)
(***************************************************************************)
EXTENDS World

CONSTANTS g1, g2

\* Two genomes, of different lengths.
TwoGenomes == {g1, g2}
LengthOfTwo == [g \in TwoGenomes |-> IF g = g2 THEN 2 ELSE 1]

\* As many instructions a slice as the creature is long.
BySize == [l \in Lengths |-> {l}]
=============================================================================
