------------------------------ MODULE Inventory ------------------------------
(***************************************************************************)
(* engine/MT_Inventory: the genotypes the world has seen and how many      *)
(* living creatures each one counts.  An inventory is a function from the  *)
(* genomes entered so far to mNumAlive; entries are never removed.         *)
(***************************************************************************)
EXTENDS CreatureLists

EmptyInventory == <<>>

\* enterGenotype: find the genome's entry, or make one that counts nobody.
EnterGenotype(inv, g) == IF g \in DOMAIN inv THEN inv ELSE Put(inv, g, 0)

\* creatureBorn and creatureDied: the count of one entry.
CreatureBorn(inv, g) == [inv EXCEPT ![g] = @ + 1]
CreatureDied(inv, g) == [inv EXCEPT ![g] = @ - 1]
=============================================================================
