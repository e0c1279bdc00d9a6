---------------------------- MODULE SoupOwnership ----------------------------
(***************************************************************************)
(* What the cell map promises: each byte of the soup belongs to at most    *)
(* one creature, a creature gets its range if and only if all of it is     *)
(* free, and gives back exactly what it had.                               *)
(***************************************************************************)
EXTENDS Integers

CONSTANTS Creatures, NoCreature, Size

VARIABLES made,     \* the creatures there are, with space or without
          ownerOf,  \* the creature that each address belongs to
          inserted  \* what the last insertion answered

vars == <<made, ownerOf, inserted>>

Addresses == 0 .. Size - 1

\* The addresses of a range, around the end of the soup.
Covered(a, length) == {(a + i) % Size : i \in 0 .. length - 1}

Init == /\ made = {}
        /\ ownerOf = [a \in Addresses |-> NoCreature]
        /\ inserted = FALSE

Insert(c, a, length) ==
  /\ c \notin made
  /\ made' = made \union {c}
  /\ inserted' = \A b \in Covered(a, length) : ownerOf[b] = NoCreature
  /\ ownerOf' = IF inserted'
                THEN [b \in Addresses |-> IF b \in Covered(a, length) THEN c ELSE ownerOf[b]]
                ELSE ownerOf

Remove(c) ==
  /\ c \in made
  /\ made' = made \ {c}
  /\ ownerOf' = [b \in Addresses |-> IF ownerOf[b] = c THEN NoCreature ELSE ownerOf[b]]
  /\ UNCHANGED inserted

Next == \E c \in Creatures :
          \/ \E a \in Addresses, length \in 1 .. Size : Insert(c, a, length)
          \/ Remove(c)

Spec == Init /\ [][Next]_vars
=============================================================================
