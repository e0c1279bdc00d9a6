------------------------------ MODULE CellSpace ------------------------------
(***************************************************************************)
(* What the world relies on from the cell map (engine/MT_CellMap): who     *)
(* owns space in the soup and how much of it is used in all.  Where in the *)
(* soup each range lies is the business of module CellMap.                 *)
(***************************************************************************)
EXTENDS Integers

EmptySpace == [owners |-> {}, used |-> 0]

\* insertCreature, where there is room.
SpaceInsert(m, c, length) == [owners |-> m.owners \union {c}, used |-> m.used + length]

\* removeCreature: nothing happens to a creature that owns no range.
SpaceRemove(m, c, length) ==
  IF c \in m.owners
  THEN [owners |-> m.owners \ {c}, used |-> m.used - length]
  ELSE m
=============================================================================
