------------------------------- MODULE Reaper -------------------------------
(***************************************************************************)
(* engine/MT_Reaper: the queue of creatures in the order they are to die.  *)
(* The creature at the head is reaped next.  numErrors gives each          *)
(* creature's error count (Creature::numErrors).                           *)
(***************************************************************************)
EXTENDS CreatureLists

\* addCreature
ReaperAdd(list, c) == Append(list, c)

\* removeCreature
ReaperRemove(list, c) == Erase(list, c)

\* The list with the items at positions i and i + 1 exchanged.
SwapWithNext(list, i) == [list EXCEPT ![i] = list[i + 1], ![i + 1] = list[i]]

\* conditionalMoveUp.  The code names the item before c prevItem, but takes
\* prevCreature from entryIt, which is c itself: the comparison is of c's
\* errors with c's own.
ReaperMoveUp(list, c, numErrors) ==
  LET i    == PositionOf(list, c)
      prev == list[i]
  IN  IF c \in ToSet(list) /\ i > 1 /\ numErrors[c] >= numErrors[prev]
      THEN SwapWithNext(list, i - 1)
      ELSE list

\* conditionalMoveDown
ReaperMoveDown(list, c, numErrors) ==
  LET i == PositionOf(list, c)
  IN  IF c \in ToSet(list) /\ i < Len(list) /\ numErrors[c] < numErrors[list[i + 1]]
      THEN SwapWithNext(list, i)
      ELSE list

\* headCreature of a queue that is not empty.
HeadCreature(list) == Head(list)
=============================================================================
