----------------------------- MODULE CellRanges -----------------------------
(***************************************************************************)
(* engine/MT_CellMap: which range of the soup each creature occupies.  The *)
(* soup is circular, so a range may wrap past its end.                     *)
(*                                                                         *)
(* mCells is a sequence of cells in the order of their start; a position   *)
(* is one more than the code's index, and 0 says there is none.  Only      *)
(* the last cell can wrap.  Sums stay below 2^32: lengths and addresses do *)
(* not exceed the soup size.                                               *)
(***************************************************************************)
EXTENDS Integers, SequencesExt

CONSTANTS Creatures,   \* the creature objects
          NoCreature,  \* a null Creature pointer
          Size         \* mSize, the length of the soup

ASSUME CellRangesAssumption == /\ NoCreature \notin Creatures
                               /\ Size \in Nat \ {0}

Addresses == 0 .. Size - 1

\* CreatureRange and its member functions.
Cell(start, length, owner) == [start |-> start, length |-> length, owner |-> owner]
End(cell) == cell.start + cell.length
WrappedEnd(cell) == End(cell) % Size
Wraps(cell) == End(cell) > Size

ContainsOffset(cell, a) ==
  IF WrappedEnd(cell) > cell.start THEN cell.start <= a /\ a < WrappedEnd(cell)
                                   ELSE cell.start <= a \/ a < WrappedEnd(cell)

\* The positions that the binary searches have still to look at, of n cells.
Spans(n) == [low : 1 .. n + 1, high : 0 .. n]

\* The loop of indexOfCreatureAtAddress, from each span.
SearchFor(cells, a) ==
  LET search[s \in Spans(Len(cells))] ==
        LET mid == (s.low + s.high) \div 2
        IN  IF s.low > s.high THEN 0
            ELSE IF a < cells[mid].start THEN search[[s EXCEPT !.high = mid - 1]]
            ELSE IF a >= End(cells[mid]) THEN search[[s EXCEPT !.low = mid + 1]]
            ELSE mid
  IN  search

\* indexOfCreatureAtAddress: that search, and then the tail of a last cell that
\* wraps.
IndexOf(cells, a) ==
  LET found == SearchFor(cells, a)[[low |-> 1, high |-> Len(cells)]]
  IN  IF found = 0 /\ cells # <<>> /\ a < cells[1].start /\ ContainsOffset(Last(cells), a)
      THEN Len(cells) ELSE found

\* creatureAtAddress
CreatureAt(cells, a) ==
  LET index == IndexOf(cells, a)
  IN  IF index = 0 THEN NoCreature ELSE cells[index].owner

\* The loop of indexAtOrBefore; what it has found when the span is empty is the
\* position before it.
SearchBefore(cells, a) ==
  LET search[s \in Spans(Len(cells))] ==
        LET mid == (s.low + s.high) \div 2
        IN  IF s.low > s.high THEN s.high
            ELSE IF a < cells[mid].start THEN search[[s EXCEPT !.high = mid - 1]]
            ELSE IF a > cells[mid].start THEN search[[s EXCEPT !.low = mid + 1]]
            ELSE mid
  IN  search

\* indexAtOrBefore, of a map that is not empty: the last cell that starts at or
\* before a, or the first cell; the last cell if it wraps around a.
IndexAtOrBefore(cells, a) ==
  LET found == SearchBefore(cells, a)[[low |-> 1, high |-> Len(cells)]]
  IN  IF a < cells[1].start /\ ContainsOffset(Last(cells), a) THEN Len(cells)
      ELSE IF found = 0 THEN 1 ELSE found

-----------------------------------------------------------------------------
(* spaceAtAddress: the position at which a cell of this start and length   *)
(* would be inserted, 0 if some of the space is taken.                     *)

\* Mutant of IndexIfWrapping: the end of the request is not compared with the
\* first cell.
IndexIfWrappingUnbounded(cells, a, length) ==
  IF ~Wraps(Last(cells)) /\ a >= End(Last(cells)) THEN Len(cells) + 1 ELSE 0

\* A request that wraps must fit between the last cell and the first.
IndexIfWrapping(cells, a, length) ==
  IF /\ ~Wraps(Last(cells))
     /\ a >= End(Last(cells))
     /\ (a + length) % Size <= cells[1].start
  THEN Len(cells) + 1
  ELSE 0

\* One whose address leads to the first cell lies before it, clear of the tail of
\* the last, or between the first and the second.
IndexIfFirst(cells, a, length) ==
  IF ContainsOffset(Last(cells), a) THEN 0
  ELSE IF a + length <= cells[1].start THEN 1
  ELSE IF /\ a >= End(cells[1])
          /\ Len(cells) = 1 \/ a + length <= cells[2].start
       THEN 2
  ELSE 0

SpaceIndex(cells, a, length) ==
  LET index == IndexAtOrBefore(cells, a)
  IN  IF cells = <<>> THEN 1
      ELSE IF a + length > Size THEN IndexIfWrapping(cells, a, length)
      ELSE IF ContainsOffset(cells[index], a) THEN 0
      ELSE IF index = 1 THEN IndexIfFirst(cells, a, length)
      ELSE IF index < Len(cells) /\ a + length > cells[index + 1].start THEN 0
      ELSE index + 1

-----------------------------------------------------------------------------
(* The space between cells.                                                *)

\* Mutant of GapAround: the space in front of the first cell is forgotten.
GapToEnd(cells) == IF Wraps(Last(cells)) THEN 0 ELSE Size - End(Last(cells))

\* From the end of the last cell around to the first.
GapAround(cells) ==
  IF Wraps(Last(cells)) THEN cells[1].start - WrappedEnd(Last(cells))
                        ELSE cells[1].start + Size - End(Last(cells))

GapBefore(cells, i) ==
  IF Len(cells) = 1 THEN Size - cells[1].length
  ELSE IF i = 1 THEN GapAround(cells)
  ELSE cells[i].start - End(cells[i - 1])

GapAfter(cells, i) ==
  IF Len(cells) = 1 THEN Size - cells[1].length
  ELSE IF i = Len(cells) THEN GapAround(cells)
  ELSE cells[i + 1].start - End(cells[i])

\* forwardDelta and backwardDelta: distances around the soup.
ForwardDelta(from, to) == IF to >= from THEN to - from ELSE to + Size - from
BackwardDelta(from, to) == IF from >= to THEN from - to ELSE from + Size - to
=============================================================================
