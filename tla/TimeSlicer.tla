----------------------------- MODULE TimeSlicer -----------------------------
(***************************************************************************)
(* engine/MT_TimeSlicer: the list of creatures that take turns on the      *)
(* virtual CPU, and the item whose turn it is.                             *)
(*                                                                         *)
(* The operators Slicer... are the member functions as functions from the  *)
(* slicer's state to its next state: World applies several in one step     *)
(* where one handler makes several calls.  RoundRobin is what they promise.*)
(*                                                                         *)
(* The counters mCycleCount, mLastCycleInstructions and mTotalInstructions *)
(* only time data collection and mutations, and are left out.              *)
(***************************************************************************)
EXTENDS CreatureLists

CONSTANTS Creatures,  \* the creature objects
          NoCreature  \* a null Creature pointer; an iterator to no list item

ASSUME NoCreatureAssumption == NoCreature \notin Creatures

\* mSlicerList and mCurrentItem of an empty slicer.
EmptySlicer == [list |-> <<>>, current |-> NoCreature]

\* Mutants of SlicerInsert: the first newcomer does not become current; the
\* newcomer goes behind the current item.
SlicerInsertOnly(s, c) ==
  IF s.list = <<>>
  THEN [s EXCEPT !.list = <<c>>]
  ELSE [s EXCEPT !.list = InsertBefore(@, s.current, c)]
SlicerInsertAfter(s, c) ==
  IF s.list = <<>>
  THEN [list |-> <<c>>, current |-> c]
  ELSE [s EXCEPT !.list = InsertAt(@, PositionOf(@, s.current) + 1, c)]

\* insertCreature
SlicerInsert(s, c) ==
  IF s.list = <<>>
  THEN [list |-> <<c>>, current |-> c]
  ELSE [s EXCEPT !.list = InsertBefore(@, s.current, c)]

\* Mutant of Successor: from the end of the list it goes back one item.
SuccessorBouncing(list, c) ==
  IF Last(list) = c THEN list[IF Len(list) = 1 THEN 1 ELSE Len(list) - 1]
                    ELSE list[PositionOf(list, c) + 1]

\* The item after c, wrapping at the end of the list.
Successor(list, c) ==
  IF PositionOf(list, c) = Len(list) THEN list[1]
                                     ELSE list[PositionOf(list, c) + 1]

\* advance.  On an empty list the code increments an iterator to an erased
\* item; currentCreature and insertCreature test for the empty list before they
\* look at mCurrentItem, so whatever that yields is not observed.
SlicerAdvance(s) ==
  IF s.list = <<>> THEN s ELSE [s EXCEPT !.current = Successor(s.list, @)]

\* removeCreature: if it is c's turn, c is advanced over first; when c is the
\* only item that leaves mCurrentItem at the erased item itself.
SlicerRemove(s, c) ==
  LET moved == IF s.current = c THEN SlicerAdvance(s) ELSE s
      list  == Erase(s.list, c)
  IN  [list    |-> list,
       current |-> IF list = <<>> THEN NoCreature ELSE moved.current]

\* Mutant of SlicerReload: the first item is current.
SlicerReloadAtHead(s) == [s EXCEPT !.current = s.list[1]]

\* save, and load into an empty slicer: the items are pushed back in the order of
\* the list, and mCurrentItem is that of the creature saved as the current one.
SlicerReload(s) == [list    |-> [i \in 1 .. Len(s.list) |-> s.list[i]],
                    current |-> s.list[PositionOf(s.list, s.current)]]

\* currentCreature
CurrentCreature(s) == IF s.list = <<>> THEN NoCreature ELSE s.current

\* The list as the order of turns: from mCurrentItem down, then wrapping.
OrderOfTurns(s) ==
  LET first == PositionOf(s.list, s.current)
  IN  [i \in 1 .. Len(s.list) |->
         IF first + i - 1 <= Len(s.list) THEN s.list[first + i - 1]
                                         ELSE s.list[first + i - 1 - Len(s.list)]]

-----------------------------------------------------------------------------
(***************************************************************************)
(* What makes mCurrentItem safe to dereference whenever currentCreature    *)
(* does: no creature is in the list twice, and while the list has an item  *)
(* mCurrentItem is one of them.                                            *)
(***************************************************************************)
Slicers == [list : ListsOf(Creatures), current : Creatures \union {NoCreature}]

SlicerOK(s) ==
  /\ s \in Slicers
  /\ IF s.list = <<>> THEN s.current = NoCreature
                      ELSE s.current \in ToSet(s.list)
=============================================================================
