---------------------------- MODULE SpaceSearch ----------------------------
(***************************************************************************)
(* CellMap::searchForSpace with kBothways, the way offspring get their     *)
(* space (packed, closest and preferred allocation): from the cell at or   *)
(* before an address, look at the gaps after and before cells further and  *)
(* further away, always on the side that is nearer.                        *)
(*                                                                         *)
(* One pass of its loop is one step.  The map does not change meanwhile.   *)
(***************************************************************************)
EXTENDS CellRanges

CONSTANT MaxRange  \* inMaxRange, kMaxMalSearchRange

ASSUME SearchAssumption == MaxRange \in Nat /\ IsFiniteSet(Creatures)

VARIABLES map,    \* mCells, of the map that is searched
          search  \* the arguments and local variables of a call

searchVars == <<map, search>>

Idle == [pc |-> "idle"]
Running == search.pc = "running"

SearchInit == map = <<>> /\ search = Idle

\* A map that a sequence of insertions can lead to.  Whose the cells are does
\* not matter to the search.
AddCell(a, length) ==
  LET index == SpaceIndex(map, a, length)
      owner == CHOOSE c \in Creatures : \A i \in DOMAIN map : map[i].owner # c
  IN  /\ search = Idle
      /\ Len(map) < Cardinality(Creatures)
      /\ index # 0
      /\ map' = InsertAt(map, index, Cell(a, length, owner))
      /\ UNCHANGED search

\* The call: the whole of an empty map is space.
SearchForSpace(a, length) ==
  /\ search = Idle
  /\ search' = IF map = <<>>
               THEN [pc |-> "found", location |-> a, length |-> length]
               ELSE LET index == IndexAtOrBefore(map, a)
                    IN  [pc |-> "running", startAddress |-> a, length |-> length,
                         startIndex |-> index, forwardIndex |-> index, backIndex |-> index,
                         forwardWrapped |-> FALSE, backwardsWrapped |-> FALSE]
  /\ UNCHANGED map

-----------------------------------------------------------------------------
(* One pass of the loop, as a function from s to the next search.          *)

Found(s, location) == [pc |-> "found", location |-> location, length |-> s.length]
Failed(s) == [pc |-> "failed", length |-> s.length]

\* The place for the request right before the cell at backIndex.
PlaceBefore(s) == (map[s.backIndex].start - s.length + Size) % Size
PlaceAfter(s) == WrappedEnd(map[s.forwardIndex])

ForwardOffset(s) == ForwardDelta(s.startAddress, PlaceAfter(s))
BackwardOffset(s) == BackwardDelta(s.startAddress, PlaceBefore(s))

\* Mutant of FitsAfter: a gap one byte short is taken to fit.
FitsTightlyAfter(s) == GapAfter(map, s.forwardIndex) + 1 >= s.length

FitsAfter(s) == GapAfter(map, s.forwardIndex) >= s.length
FitsBefore(s) == GapBefore(map, s.backIndex) >= s.length

LookForward(s) ==
  LET next == IF s.forwardIndex = Len(map) THEN 1 ELSE s.forwardIndex + 1
  IN  IF FitsAfter(s) THEN Found(s, PlaceAfter(s))
      ELSE [s EXCEPT !.forwardIndex = next, !.forwardWrapped = (next = s.startIndex)]

\* Mutant of LookBackward: this side is done at the first cell.
LookBackwardToFirst(s) ==
  LET next == IF s.backIndex = 1 THEN Len(map) ELSE s.backIndex - 1
  IN  IF FitsBefore(s) THEN Found(s, PlaceBefore(s))
      ELSE [s EXCEPT !.backIndex = next, !.backwardsWrapped = (next = 1)]

LookBackward(s) ==
  LET next == IF s.backIndex = 1 THEN Len(map) ELSE s.backIndex - 1
  IN  IF FitsBefore(s) THEN Found(s, PlaceBefore(s))
      ELSE [s EXCEPT !.backIndex = next, !.backwardsWrapped = (next = s.startIndex)]

\* With the nearer side forward but that side done, or backward and that side
\* done, and only then, nothing is looked at.
Look(s) ==
  IF ~s.forwardWrapped /\ ForwardOffset(s) <= BackwardOffset(s) THEN LookForward(s)
  ELSE IF ~s.backwardsWrapped THEN LookBackward(s)
  ELSE s

OutOfRange(s) == ForwardOffset(s) > MaxRange /\ BackwardOffset(s) > MaxRange

Pass(s) ==
  LET looked == Look(s)
  IN  IF /\ looked.pc = "running"
         /\ (looked.forwardWrapped /\ looked.backwardsWrapped) \/ OutOfRange(s)
      THEN Failed(s) ELSE looked

SearchPass == Running /\ search' = Pass(search) /\ UNCHANGED map

SearchReturns == /\ search.pc \in {"found", "failed"}
                 /\ search' = Idle
                 /\ UNCHANGED map

SearchNext ==
  \/ \E a \in Addresses, length \in 1 .. Size :
       AddCell(a, length) \/ SearchForSpace(a, length)
  \/ SearchPass
  \/ SearchReturns

\* A search that was started is run until it returns.
SearchSpec == SearchInit /\ [][SearchNext]_searchVars /\ WF_searchVars(SearchPass)

-----------------------------------------------------------------------------
(* What must hold.                                                         *)

HasSpace(length) == \E a \in Addresses : SpaceIndex(map, a, length) # 0

\* BOOST_ASSERT(added), in allocateSpaceForOffspring: the creature can be
\* inserted where the search says there is space.
FoundSpaceIsFree ==
  search.pc = "found" => SpaceIndex(map, search.location, search.length) # 0

\* A search that no range cuts short fails only in a soup with no space for the
\* request at all.
FailsOnlyWhenFull ==
  search.pc = "failed" /\ MaxRange >= Size => ~HasSpace(search.length)

\* When there is space for the request, a search that no range cuts short finds
\* some: it does not run on for ever, as it may when there is none.
SpaceIsFound ==
  Running /\ HasSpace(search.length) /\ MaxRange >= Size ~> search.pc = "found"

\* "pick one to advance": every pass moves one of the two indexes or ends the
\* search.
EveryPassAdvances == Running => Pass(search) # search
=============================================================================
