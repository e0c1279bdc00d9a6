------------------------------ MODULE CellMap ------------------------------
(***************************************************************************)
(* engine/MT_CellMap as its callers drive it: creatures enter at any       *)
(* address with any length up to the soup's, and leave.                    *)
(***************************************************************************)
EXTENDS CellRanges, CellSpace

VARIABLES cells,    \* mCells
          used,     \* mSpaceUsed
          place,    \* location and length of each creature that was made
          inserted  \* what the last insertCreature returned

vars == <<cells, used, place, inserted>>

NoPlace == [start |-> 0, length |-> 0]
Places == [start : Addresses, length : 1 .. Size]

Made == {c \in Creatures : place[c] # NoPlace}
OwnerOf == [a \in Addresses |-> CreatureAt(cells, a)]

Init == /\ cells = <<>>
        /\ used = 0
        /\ place = [c \in Creatures |-> NoPlace]
        /\ inserted = FALSE

\* createCreature, setLocation, and insertCreature.
InsertCreature(c, a, length) ==
  LET index == SpaceIndex(cells, a, length) IN
  /\ c \notin Made
  /\ place' = [place EXCEPT ![c] = [start |-> a, length |-> length]]
  /\ inserted' = (index # 0)
  /\ IF index # 0
     THEN /\ cells' = InsertAt(cells, index, Cell(a, length, c))
          /\ used' = used + length
     ELSE UNCHANGED <<cells, used>>

\* Mutant of CellToRemove: whose cell it is goes unchecked.
AnyCellThere(c) == IndexOf(cells, place[c].start)

\* The position of the cell at c's location, if it is c's.
CellToRemove(c) ==
  LET index == IndexOf(cells, place[c].start)
  IN  IF index # 0 /\ cells[index].owner = c THEN index ELSE 0

\* Mutant of SpaceGivenBack: nothing is given back.
NothingGivenBack(c) == 0

SpaceGivenBack(c) == place[c].length

\* removeCreature, the last that is heard of c.  A creature that never got its
\* space removes nothing.
RemoveCreature(c) ==
  /\ c \in Made
  /\ place' = [place EXCEPT ![c] = NoPlace]
  /\ IF CellToRemove(c) # 0
     THEN /\ cells' = RemoveAt(cells, CellToRemove(c))
          /\ used' = used - SpaceGivenBack(c)
     ELSE UNCHANGED <<cells, used>>
  /\ UNCHANGED inserted

Next == \E c \in Creatures :
          \/ \E a \in Addresses, length \in 1 .. Size : InsertCreature(c, a, length)
          \/ RemoveCreature(c)

Spec == Init /\ [][Next]_vars

-----------------------------------------------------------------------------
(* What must hold.                                                         *)

\* The types of the map; at most one cell for each creature.
TypeOK ==
  /\ cells \in Seq([start : Addresses, length : 1 .. Size, owner : Creatures])
  /\ \A i, j \in DOMAIN cells : cells[i].owner = cells[j].owner => i = j
  /\ used \in 0 .. Size
  /\ place \in [Creatures -> Places \union {NoPlace}]
  /\ inserted \in BOOLEAN

\* What the binary searches rely on, and insertCreature's two assertions on its
\* neighbours: cells ascend, none reaches into the next, and none but the last
\* wraps, up to where the first starts.
CellsInOrder ==
  /\ \A i \in 1 .. Len(cells) - 1 : End(cells[i]) <= cells[i + 1].start
  /\ cells # <<>> => End(Last(cells)) <= cells[1].start + Size

\* mSpaceUsed, from which fullness decides who is reaped, is the number of bytes
\* a lookup finds an owner for.
UsedIsOwned == used = Cardinality({a \in Addresses : OwnerOf[a] # NoCreature})

\* With what creatureAtAddress answers for each byte as its owner, the map is
\* the ownership of the soup: an insertion succeeds exactly where every byte is
\* free, and a removal frees that creature's bytes and no others.
Ownership == INSTANCE SoupOwnership WITH made <- Made, ownerOf <- OwnerOf
ImplementsOwnership == Ownership!Spec

\* The map as module World has it: who has space, and how much is used.
SpaceOf == [owners |-> {cells[i].owner : i \in DOMAIN cells}, used |-> used]

\* A creature gets space of its length, where there is that much left in all, or
\* gives back what it has.
SpaceStep ==
  \E c \in Creatures :
    \/ /\ c \notin SpaceOf.owners
       /\ SpaceOf.used + place'[c].length <= Size
       /\ SpaceOf' = SpaceInsert(SpaceOf, c, place'[c].length)
    \/ SpaceOf' = SpaceRemove(SpaceOf, c, place[c].length)

\* What the world relies on: an insertion gives space to a creature that had none,
\* never more than is left in all, and adds its length to mSpaceUsed; a removal
\* takes off the length of a creature that has space, and nothing for another.
ImplementsCellSpace ==
  SpaceOf = EmptySpace /\ [][SpaceStep]_SpaceOf
=============================================================================
