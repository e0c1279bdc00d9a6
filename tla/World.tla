-------------------------------- MODULE World --------------------------------
(***************************************************************************)
(* engine/MT_World: the life of the creatures of one soup.  A creature is  *)
(* born from an insertion or as an embryo its parent allocates, fills and  *)
(* divides off; adults share the CPU by the time slicer; when the soup is  *)
(* too full at the end of a slice, the reaper's head dies, embryo and all. *)
(*                                                                         *)
(* One action is one pass of the loop of World::iterate, or one call made  *)
(* between two calls of iterate.                                           *)
(*                                                                         *)
(* Data left out: where ranges lie in the soup (CellMap), registers and    *)
(* instruction words, the counters that time mutation and data collection. *)
(* What the bytes of an embryo spell when it is divided off is any genome  *)
(* of its length: the parent, others writing to it, cosmic rays, flaws and *)
(* copy errors all had a hand in it.  A request for space is met, or fails *)
(* as a fragmented soup may fail it, whenever the soup has that much free. *)
(***************************************************************************)
EXTENDS TimeSlicer, Reaper, Inventory, CellSpace

CONSTANTS Genomes,         \* the genomes creatures can have
          NoGenome,        \* an embryo's birth genome and genotype
          Length,          \* the length of each genome
          SoupSize,        \* mSoupSize
          ReapThreshold,   \* the space in use above which the reaper kills
          MinCreatureSize, \* kMinCreatureSize
          SliceSizes,      \* what sizeForThisSlice may return, by length
          MaxErrors        \* bound on a creature's error count

Lengths == {Length[g] : g \in Genomes}

ASSUME WorldAssumption ==
  /\ NoGenome \notin Genomes
  /\ Length \in [Genomes -> Nat \ {0}]
  /\ SoupSize \in Nat
  /\ ReapThreshold \in Nat
  /\ MinCreatureSize \in Nat
  /\ SliceSizes \in [Lengths -> SUBSET Nat]
  /\ MaxErrors \in Nat

VARIABLES
  idMap,      \* mCreatureIDMap, the owner of every creature, with its fields
  space,      \* mCellMap
  slicer,     \* mTimeSlicer
  reaper,     \* mReaper
  inventory,  \* mInventory
  iterating,  \* a call of iterate is in progress
  cycles,     \* mCurCreatureCycles
  slice       \* mCurCreatureSliceCycles

vars == <<idMap, space, slicer, reaper, inventory, iterating, cycles, slice>>

-----------------------------------------------------------------------------
(* Creatures.                                                              *)

\* daughter is mDaughter, and mDividing says whether there is one; copied says
\* mMovesToLastOffspring has passed half the daughter's length; diverged says
\* mGenotypeDivergence is not 0.
Embryo(length) ==
  [born |-> FALSE, length |-> length, daughter |-> NoCreature, copied |-> FALSE,
   errors |-> 0, birthGenome |-> NoGenome, genotype |-> NoGenome, diverged |-> FALSE]

\* A creature that starts its life with genome g.
Born(creature, g, genotype, diverged) ==
  [creature EXCEPT !.born = TRUE, !.birthGenome = g,
                   !.genotype = genotype, !.diverged = diverged]

Adults == {c \in DOMAIN idMap : idMap[c].born}
Current == CurrentCreature(slicer)
Daughter(c) == idMap[c].daughter
NumErrors == [c \in DOMAIN idMap |-> idMap[c].errors]

\* There may be a gap of this length somewhere in the soup.
MayFit(length) == space.used + length <= SoupSize

Init ==
  /\ idMap = <<>>
  /\ space = EmptySpace
  /\ slicer = EmptySlicer
  /\ reaper = <<>>
  /\ inventory = EmptyInventory
  /\ iterating = FALSE
  /\ cycles = 0
  /\ slice = 0

\* Mutant of CreatureAdded: the reaper is not told.
CreatureAddedToSlicer(c) == /\ slicer' = SlicerInsert(slicer, c)
                            /\ UNCHANGED reaper

\* creatureAdded
CreatureAdded(c) == /\ slicer' = SlicerInsert(slicer, c)
                    /\ reaper' = ReaperAdd(reaper, c)

\* insertCreature, where there is space; otherwise it changes nothing.
InsertCreature(c, g) ==
  /\ ~iterating
  /\ c \notin DOMAIN idMap
  /\ MayFit(Length[g])
  /\ idMap' = Put(idMap, c, Born(Embryo(Length[g]), g, g, FALSE))
  /\ space' = SpaceInsert(space, c, Length[g])
  /\ inventory' = CreatureBorn(EnterGenotype(inventory, g), g)
  /\ CreatureAdded(c)
  /\ UNCHANGED <<iterating, cycles, slice>>

-----------------------------------------------------------------------------
(* World::iterate.                                                         *)

\* The call: nothing happens without a creature; a slice whose length has not
\* been drawn yet is drawn.
IterateStart ==
  /\ ~iterating
  /\ Current # NoCreature
  /\ iterating' = TRUE
  /\ slice' \in IF cycles = 0 THEN SliceSizes[idMap[Current].length] ELSE {slice}
  /\ UNCHANGED <<idMap, space, slicer, reaper, inventory, cycles>>

\* One instruction of the current creature.  iterate returns when it has run
\* as many as it was asked to.
Executes ==
  /\ iterating
  /\ cycles < slice
  /\ cycles' = cycles + 1
  /\ iterating' \in BOOLEAN
  /\ UNCHANGED slice

\* An instruction that leaves the flag clear and is none of those below.
ExecuteOther ==
  /\ Executes
  /\ UNCHANGED <<idMap, space, slicer, reaper, inventory>>

\* An instruction that sets the flag: a template not found, a write outside the
\* creature, a mal or divide that is refused.
ExecuteFails ==
  LET c == Current IN
  /\ Executes
  /\ idMap[c].errors < MaxErrors
  /\ idMap' = [idMap EXCEPT ![c].errors = @ + 1]
  /\ reaper' = ReaperMoveUp(reaper, c, NumErrors')
  /\ UNCHANGED <<space, slicer, inventory>>

\* mov_iab while dividing, the write that passes half the daughter's length.
ExecuteCopy ==
  LET c == Current IN
  /\ Executes
  /\ Daughter(c) # NoCreature
  /\ idMap' = [idMap EXCEPT ![c].copied = TRUE]
  /\ UNCHANGED <<space, slicer, reaper, inventory>>

\* mal: allocateSpaceForOffspring, startDividing, and the move down the reaper
\* queue that a successful mal earns.
ExecuteAllocate(d, length) ==
  LET c == Current IN
  /\ Executes
  /\ Daughter(c) = NoCreature
  /\ length >= MinCreatureSize
  /\ length <= 3 * idMap[c].length
  /\ MayFit(length)
  /\ d \notin DOMAIN idMap
  /\ idMap' = Put([idMap EXCEPT ![c].daughter = d], d, Embryo(length))
  /\ space' = SpaceInsert(space, d, length)
  /\ reaper' = ReaperMoveDown(reaper, c, NumErrors)
  /\ UNCHANGED <<slicer, inventory>>

-----------------------------------------------------------------------------
(* divide and handleBirth: c's daughter d starts its life with genome g.   *)

\* gaveBirth's answer, genomeIdenticalToCreature.
BredTrue(c, g) == g = idMap[c].birthGenome

\* The genotype the parent is counted under is not that of its birth genome.
Reclassified(c, g) ==
  /\ BredTrue(c, g)
  /\ idMap[c].diverged \/ idMap[c].genotype # g

\* The parent and the child when both are of the parent's birth genome...
TrueBirth(c, d, g) ==
  LET entered == EnterGenotype(inventory, g)
      left    == IF Reclassified(c, g) /\ ~idMap[c].diverged
                 THEN CreatureDied(entered, idMap[c].genotype) ELSE entered
      joined  == IF Reclassified(c, g) THEN CreatureBorn(left, g) ELSE left
  IN  /\ inventory' = CreatureBorn(joined, g)
      /\ idMap' = [idMap EXCEPT
           ![c] = [@ EXCEPT !.daughter = NoCreature, !.copied = FALSE,
                            !.genotype = g, !.diverged = FALSE],
           ![d] = Born(@, g, g, FALSE)]

\* Mutant of DivergentBirth: the child does not diverge.
UndivergedBirth(c, d, g) ==
  /\ idMap' = [idMap EXCEPT
       ![c] = [@ EXCEPT !.daughter = NoCreature, !.copied = FALSE],
       ![d] = Born(@, g, idMap[c].genotype, FALSE)]
  /\ UNCHANGED inventory

\* ... and when the child is not: it diverges from its parent's genotype, and
\* no genotype counts it.
DivergentBirth(c, d, g) ==
  /\ idMap' = [idMap EXCEPT
       ![c] = [@ EXCEPT !.daughter = NoCreature, !.copied = FALSE],
       ![d] = Born(@, g, idMap[c].genotype, TRUE)]
  /\ UNCHANGED inventory

ExecuteDivide(g) ==
  LET c == Current
      d == Daughter(c)
  IN
  /\ Executes
  /\ d # NoCreature
  /\ idMap[c].copied
  /\ Length[g] = idMap[d].length
  /\ IF BredTrue(c, g) THEN TrueBirth(c, d, g) ELSE DivergentBirth(c, d, g)
  /\ slicer' = SlicerInsert(slicer, d)
  /\ reaper' = ReaperMoveDown(ReaperAdd(reaper, d), c, NumErrors)
  /\ UNCHANGED space

-----------------------------------------------------------------------------
(* The end of a slice, and death.                                          *)

\* creatureRemoved's calls for a creature that may be in neither list.
ReaperUnlink(list, c) == IF c \in ToSet(list) THEN ReaperRemove(list, c) ELSE list
SlicerUnlink(s, c) == IF c \in ToSet(s.list) THEN SlicerRemove(s, c) ELSE s

\* advance to the next creature and draw its slice; with nobody left, iterate
\* returns and leaves the slice as it is.
NextTurn(s) ==
  /\ slicer' = SlicerAdvance(s)
  /\ IF CurrentCreature(slicer') = NoCreature
     THEN /\ iterating' = FALSE
          /\ UNCHANGED <<cycles, slice>>
     ELSE /\ cycles' = 0
          /\ slice' \in SliceSizes[idMap'[CurrentCreature(slicer')].length]
          /\ UNCHANGED iterating

SliceIsOver == iterating /\ cycles >= slice

EndSlice ==
  /\ SliceIsOver
  /\ space.used <= ReapThreshold
  /\ UNCHANGED <<idMap, space, reaper, inventory>>
  /\ NextTurn(slicer)

\* Mutants of DieWith, SpaceLeft and CountsLeft: a death that forgets the embryo
\* in the id map or in the soup, and one that uncounts who was not counted.
DieAlone(c) == {c}
SpaceLeftWithEmbryo(c) == SpaceRemove(space, c, idMap[c].length)
CountsLeftByAll(c) == CreatureDied(inventory, idMap[c].genotype)

\* eradicateCreature(c), which eradicates c's embryo first: the creatures that
\* leave the id map (or no creature at all),
DieWith(c) == {c, Daughter(c)}

\* the space that is left,
SpaceLeft(c) ==
  LET d == Daughter(c)
      m == IF d = NoCreature THEN space ELSE SpaceRemove(space, d, idMap[d].length)
  IN  SpaceRemove(m, c, idMap[c].length)

\* and handleDeath's bookkeeping.
CountsLeft(c) ==
  IF idMap[c].diverged THEN inventory ELSE CreatureDied(inventory, idMap[c].genotype)

EndSliceAndReap ==
  LET doomed == HeadCreature(reaper)
      embryo == Daughter(doomed)
  IN
  /\ SliceIsOver
  /\ space.used > ReapThreshold
  /\ inventory' = CountsLeft(doomed)
  /\ space' = SpaceLeft(doomed)
  /\ idMap' = Restrict(idMap, DOMAIN idMap \ DieWith(doomed))
  /\ reaper' = ReaperUnlink(ReaperUnlink(reaper, embryo), doomed)
  /\ NextTurn(SlicerUnlink(SlicerUnlink(slicer, embryo), doomed))

\* ~World: destroyCreatures takes every creature out of every structure; the
\* world that is made next starts empty.
DestroyWorld ==
  /\ ~iterating
  /\ idMap # <<>>
  /\ idMap' = <<>>
  /\ space' = EmptySpace
  /\ slicer' = EmptySlicer
  /\ reaper' = <<>>
  /\ inventory' = EmptyInventory
  /\ cycles' = 0
  /\ slice' = 0
  /\ UNCHANGED iterating

\* A soup file: World::save writes every structure, and load, into another World,
\* reads them back.  With an empty list the slicer's save dereferences mCurrentItem,
\* which is no item: left out.
SaveAndLoad ==
  /\ ~iterating
  /\ slicer.list # <<>>
  /\ slicer' = SlicerReload(slicer)
  /\ UNCHANGED <<idMap, space, reaper, inventory, iterating, cycles, slice>>

Execute ==
  \/ ExecuteOther
  \/ ExecuteFails
  \/ ExecuteCopy
  \/ \E d \in Creatures, length \in Lengths : ExecuteAllocate(d, length)
  \/ \E g \in Genomes : ExecuteDivide(g)

Iterate == IterateStart \/ Execute \/ EndSlice \/ EndSliceAndReap

Next ==
  \/ Iterate
  \/ \E c \in Creatures, g \in Genomes : InsertCreature(c, g)
  \/ DestroyWorld
  \/ SaveAndLoad

Spec == Init /\ [][Next]_vars

\* Once it runs, the world is iterated again and again: the world thread's run
\* loop timer and the command line's loop do nothing else.
FairSpec == Spec /\ WF_vars(Iterate)

-----------------------------------------------------------------------------
(* What must hold.                                                         *)

CreatureRecords ==
  [born : BOOLEAN, length : Lengths, daughter : Creatures \union {NoCreature},
   copied : BOOLEAN, errors : 0 .. MaxErrors, birthGenome : Genomes \union {NoGenome},
   genotype : Genomes \union {NoGenome}, diverged : BOOLEAN]

\* The types of the world's structures.
TypeOK ==
  /\ DOMAIN idMap \subseteq Creatures
  /\ \A c \in DOMAIN idMap : idMap[c] \in CreatureRecords
  /\ space \in [owners : SUBSET Creatures, used : Int]
  /\ SlicerOK(slicer)
  /\ reaper \in ListsOf(Creatures)
  /\ DOMAIN inventory \subseteq Genomes
  /\ \A g \in DOMAIN inventory : inventory[g] \in Int
  /\ iterating \in BOOLEAN
  /\ cycles \in Nat
  /\ slice \in Nat

\* Each adult takes turns and can be reaped, and nothing else does: the two
\* queues hold the adults of the id map, the same ones.  While iterate runs
\* there is one, so that neither the current creature nor the reaper's head is
\* a null pointer.
QueuesHoldAdults ==
  /\ ToSet(slicer.list) = Adults
  /\ ToSet(reaper) = Adults
  /\ iterating => Adults # {}

\* An embryo lives exactly as long as one adult is dividing into it: none is
\* orphaned in the id map, and no adult points at a daughter that is gone, that
\* was born, or that is another's.
EmbryosHaveOneParent ==
  /\ \A c \in Adults : Daughter(c) # NoCreature => Daughter(c) \in DOMAIN idMap \ Adults
  /\ \A d \in DOMAIN idMap \ Adults :
       /\ Daughter(d) = NoCreature
       /\ \E c \in Adults : Daughter(c) = d
  /\ \A c1, c2 \in Adults :
       Daughter(c1) = Daughter(c2) /\ Daughter(c1) # NoCreature => c1 = c2

\* mSpaceUsed is the space owned by the creatures of the id map, embryos
\* included, and never more than the soup.
BytesOf(f) == UNION {{c} \X (1 .. f[c].length) : c \in DOMAIN f}
SpaceAccounted ==
  /\ space.owners = DOMAIN idMap
  /\ space.used = Cardinality(BytesOf(idMap))
  /\ space.used <= SoupSize

\* mNumAlive of a genotype is the number of adults that carry it undiverged:
\* births, deaths and reclassifications of parents all keep the books.
Members(g) == {c \in Adults : ~idMap[c].diverged /\ idMap[c].genotype = g}
AliveCountsMembers ==
  /\ \A c \in Adults : idMap[c].genotype \in DOMAIN inventory
  /\ \A g \in DOMAIN inventory : inventory[g] = Cardinality(Members(g))

\* A creature that counts as a member of a genotype was born with its genome.
MembersWereBornSo ==
  \A c \in Adults : ~idMap[c].diverged => idMap[c].genotype = idMap[c].birthGenome

\* "New creatures are added before the current creature so that they get time after
\* a full cycle" and "Time slicer works down the list, then wraps": through births,
\* deaths and advances the list and mCurrentItem are one queue of turns, which
\* loses a turn only where RoundRobin says.
TurnOrder == OrderOfTurns(slicer)
Turns == INSTANCE RoundRobin WITH queue <- TurnOrder
ImplementsRoundRobin == Turns!Spec

\* "Items appended at the end, and move up the more errors they have": a
\* creature that gets ahead of another in the reaper's queue has as many errors.
ReaperFollowsErrors ==
  [][\A c1, c2 \in ToSet(reaper) \intersect ToSet(reaper') :
       /\ PositionOf(reaper, c1) < PositionOf(reaper, c2)
       /\ PositionOf(reaper', c2) < PositionOf(reaper', c1)
       => NumErrors'[c2] >= NumErrors'[c1]]_vars

\* From some time on, no creature is reaped on its own turn.
FewTurnsLost == <>[][EndSliceAndReap => HeadCreature(reaper) # Current]_vars

\* Every creature gets the CPU again and again for as long as it lives, however
\* many are born and reaped, if only turns are not lost for ever: each reaping of
\* the current creature skips the one after it, which can be the same one each time.
EveryoneGetsTime ==
  FewTurnsLost =>
    \A c \in Creatures :
      c \in ToSet(slicer.list)
        ~> \/ slicer.current = c /\ cycles > 0
           \/ c \notin ToSet(slicer.list)
=============================================================================
