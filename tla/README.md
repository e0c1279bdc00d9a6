# MacTierra in TLA+

MacTierra is a simulation of artificial life after Tom Ray's Tierra: small
programs ("creatures") share one circular memory (the "soup") and one virtual
CPU, copy themselves, mutate, and die when the soup is full. This directory
models the engine that runs a soup and the threads that share it, checks the
models with TLC, and proves their main invariants with TLAPS.

Paths below are under `src/Source/`.

## 1. The system

### Components

| component | source | state | operations |
|---|---|---|---|
| World | `engine/MT_World` | creature id map, the progress of the current slice, next mutation times | insert, iterate, step, birth, death, reaping, mutation, settings |
| TimeSlicer | `engine/MT_TimeSlicer` | an intrusive list, an iterator `mCurrentItem`, counters | insert, remove, advance |
| Reaper | `engine/MT_Reaper` | an intrusive list, next victim first | add, remove, move up on an error, move down on success |
| CellMap | `engine/MT_CellMap` | sorted vector of ranges, `mSpaceUsed` | insert, remove, lookup by address, search for space |
| Creature | `engine/MT_Creature` | registers, errors, daughter, genotype, divergence | start dividing, divide, give birth |
| Inventory | `engine/MT_Inventory` | genotypes by genome, count alive, identifiers, listeners | enter, born, died, notify |
| ExecutionUnit0, Cpu | `engine/MT_ExecutionUnit0`, `MT_Cpu` | registers, stack, flag | one instruction |
| Soup | `engine/MT_Soup` | the bytes | read, write, template searches |
| DataCollection | `engine/MT_DataCollection`, `userinterface/cocoa/engine_extensions` | next collection time, logs | collect, prune |
| WorldArchiver | `engine/MT_WorldArchiver` | none | save, load |
| MTWorldController, MTWorldThread | `userinterface/cocoa/controllers` | current world, its thread, lock, timer, flags | open, run, pause, display, step, settings, close |
| Graphs, soup view, inventory view, genebank | `userinterface/cocoa` | caches of what they show | read the world |
| Command line | `cmdline/mactierra.cpp` | interrupt flag | iterate until interrupted, save |

`PROJECT.json` lists every component with what is and is not modelled of it.

### How they interact

`World::iterate` runs the current creature of the slicer one instruction at a
time. `mal` asks the cell map for space and creates an embryo, which is in the
id map and the cell map only; `divide` gives birth to it, and only then does it
join the slicer, the reaper and the inventory. After each instruction the
creature may move in the reaper's queue. At the end of a slice `iterate` reaps
the reaper's head if the soup is too full, then advances the slicer. All of this
is calls on one thread; the hard part is that **five structures describe the
same creatures** (id map, cell map, slicer, reaper, inventory) and every handler
must keep all of them in step, in an order that leaves `mCurrentItem` valid.

In the Cocoa application one world thread per document calls `iterate` from a
run loop timer, holding that thread object's lock; the main thread draws, saves
and steps the same world, starts and stops the thread with selectors posted to
its run loop, and deletes the world when the document closes. The command line
program has one thread and a signal handler.

### What is hard, and what makes each component correct

* **World**: queues hold exactly the adults; an embryo has exactly one parent;
  the space counter and the counts of genotypes are right after any sequence of
  births, failed divisions and reapings, an embryo's parent dying included.
* **TimeSlicer**: `mCurrentItem` is always an item; every creature keeps getting
  turns, in the order of the list, newcomers after a full cycle.
* **Reaper**: creatures with more errors die first.
* **CellMap**: ranges never overlap, around the end of the soup too; the search
  for space returns space, and returns.
* **Inventory**: the number alive of a genotype is the number of its members.
* **Threads**: nobody is in a world that is deleted; the lock excludes; closing
  ends; engine data is not read while the engine changes it.
* **Soup**: a template search finds the nearest complement, wherever the end of
  the soup and of the search's several loops fall.
* **Cpu**: the pointer stays in the soup, a return leads behind its call, the ring
  of a stack loses only what it must.
* **Mutation**: times drawn ahead are still ahead when they are compared.
* **DataCollection**: a log keeps its bound and stays even, pruned and reloaded.
* **Archives**: a world that was saved and loaded goes on as it would have.
* **Identifiers, listeners, genebank**: no two genotypes share a name, and one that
  was reported gets into the genebank's file, whatever was reopened or lost between.

The hazards, each at its line and with the properties that watch it, are in
`PROJECT.json`.

## 2. The modules

```
CreatureLists -- TimeSlicer --+        RoundRobin
       |                      |            : implemented by
       +------- Reaper -------+-- World ...: -- MCWorld
       Inventory -------------+     |
       CellSpace -------------+     +-- WorldProofs

CellRanges --+-- CellMap -- MCCellMap   WorldThread -- WorldThreadProofs
CellSpace ---|-----+ | : implements
             |       | SoupOwnership    DataLog -- DataLogProofs
             |       |
             |       +-- CellMapProofs  Genebank -- GenebankProofs
             |       |
             +-- SpaceSearch            Mutation -- MutationProofs

Execution -- MCExecution                TemplateSearch -- TemplateSearchProofs
     |
     +-- ExecutionProofs
```

* **CreatureLists**: the intrusive lists as sequences without duplicates.
* **TimeSlicer**, **Reaper**, **Inventory**, **CellSpace**: one operator per
  member function, from a component's state to its next state, because one
  handler of World makes several such calls in one step. CellSpace is the cell
  map as World needs it: whose space there is, and `mSpaceUsed`. CellMap is shown to
  implement it (`ImplementsCellSpace`), so that World stands on the map the code has.
* **World**: `idMap` is `mCreatureIDMap` with the fields of each creature that
  the properties tell apart; `space`, `slicer`, `reaper`, `inventory` are the
  members of those names; `iterating` says a call of `iterate` is in progress;
  `cycles` and `slice` are `mCurCreatureCycles` and `mCurCreatureSliceCycles`.
  One action is one pass of the loop in `iterate`, with every call that pass
  makes (an instruction, the birth it causes and the move in the reaper's queue;
  or a reaping and the advance), or one call made from outside. `SaveAndLoad` is an
  archive written and read: the slicer's list and the creature that is current are
  written, and the list is filled again and `mCurrentItem` looked up in it.
* **RoundRobin** is what the slicer promises: one queue of turns, newcomers at
  its end, nobody overtaken. World is shown to implement it under the mapping
  `TurnOrder` (`OrderOfTurns` of TimeSlicer) that reads the slicer's list from
  `mCurrentItem` round to the item before it.
* **CellRanges**: `CreatureRange`, the two binary searches, `spaceAtAddress` and
  the gaps of `MT_CellMap`, as operators on the sorted sequence of cells.
  Positions count from 1, and 0 says "none" where the code returns false.
* **CellMap** drives them with insertions and removals; **SoupOwnership** is
  what it promises: each byte has at most one owner, an insertion succeeds if
  and only if its bytes are free, a removal frees those bytes. CellMap is shown
  to implement it under the mapping that owns a byte by looking it up with the
  code's own binary search.
* **SpaceSearch**: `searchForSpace`, a pass of its loop per step, on any `map`.
* **WorldThread**: `world`, `worldThread`, `worldRunning` are the controller's
  `mWorldData->world()`, `_worldThread`, `_worldRunning`; `terminated`, `timer`,
  `lockedBy` and `requests` belong to each `MTWorldThread`: its flag, whether its
  run loop has the timer, its lock, and the selectors posted to its run loop.
  `mainAt` and `threadAt` say where each thread of control is. A step is the
  code between two points where another thread can tell: `terminateWorldThread`
  is four steps, `runOneWorldCycle` two.
* **TemplateSearch**: `seachForTemplate` with its three searches, a pass of a loop
  per step, over every soup of the given sizes; `phase` says in which of the
  loops of a one-way search it is.
* **Execution**: one creature's `MTCpu` under every sequence of instructions:
  `cpu` has the members `mInstructionPointer`, `mFlag`, `mStack` and
  `mStackPointer`, and `pending` remembers what was pushed and where execution should
  return to. Arithmetic is on words of `WordSize`.
* **Mutation**: `due` holds the times of `mNextCosmicRayInstruction` and
  `mNextFlawInstruction` relative to the instruction counter, `copies` the members
  of `noteInstructionCopy`; `changing` is a `setSettings` on the main thread, between
  its assignment and its last draw.
* **DataLog**: `next` is the collector's `mNextCollectionCycle`, `log` a
  `SimpleDataLogger`.
* **Genebank**: how a genotype that thrives reaches the genebank's file. `entered` and
  `notified` are the inventory's `mGenotypeSizeMap`, of one length, and
  `mListenerNotifiedGenotypes`; `posted` the calls of `findOrEnterGenome` that wait
  for the main thread; `bank` and `stored` the entries of `mObjectContext` and of its
  file. A name is the five digits that `identifierFromCount` makes of a count.
* **WorldProofs**, **CellMapProofs** (of CellRanges, CellMap and SpaceSearch),
  **WorldThreadProofs**, **DataLogProofs**, **GenebankProofs**, **ExecutionProofs**,
  **MutationProofs**, **TemplateSearchProofs**: proofs.

Mutants, definitions that a property must be able to tell from the code's, stand
right before the definition they replace and are named in `PROJECT.json`.

### What is abstracted

In World, the bytes of the soup and the registers: an instruction either sets the flag,
passes half of the daughter's length while copying, allocates, divides, or does
none of these, and which of them it is is a free choice. The genome an embryo
has when it is divided off is any genome of its length, which covers copying,
interference by others and all three kinds of mutation. `mal` may fail even with
enough free bytes (fragmentation) and so may succeed or not whenever they
suffice. An error in `divide` is an instruction that fails. The draw of a slice
is from a given set. `clearReapedCreatures` only writes bytes.

In TemplateSearch the soup does not change during a call, as one thread runs the
engine, and an instruction is a no-op of one kind or the other or anything else.
In Execution the registers hold any of a set of words, and a template search
returns anything it could. In Mutation a delay is any up to a bound, where the code
draws from an exponential distribution. In DataLog the value of an entry is left
out. In Genebank a birth leaves any number alive, above the threshold or not; World
counts them.

## 3. What is checked

| run | instance | what it shows |
|---|---|---|
| `world` | 3 creatures, 2 genomes of lengths 1 and 2, soup of 4, reaping above 3, slices of the creature's length | `QueuesHoldAdults`, `EmbryosHaveOneParent`, `SpaceAccounted`, `AliveCountsMembers`, `MembersWereBornSo`; `ImplementsRoundRobin`: the refinement of RoundRobin, in which the one turn that can be lost is that of the creature after a current one that is reaped; `EveryoneGetsTime`: each creature is executed again and again, unless turns are lost for ever. All of them with saves and loads in between. |
| `cell_map` | 3 creatures, soup of 6, all addresses and lengths | `CellsInOrder`, `UsedIsOwned`, `ImplementsOwnership`: the refinement of SoupOwnership, and `ImplementsCellSpace`: that of the map as World has it. |
| `space_search` | the same maps, every start and length | `FoundSpaceIsFree`, `FailsOnlyWhenFull`, `SpaceIsFound`. |
| `template_search` | every soup of 6 and of 8, templates below 3, a distance of 6 | `NearestIsFound`: the loops give what one loop over the distance would. `FailsOnlyWithoutComplement`: a search that the distance does not cut short misses nothing. |
| `execution` | soup of 3, words of 5 bits, a stack of 3 | `StackHoldsNewest`, `ReturnsAfterCall`, `SearchesLeadPastComplement`, `ReturnsToOffset`. |
| `mutation` | delays up to 2, every change of settings | `TimesAreAhead`, `MutationsKeepComing`, `CopyErrorsKeepComing`. |
| `data_log` | collection every 2 cycles, at most 4 entries, 30 cycles | `EvenlySpaced`, `GapsBounded`. |
| `genebank` | 3 genomes, 3 identifiers, 25 earlier entries, 3 calls posted | `IdentifiersDistinct`, `EntriesDistinct`, `StoredIsKept`, `ReportedIsStored`, through reopened files, quits and crashes. |
| `world_thread` | 2 worlds, 2 thread objects, 3 requests | `ThreadsIterateTheWorld`, `LockedAlone`, `OpenedInQuiet`, `TimerFollowsRunning`, `ClosingEnds`. |
| `world_reaper`, `space_search_pass`, `world_thread_step` | | the findings, one each |

The runs `world`, `cell_map`, `template_search`, `execution`, `data_log` and
`world_thread` check the `TypeOK` of their modules too; those of Mutation and
Genebank say nothing but the types and are only proved.

### The bounds, and why they are enough

* *Creatures*. Three in `world` allow two adults and an embryo: a creature can be
  reaped while current, while not current, next to the current one, alone, and with
  an embryo. The queues' operations look only at an item and its neighbours, and
  what has been proved of them has no bound.
* *Genomes*. Two, of lengths 1 and 2, let every case of a birth arise: embryos of
  different sizes, a child of another length that diverges from its parent's
  genotype, and one that breeds true and is then counted under its own. Several
  genomes of one length are left to the proofs. There is no symmetry where liveness
  is checked.
* *Slices* are as long as the creature: two let an instruction follow another in a slice (allocate, then
  divide or fail); the slice carries over between calls of `iterate`.
* *MaxErrors* caps the error count in a guard: errors matter only in comparison.
* *Soup size 6* with three cells holds cells that wrap, touch, fill the soup,
  and leave up to three gaps of different sizes; the binary searches take two
  probes. Lengths are from 1 to the size of the soup. `CellMapProofs` needs no bounds.
* *MaxRange* is the soup's size, so that no search is cut short; the real range,
  32767, is that of a soup smaller than it. The next section says what is
  different in larger ones.
* *TemplateSearch*. A soup of 6 is searched whole, and one of 8 is longer than the
  distance. Templates of one and two no-ops are used, three refused and four used
  again, which is what the code does at its limit of ten. Each
  loop of each search begins, ends, matches and fails somewhere.
  `TemplateSearchProofs` needs none of these bounds.
* *Execution*. The size, 3, does not divide the word, 32, as a soup's need not; a
  stack of 3 overflows; registers hold a word that leads out of the soup
  backwards, and calls at its end push offsets that lead out forwards.
* *MaxDelay* of 2 has times reached at once and after an instruction without any,
  and settings overtaken by more instructions than the delay drawn.
* *Genebank*. With 25 earlier entries of the length the second new name carries into
  the second of the digits that occur. As many genomes as identifiers use up all of
  these. Three genomes put an entry between two others, and three calls posted let
  one genome be posted again before it is entered.
* *MaxCycle* of 30 prunes a log of 4 twice and, with reloads, more often;
  `DataLogProofs` needs none of these bounds.
* *MaxRequests* caps the requests waiting when running is toggled; ending a
  thread may add two. Two thread objects allow a new one to be made beside the
  old if the main thread did not wait; threads that ended are reused.

### Fairness

* `EveryoneGetsTime` assumes `WF(Iterate)`: the world goes on being iterated, as
  the run loop's repeating timer and the command line's loop make it. No action
  of a particular creature is assumed fair. Its premise `FewTurnsLost` is that the
  current creature is not reaped for ever: each time that it is, the next one loses
  its turn, and it may be the same one each time.
* `ReportedIsStored` assumes that the main thread's run loop makes the calls posted
  to it, and fires the genebank's timer.
* `MutationsKeepComing` and `CopyErrorsKeepComing` assume that instructions are
  executed and that `setSettings` returns.
* `SpaceIsFound` assumes that a search that has started is executed.
* `ClosingEnds` assumes that the main thread goes on with a termination it has
  begun, that a thread goes on with what it is doing (in particular that a cycle
  ends, which slices that are all empty would prevent, see section 4), and that
  posted selectors are performed, strongly: the timer is always due, but each
  pass of a run loop looks at its other sources. A cycle can get its lock since
  the main thread, while ending the thread, does not hold it. Nothing is assumed
  of the order in which a contended `NSLock` is granted, so nothing is claimed
  of how long a display waits.

Deadlock is checked in every run; in none of them may the system stop. The busy
wait in `terminateWorldThread` is a step of its own, so that a wait without end
would be found by `ClosingEnds`.

## 4. Findings

Each has a run that reaches it.

1. **Any error moves a creature up** (`world_reaper`, `MT_Reaper.cpp:53`).
   `conditionalMoveUp` compares the creature's errors with its own, `prevCreature`
   being taken from the wrong iterator. "... move up the more errors they have"
   (`MT_Reaper.h`).
2. **A search for space can loop for ever** (`space_search_pass`,
   `MT_CellMap.cpp:208`). When the backward side has come round and the forward
   side is farther away, a pass moves neither index. It takes a request that fits
   nowhere, in a soup no larger than the search range; `space_search` shows that
   it does not happen when there is space.
3. **Step iterates beside the world thread** (`world_thread_step`,
   `MTWorldController.mm:177`). The command is enabled while the world runs and
   takes no lock; data is collected on both threads, against "collectData is
   called on the engine thread" (`MT_DataCollectors.h`).

Seen while modelling. The models contain these, and the properties say what is
left; each is also a hazard in `PROJECT.json`:

* `MT_World.cpp:279`: when the creature reaped is the current one, `removeCreature`
  has already advanced `mCurrentItem` and `iterate` advances again: the next one
  loses its turn (`EndTurnWithDeath` in RoundRobin).
* `MT_TimeSlicer.cpp:113`: a mean slice below one half is rounded to an empty one,
  which `iterate` asserts against.
* `MTGraphController.mm:846`: graphs read the loggers' data without the lock.
* `MTWorldController.mm:282`, `:447`: pausing reads the inventory while the last
  cycle may still be going; settings of a running world are replaced without the
  lock. If instructions are executed meanwhile, a time may be drawn that has
  passed, and that kind of mutation stops (`raced` in Mutation).
* `MT_World.cpp:256`: a copy error that is pending when the rate becomes 0 stays
  pending, and mutates every copy from then on.
* `MTGenebankController.mm:162`: "make a base 26 string" divides by 104, 78, 52 and 26.
  The names are distinct all the same (`EntriesDistinct`), as the first digit is not
  bounded; from the 2704th entry of a length on it is not a letter.
* `MT_Inventory.cpp:97`: after "zzzzz" comes "aaaaa", and identifiers repeat;
  `GenebankAssumption` excludes it.
* `MT_TimeSlicer.h:87`: saving a world without creatures dereferences the end of the
  slicer's list. `SaveAndLoad` needs a creature.
* `MT_World.cpp:309`: `stepCreature` asks `isDead` of a creature that may just have
  been reaped; its callers hold a reference to it.
* `MTWorldDataCollection.mm:156`: the listener is deleted before the world that
  could call it, and a new one is made for each world without deleting the last.
* `mactierra.cpp:351`: a duration does not end a run; it is the length of each
  call of `iterate`, in 32 bits. The output file is made before the run and written
  after it.
* `MT_Soup.cpp:60`: a template of ten no-ops is refused and one of eleven used.
  `:176`: a search from the last byte starts one past the end of the soup.

## 5. What is proved

For every value of the constants that satisfies the modules' assumptions.

**The world** (`WorldProofs`). The assumptions are `NoCreatureAssumption` and
`WorldAssumption`: the null values are not creatures or genomes, lengths are
positive, the rest are naturals. The theorems are `TypeCorrectness`,
`QueuesHoldAdultsAlways`, `EmbryosHaveOneParentAlways`, `MembersWereBornSoAlways`,
`SpaceAccountedAlways` and `AliveCountsMembersAlways`, each the invariant of the same name checked by run `world`, and
`ImplementsRoundRobinAlways`, the refinement.

The inductive invariant is their conjunction,

    IInv == TypeOK /\ QueuesHoldAdults /\ EmbryosHaveOneParent /\ MembersWereBornSo

and none of the four is inductive alone. That the current creature and the reaper's
head are adults in the id map (`CurrentIsAdult`) needs the queues to hold the
adults, and without it no handler's updates are even typed. Birth puts a
daughter into the queues, where she must be new: she is, being an embryo, because
her parent's pointer leads to one. Reaping removes a creature and its embryo:
the queues lose exactly the creature because embryos are in none, and no other
adult is left with the embryo because each has one parent. There is one lemma per
action, under it one step per conjunct, and `IInvLemma` combines them.

The refinement takes each action to a step of RoundRobin or a stutter, from what
its lemmas say of `OrderOfTurns` under the slicer's operations: an insertion
before the current item appends to the order, an advance moves its head to its end,
and erasing the current item moves nobody.

The space in use is a sum over creatures. It is stated as the cardinality of a set,
of the pairs of a creature and one of its bytes (`BytesOf`), so that a birth or a
death adds or removes the disjoint set of a creature's own. The number alive of a
genotype is the cardinality of its `Members`; whoever is uncounted is one of them
by `MembersWereBornSo`.

The lemmas come first: what insertion before an item, erasure and swapping of
neighbours do to the set of items and to the absence of duplicates of any list, and
from that what the calls on the slicer (with `mCurrentItem`) and the reaper do.

**The cell map** (`CellMapProofs`). From `CellRangesAssumption`, for any number of
creatures and a soup of any size: `TypeCorrectness`, `CellsAlwaysInOrder`,
`UsedIsAlwaysOwned`, and two refinements, `ImplementsOwnershipAlways` and
`ImplementsCellSpaceAlways`. The argument:

1. *The loops of the binary searches end, and what they return.* Both are one loop
   (`Loop`), which goes down from some positions, up from others and stops at the
   rest. There is no induction over an operator for the provers to use, so it is an
   induction over the elements of a set (`SetInduction`), of those widths of a span
   for which the claim holds.
2. *What the searches find* (`IndexOfLemma`, `IndexAtOrBeforeLemma`), the cell that
   wraps included. The maps are turned into functions from positions to numbers
   (`Layout`), on which these proofs are arithmetic.
3. *What `spaceAtAddress` concludes* (`SpaceIndexLemma`): the position that it
   answers is one where the cell `Fits`, around the end of the soup too; and when it
   answers none, some cell has a byte that was asked for. Both directions are
   needed, as an insertion must succeed if and only if the bytes are free.
4. *What insertion and removal do* to the order (`InsertLayout`, `RemoveLayout`), to
   the owner of each byte and to the number of bytes owned (`InsertEffect`,
   `RemoveEffect`); a cell has as many bytes as it is long, by a bijection.

The invariant adds to this that each cell is where its owner was put: without it
`removeCreature`, which looks for a cell by the creature's address, might find
none or that of another, and the counter would lose more than the map.

The second refinement is what ties World to the code's cell map. World says of `mal`
and `insertCreature` only that they may succeed while the length still fits in the
bytes that are left (`MayFit`), and then calls `SpaceInsert`, and for a death
`SpaceRemove`. Every step of CellMap is one of these calls or changes nothing: what
was owned before and after is read off the cells, and that a successful insertion
fits is that the bytes owned afterwards are no more than the soup has.

**The search for space** (`CellMapProofs`). From `CellRangesAssumption` and
`SearchAssumption`, which has finitely many creatures: `FoundSpaceIsAlwaysFree`, so
that the assertion in `allocateSpaceForOffspring` never fails, and
`AlwaysFailsOnlyWhenFull`. `gapAfterIndex` and `gapBeforeIndex` measure the gaps of
the layout, the one around the end of the soup included (`GapLemma`). Where such a
gap is long enough, `spaceAtAddress` accepts the place right behind the cell before
it (`FitsBehindLemma`) and the one right before the cell after it
(`FitsBeforeLemma`), on whichever side of the end of the soup that place is; and
where every gap is too short it accepts no place (`NoSpaceLemma`), since what it
accepts fits between two neighbours. The invariant says that the gaps behind the
cells which the forward index has passed (`Passed`) are all too short: when that
side is done these are all the gaps there are. That the search ends is a liveness
property and stays with TLC.

**The threads** (`WorldThreadProofs`). From `NoneAssumption`:
`TypeCorrectness`, `ThreadsAlwaysIterateTheWorld`, `AlwaysLockedAlone`,
`AlwaysOpenedInQuiet`, `TimerAlwaysFollowsRunning`. The
properties speak of every thread that ever existed while the lock and the flags
speak of one, so the invariant adds that all threads but the controller's have
ended (`OthersAtRest`), that there is a thread exactly while there is a world
except between the two steps that remove them (`ThreadWithWorld`), that the main
thread's lock is the current thread's (`MainHoldsLock`), and that a thread that
was just made has no request and no timer (`NewThreadIsIdle`). That the timer
follows the controller's flag is so only when requests have been performed:
`Settles` says what the timer will be once they all are, by the last of them
that installs or removes it, and performing one changes nothing of that.

**The genebank** (`GenebankProofs`). From `GenebankAssumption`: `TypeCorrectness`,
`AlwaysIdentifiersDistinct`, `AlwaysEntriesDistinct`, `AlwaysStoredIsKept`. An
identifier is made from the last entry alone, so the invariant is that each entry's
is its place (`NumberedByPlace`), which a reload, keeping the first of them, does not
disturb; that they are not used up follows from the number of genomes. A
name is made from the number of entries, so the invariant says it is made from its
place; that different counts make different names is arithmetic on the digits.
What is stored is a first part of the context.

**The virtual CPU** (`ExecutionProofs`). From `ExecutionAssumption`, for a soup, a
stack and a word of any size: `TypeCorrectness`, `StackAlwaysHoldsNewest`,
`AlwaysReturnsAfterCall`, `AlwaysSearchesLeadPastComplement`, `AlwaysReturnsToOffset`.
The invariant relates each place of the ring to its entry of `pending`
(`RingHolds`), and each entry that a call pushed to the address it is to return to.
The lemmas are on remainders, which the code takes twice, of a word and of the soup.

**The template searches** (`TemplateSearchProofs`). From `SearchAssumption`, for a soup
of any size, templates of any length and any distance: `TypeCorrectness`,
`NearestAlwaysFound`, `AlwaysFailsOnlyWithoutComplement`. The invariant says of a call
that runs that no address nearer than the present offset holds the complement
(`Missed`), and that the next address is the one at that offset, which every loop
computes in its own way:

* forwards (`ForwardOK`), the first three loops are at the offset, around the end of
  the soup or at the address one past it. The fourth reads an address that it does
  not look at, so the invariant says instead that it cannot end the loop early;
* backwards (`BackwardOK`), the end of the soup is met once: in the first loop, or in
  the third if the template does not fit behind its own start. `Ahead` and
  `WentAround` are the two ways the address follows from the offset. The fourth loop
  is left only at the limit because a template that had to go around cannot fit
  before the end again;
* both ways, `WrapOffset` is where the first of the two sides could leave the soup.

`MatchLemma` has it that the faster comparison is the same where nothing wraps. For
`FailsOnlyWithoutComplement` the addresses within the distance are all but one
(`EveryAddressLemma`), and that one has no complement (`LeftOutLemma`): forwards it is
the instruction that searches, which is no no-op, and backwards a complement there
would have a no-op where the template was ended. That templates are shorter than the
soup, which Execution assumes, is `TemplateLengthLemma`: reading one stops at the
instruction that searches.

**The mutations** (`MutationProofs`). From `MutationAssumption`, for delays of any
length: `TypeCorrectness` and `TimesAlwaysAhead`. `TimesAreAhead` speaks of a world
whose settings are not being changed; the step that matters ends such a change, and
draws times that are ahead because the time they are added to has not gone on, or
else says that it has (`raced`). With the types it is inductive.

**The log** (`DataLogProofs`). From `DataLogAssumption`, which has the limit of
entries even: `TypeCorrectness`, `AlwaysEvenlySpaced`, `GapsAlwaysBounded`. The
spacing is inductive with the types alone: pruning an odd number of entries keeps
the newest, so that the next call due is the same. The gaps are not: that the next
entry comes in time depends on the collector's count of cycles, which a reload
resets while the log's count of calls goes on. The invariant therefore bounds
cycles by calls: the present, and the collector's next time, lie within
`Horizon`, the newest entry's cycle plus an interval of collection for each call
since. A call moves the horizon on by as much as it moves the next time; a reload
moves that time back, to the present.

**Only model-checked**: liveness, which is beyond the prover: that everyone gets
time, searches for space find it, mutations keep coming, what is reported is stored
and closing ends. So are the three properties that the code violates. Every other
property that a run checks is proved. What a recursive definition computes cannot be
proved in general; the two binary searches are the only ones, and are.

## 6. What is not modelled

* What registers hold, what flaws and mutations make of values and instructions,
  writing to the soup.
* Collection every so many instructions, for which no logger is registered.
* The format of archives, and files that cannot be read. What an archive keeps of the
  state is modelled where the state is (World, Genebank, DataLog).
* `stepCreature`: it is a sequence of `Iterate` steps.
* The command line: one thread that iterates, and a flag that a signal sets.
* The genebank's window, and several documents that post to it at once, which differ
  from one by having posted more of the same genomes.
* `searchForSpace` in one direction only: no caller. Requests longer than the
  soup: `mal` is bounded by three times the parent, so they need a soup smaller
  than that. `spaceAtAddress` takes every such request to wrap: an empty map is then
  indexed at -1, and any other may accept it, its end being taken modulo the soup.
* After the last creature is reaped `mCurrentItem` is an iterator to an erased
  node which `advance` increments. That is undefined; the model has the outcome
  in which the list is found empty and `iterate` returns.
* Formatting, drawing, panels and third-party code.

## 7. Plan

1. *Done*: World with its queues, saves and loads, and the refinement of RoundRobin;
   CellMap with the refinements of SoupOwnership and of CellSpace; SpaceSearch,
   WorldThread, Genebank, Execution, TemplateSearch, Mutation and DataLog. Every safety
   property that holds is proved.
2. *Next, abstractions*. A mutual-exclusion specification for the locked sections of
   WorldThread; what a template search returns to Execution, as a refinement instead
   of a set of outcomes.
