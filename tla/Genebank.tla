------------------------------- MODULE Genebank -------------------------------
(***************************************************************************)
(* How a genotype that thrives gets into the genebank's file.  The world's *)
(* inventory (engine/MT_Inventory) enters the genotypes that are born and  *)
(* reports, once each, those with enough members alive; the listener posts *)
(* the report to the main thread (MTWorldDataCollection); there            *)
(* MTGenebankController finds the genome in its context or enters it under *)
(* a new name, and saves the context every five minutes and on quitting.   *)
(*                                                                         *)
(* Names and identifiers are unique among the genotypes of one length, and *)
(* each length is dealt with apart: the genotypes here have one length.    *)
(* How many of each are alive is World's; a birth may leave any number.    *)
(* A save of the context that fails changes nothing and is made again at   *)
(* the next one; it is left out, as is all the genebank's window shows.    *)
(***************************************************************************)
EXTENDS CreatureLists, FiniteSets

CONSTANTS Genomes,        \* the genomes of this length
          NumIdentifiers, \* how many strings incrementString goes through: 26^5
          PriorCount,     \* the entries of this length from earlier worlds
          MaxPosted       \* bound on the reports that wait for the main thread

ASSUME GenebankAssumption ==
  /\ IsFiniteSet(Genomes)
  /\ NumIdentifiers \in Nat \ {0}
  /\ Cardinality(Genomes) <= NumIdentifiers
  /\ PriorCount \in Nat
  /\ MaxPosted \in Nat

VARIABLES
  entered,  \* the entries of mGenotypeSizeMap of this length, in its order
  notified, \* mListenerNotifiedGenotypes
  posted,   \* the calls of findOrEnterGenome the main thread has yet to make
  bank,     \* the entries of this length that mObjectContext holds, the new ones
  stored    \* and those that are in the genebank's file

vars == <<entered, notified, posted, bank, stored>>

Init ==
  /\ entered = <<>>
  /\ notified = {}
  /\ posted = <<>>
  /\ bank = <<>>
  /\ stored = <<>>

-----------------------------------------------------------------------------
(* The world's thread.                                                     *)

\* incrementString: "zzzzz" is followed by "aaaaa", which is 0.
IncrementString(identifier) == (identifier + 1) % NumIdentifiers

\* uniqueIdentifierForLength
UniqueIdentifier == IF entered = <<>> THEN 0
                    ELSE IncrementString(Last(entered).identifier)

IsEntered(g) == \E i \in DOMAIN entered : entered[i].genome = g

\* enterGenotype
EnterGenotype(g) ==
  entered' = IF IsEntered(g) THEN entered
             ELSE Append(entered, [genome |-> g, identifier |-> UniqueIdentifier])

\* notifyListenersForGenotype, and the noteGenotype of the one listener there is.
NotifyListeners(g) ==
  IF g \in notified THEN UNCHANGED <<posted, notified>>
  ELSE /\ Len(posted) < MaxPosted
       /\ posted' = Append(posted, g)
       /\ notified' = notified \union {g}

\* creatureBorn, for a creature that is counted under g; popular says that more
\* than mListenerAliveThreshold are alive then.
Birth(g, popular) ==
  /\ EnterGenotype(g)
  /\ IF popular THEN NotifyListeners(g) ELSE UNCHANGED <<posted, notified>>
  /\ UNCHANGED <<bank, stored>>

-----------------------------------------------------------------------------
(* The main thread.                                                        *)

\* identifierFromCount: five digits, whose units are 104, 78, 52, 26 and 1.  The
\* first digit is unbounded here; a unichar holds it up to 104 * 2^16 entries.
Units(i) == 26 * (5 - i)
IdentifierFromCount(count) ==
  LET rest1 == count % Units(1)
      rest2 == rest1 % Units(2)
      rest3 == rest2 % Units(3)
  IN  <<count \div Units(1), rest1 \div Units(2), rest2 \div Units(3),
        rest3 \div Units(4), rest3 % Units(4)>>

\* Mutant of UniqueName: the fetch does not see the entries not yet saved.
NameByStored == IdentifierFromCount(PriorCount + Len(stored))

\* uniqueNameForSize, without the size.
UniqueName == IdentifierFromCount(PriorCount + Len(bank))

\* Mutant of FindOrEnter: enter at once.
Enter(g) == bank' = Append(bank, [genome |-> g, name |-> UniqueName])

\* findOrEnterGenome
FindOrEnter(g) ==
  bank' = IF \E i \in DOMAIN bank : bank[i].genome = g THEN bank
          ELSE Append(bank, [genome |-> g, name |-> UniqueName])

HandlePosted ==
  /\ posted # <<>>
  /\ posted' = Tail(posted)
  /\ FindOrEnter(Head(posted))
  /\ UNCHANGED <<entered, notified, stored>>

\* synchronize, by the timer.
Synchronize ==
  /\ stored' = bank
  /\ UNCHANGED <<entered, notified, posted, bank>>

\* Mutants of OpenWorld: the inventory read back is in the opposite order; the
\* genotypes reported are read back too.
OpenWorldReversed(n) == /\ entered' = Reverse(SubSeq(entered, 1, n))
                        /\ notified' = {}
OpenWorldNotified(n) == /\ entered' = SubSeq(entered, 1, n)
                        /\ UNCHANGED notified

\* A World is read from a file saved when it had seen n of its genotypes of this
\* length (or is a new one, with none): the maps are archived, what was reported
\* is not.
OpenWorld(n) == /\ entered' = SubSeq(entered, 1, n)
                /\ notified' = {}

\* Reverting, or opening another file.
Reopen(n) ==
  /\ OpenWorld(n)
  /\ UNCHANGED <<posted, bank, stored>>

\* Mutant of Restart: the context begins without the entries of the file.
RestartEmpty(n, file) ==
  /\ OpenWorld(n)
  /\ posted' = <<>>
  /\ bank' = <<>>
  /\ stored' = file

\* The program starts again and opens a World: the calls posted are gone, and the
\* context holds what is in the file.
Restart(n, file) ==
  /\ OpenWorld(n)
  /\ posted' = <<>>
  /\ bank' = file
  /\ stored' = file

\* applicationWillTerminate shuts the genebank down, which saves it; a crash does
\* not.
Quit(n) == Restart(n, bank)
Crash(n) == Restart(n, stored)

Next ==
  \/ \E g \in Genomes, popular \in BOOLEAN : Birth(g, popular)
  \/ HandlePosted
  \/ Synchronize
  \/ \E n \in 0 .. Len(entered) : Reopen(n) \/ Quit(n) \/ Crash(n)

Spec == Init /\ [][Next]_vars

\* The main thread's run loop makes the calls that were posted, and fires the
\* timer, which repeats.
FairSpec == Spec /\ WF_vars(HandlePosted) /\ WF_vars(Synchronize)

-----------------------------------------------------------------------------
(* What must hold.                                                         *)

Identifiers == 0 .. NumIdentifiers - 1

TypeOK ==
  /\ entered \in Seq([genome : Genomes, identifier : Identifiers])
  /\ notified \subseteq Genomes
  /\ posted \in Seq(Genomes)
  /\ bank \in Seq([genome : Genomes, name : Seq(Nat)])
  /\ stored \in Seq([genome : Genomes, name : Seq(Nat)])

\* A genotype is entered in the inventory once, and no two of one length have one
\* identifier, although the next is computed from the last entry alone and the
\* inventory is saved, read back and added to.
IdentifiersDistinct ==
  \A i, j \in DOMAIN entered :
    \/ entered[i].genome = entered[j].genome
    \/ entered[i].identifier = entered[j].identifier
    => i = j

\* The genebank holds a genome once, however often and by how many worlds it is
\* reported, and no two entries of one length have one name, though the name is
\* made from a count alone: not even one from an earlier run.
EntriesDistinct ==
  /\ \A i, j \in DOMAIN bank :
       bank[i].genome = bank[j].genome \/ bank[i].name = bank[j].name => i = j
  /\ \A i \in DOMAIN bank, count \in 0 .. PriorCount - 1 :
       bank[i].name # IdentifierFromCount(count)

\* What is in the genebank's file stays there under its name, crashes or not.
StoredIsKept == [][ToSet(stored) \subseteq ToSet(stored')]_vars

\* A genotype that remains on the list of those reported gets into the file: the
\* list never outlives a report that is lost.
ReportedIsStored ==
  \A g \in Genomes :
    <>[](g \in notified) => <>[](\E i \in DOMAIN stored : stored[i].genome = g)
=============================================================================
