---------------------------- MODULE GenebankProofs ----------------------------
(***************************************************************************)
(* The names and identifiers of genotypes, for any number of genomes, of   *)
(* earlier entries and of identifiers that is not less than the genomes.   *)
(* Neither is compared with those in use when it is made, so their being   *)
(* distinct rests on what they say: each counts the entries before its own.*)
(***************************************************************************)
EXTENDS Genebank, TLAPS, FiniteSetTheorems

-----------------------------------------------------------------------------
(* Names.                                                                  *)

\* A number is made up of its quotient and its remainder by each of the units.
LEMMA DivisionLemma ==
  ASSUME NEW a \in Nat
  PROVE  /\ a \div 104 \in Nat /\ a % 104 \in Nat /\ a = 104 * (a \div 104) + (a % 104)
         /\ a \div 78 \in Nat /\ a % 78 \in Nat /\ a = 78 * (a \div 78) + (a % 78)
         /\ a \div 52 \in Nat /\ a % 52 \in Nat /\ a = 52 * (a \div 52) + (a % 52)
         /\ a \div 26 \in Nat /\ a % 26 \in Nat /\ a = 26 * (a \div 26) + (a % 26)
  BY SMTT(30)

\* The digits with which identifierFromCount writes a count.
LEMMA DigitsLemma ==
  ASSUME NEW a \in Nat
  PROVE  \E x \in Seq(Nat) :
           /\ x = IdentifierFromCount(a)
           /\ Len(x) = 5
           /\ a = 104 * x[1] + 78 * x[2] + 52 * x[3] + 26 * x[4] + x[5]
<1> DEFINE r1 == a % 104
           r2 == r1 % 78
           r3 == r2 % 52
           x == <<a \div 104, r1 \div 78, r2 \div 52, r3 \div 26, r3 % 26>>
<1>1. a \div 104 \in Nat /\ r1 \in Nat /\ a = 104 * (a \div 104) + r1
  BY DivisionLemma
<1>2. r1 \div 78 \in Nat /\ r2 \in Nat /\ r1 = 78 * (r1 \div 78) + r2
  BY DivisionLemma, <1>1
<1>3. r2 \div 52 \in Nat /\ r3 \in Nat /\ r2 = 52 * (r2 \div 52) + r3
  BY DivisionLemma, <1>2
<1>4. r3 \div 26 \in Nat /\ r3 % 26 \in Nat /\ r3 = 26 * (r3 \div 26) + (r3 % 26)
  BY DivisionLemma, <1>3
<1>5. x = IdentifierFromCount(a)
  BY DEF IdentifierFromCount, Units
<1>6. a = 104 * (a \div 104) + 78 * (r1 \div 78) + 52 * (r2 \div 52) + 26 * (r3 \div 26) + (r3 % 26)
  BY <1>1, <1>2, <1>3, <1>4
<1> HIDE DEF r1, r2, r3
<1>7. x \in Seq(Nat) /\ Len(x) = 5
  BY <1>1, <1>2, <1>3, <1>4
<1> QED BY <1>5, <1>6, <1>7

\* identifierFromCount gives two counts two names.
LEMMA NamesDiffer ==
  ASSUME NEW a \in Nat, NEW b \in Nat, IdentifierFromCount(a) = IdentifierFromCount(b)
  PROVE  a = b
<1>1. PICK x \in Seq(Nat) :
        /\ x = IdentifierFromCount(a)
        /\ a = 104 * x[1] + 78 * x[2] + 52 * x[3] + 26 * x[4] + x[5]
  BY DigitsLemma
<1>2. PICK y \in Seq(Nat) :
        /\ y = IdentifierFromCount(b)
        /\ b = 104 * y[1] + 78 * y[2] + 52 * y[3] + 26 * y[4] + y[5]
  BY DigitsLemma
<1>3. x = y
  BY <1>1, <1>2
<1> QED BY <1>1, <1>2, <1>3
-----------------------------------------------------------------------------
(* The inductive invariant.                                                *)

\* One list holds no genome twice.
HeldOnce(list) == \A i, j \in DOMAIN list : list[i].genome = list[j].genome => i = j

\* Identifiers count the entries of their length before their own.
NumberedByPlace == \A i \in DOMAIN entered : entered[i].identifier = i - 1

\* So do names, with those of earlier worlds.
NamedByPlace ==
  \A i \in DOMAIN bank : bank[i].name = IdentifierFromCount((PriorCount + i) - 1)

\* The file is behind the context, and otherwise the same.
StoredComesFirst ==
  /\ Len(stored) <= Len(bank)
  /\ \A i \in DOMAIN stored : stored[i] = bank[i]

EnteredRecords == [genome : Genomes, identifier : Identifiers]
BankRecords == [genome : Genomes, name : Seq(Nat)]

InventoryInv ==
  /\ entered \in Seq(EnteredRecords)
  /\ notified \subseteq Genomes
  /\ NumberedByPlace /\ HeldOnce(entered)

BankInv ==
  /\ bank \in Seq(BankRecords)
  /\ stored \in Seq(BankRecords)
  /\ NamedByPlace /\ HeldOnce(bank)
  /\ StoredComesFirst

IInv == InventoryInv /\ BankInv /\ posted \in Seq(Genomes)

\* A list without a genome twice is no longer than there are genomes.
LEMMA HeldOnceLemma ==
  ASSUME NEW S, IsFiniteSet(S), NEW R, \A r \in R : r.genome \in S,
         NEW list \in Seq(R), HeldOnce(list), NEW g \in S, \A i \in DOMAIN list : list[i].genome # g
  PROVE  Len(list) < Cardinality(S)
<1> DEFINE f == [i \in 1 .. (Len(list) + 1) |-> IF i <= Len(list) THEN list[i].genome ELSE g]
<1>1. Len(list) \in Nat /\ DOMAIN list = 1 .. Len(list)
  OBVIOUS
<1>2. \A i \in 1 .. Len(list) : list[i].genome \in S
  BY <1>1
<1>3. f \in [1 .. (Len(list) + 1) -> S]
  BY <1>1, <1>2
<1>4. \A i, j \in 1 .. (Len(list) + 1) : f[i] = f[j] => i = j
  BY <1>1 DEF HeldOnce
<1> HIDE DEF f
<1>5. f \in Injection(1 .. (Len(list) + 1), S)
  BY <1>3, <1>4 DEF Injection, IsInjective
<1>6. Cardinality(1 .. (Len(list) + 1)) <= Cardinality(S)
  BY <1>5, FS_Injection
<1>7. Cardinality(1 .. (Len(list) + 1)) = Len(list) + 1
  BY <1>1, FS_Interval
<1>8. Cardinality(S) \in Nat
  BY FS_CardinalityType
<1> QED BY <1>1, <1>6, <1>7, <1>8

\* A remainder by a greater number.
LEMMA RemainderLemma ==
  ASSUME NEW n \in Nat, NEW m \in Nat, n < m
  PROVE  n % m = n
  BY Z3

\* The successor of the last identifier is the number of entries: with a genome
\* yet to be entered, it does not wrap.
LEMMA IdentifierLemma ==
  ASSUME InventoryInv, NEW g \in Genomes, ~ IsEntered(g)
  PROVE  /\ UniqueIdentifier = Len(entered)
         /\ UniqueIdentifier \in Identifiers
<1>1. Len(entered) \in Nat /\ DOMAIN entered = 1 .. Len(entered)
  BY DEF InventoryInv
<1>2. \A i \in DOMAIN entered : entered[i].genome # g
  BY DEF IsEntered
<1>3. Len(entered) < Cardinality(Genomes) /\ Cardinality(Genomes) \in Nat
  <2>1. \A r \in EnteredRecords : r.genome \in Genomes
    BY DEF EnteredRecords
  <2> QED BY <1>2, <2>1, HeldOnceLemma, FS_CardinalityType, GenebankAssumption DEF InventoryInv
<1>4. Len(entered) < NumIdentifiers /\ NumIdentifiers \in Nat
  BY <1>1, <1>3, GenebankAssumption
<1>5. CASE entered = <<>>
  BY <1>4, <1>5 DEF UniqueIdentifier, IncrementString, Identifiers
<1>6. CASE entered # <<>>
  <2>1. Len(entered) \in DOMAIN entered
    BY <1>1, <1>6 DEF InventoryInv
  <2>2. entered[Len(entered)].identifier = Len(entered) - 1
    BY <2>1 DEF InventoryInv, NumberedByPlace
  <2>3. Last(entered).identifier + 1 = Len(entered)
    BY <2>2, <1>1 DEF Last
  <2>4. Len(entered) % NumIdentifiers = Len(entered)
    BY <1>1, <1>4, RemainderLemma
  <2>5. UniqueIdentifier = Len(entered)
    BY <1>6, <2>3, <2>4 DEF UniqueIdentifier, IncrementString
  <2> QED BY <1>1, <1>4, <2>5 DEF Identifiers
<1> QED BY <1>5, <1>6

\* A genome that is not in a list is added to it.
LEMMA AppendLemma ==
  ASSUME NEW R, NEW list \in Seq(R), HeldOnce(list), NEW e \in R,
         \A i \in DOMAIN list : list[i].genome # e.genome
  PROVE  /\ Append(list, e) \in Seq(R)
         /\ HeldOnce(Append(list, e))
         /\ Len(Append(list, e)) = Len(list) + 1
         /\ \A i \in DOMAIN list : Append(list, e)[i] = list[i]
         /\ \A i \in DOMAIN Append(list, e) :
              Append(list, e)[i] = IF i = Len(list) + 1 THEN e ELSE list[i]
<1>1. PICK n \in Nat : n = Len(list) /\ DOMAIN list = 1 .. n
  OBVIOUS
<1>2. PICK longer : longer = Append(list, e)
  OBVIOUS
<1>3. /\ longer \in Seq(R)
      /\ Len(longer) = n + 1
      /\ DOMAIN longer = 1 .. (n + 1)
      /\ \A i \in 1 .. (n + 1) : longer[i] = IF i = n + 1 THEN e ELSE list[i]
  BY <1>1, <1>2
<1>4. HeldOnce(longer)
  BY <1>1, <1>3 DEF HeldOnce
<1> QED BY <1>1, <1>2, <1>3, <1>4

\* The first entries of a list.
LEMMA PrefixLemma ==
  ASSUME NEW R, NEW list \in Seq(R), HeldOnce(list), NEW n \in 0 .. Len(list)
  PROVE  /\ SubSeq(list, 1, n) \in Seq(R)
         /\ HeldOnce(SubSeq(list, 1, n))
         /\ DOMAIN SubSeq(list, 1, n) = 1 .. n
         /\ \A i \in 1 .. n : i \in DOMAIN list /\ SubSeq(list, 1, n)[i] = list[i]
<1>1. DOMAIN list = 1 .. Len(list) /\ Len(list) \in Nat
  OBVIOUS
<1>2. PICK shorter : shorter = SubSeq(list, 1, n)
  OBVIOUS
<1>3. /\ shorter \in Seq(R)
      /\ Len(shorter) = n
      /\ \A i \in 1 .. n : shorter[i] = list[i]
  BY <1>1, <1>2
<1>4. DOMAIN shorter = 1 .. n
  BY <1>3
<1>5. HeldOnce(shorter)
  BY <1>1, <1>3, <1>4 DEF HeldOnce
<1> QED BY <1>1, <1>2, <1>3, <1>4, <1>5

-----------------------------------------------------------------------------
(* The invariant holds initially, and every action preserves it.           *)

\* Every list is empty at first.
LEMMA InitLemma == Init => IInv
<1> SUFFICES ASSUME Init PROVE IInv
  OBVIOUS
<1>1. InventoryInv
  BY DEF Init, InventoryInv, NumberedByPlace, HeldOnce
<1>2. BankInv
  BY DEF Init, BankInv, NamedByPlace, HeldOnce, StoredComesFirst
<1> QED BY <1>1, <1>2 DEF IInv, Init

\* The part of the genebank depends on its two variables only.
LEMMA BankStutter == BankInv /\ UNCHANGED <<bank, stored>> => BankInv'
  BY DEF BankInv, NamedByPlace, HeldOnce, StoredComesFirst

\* And the part of the inventory on its own.
LEMMA InventoryStutter == InventoryInv /\ UNCHANGED <<entered, notified>> => InventoryInv'
  BY DEF InventoryInv, NumberedByPlace, HeldOnce

\* enterGenotype appends the number of entries as the new identifier.
LEMMA BirthLemma ==
  ASSUME IInv, NEW g \in Genomes, NEW popular \in BOOLEAN, Birth(g, popular)
  PROVE  IInv'
<1>0. InventoryInv /\ BankInv /\ posted \in Seq(Genomes)
  BY DEF IInv
<1>1. BankInv'
  BY <1>0, BankStutter DEF Birth, EnterGenotype, NotifyListeners
<1>2. notified' \subseteq Genomes /\ posted' \in Seq(Genomes)
  BY <1>0 DEF Birth, EnterGenotype, NotifyListeners, InventoryInv
<1>3. entered' \in Seq(EnteredRecords) /\ NumberedByPlace' /\ HeldOnce(entered)'
  <2>1. CASE IsEntered(g)
    BY <1>0, <2>1 DEF Birth, EnterGenotype, NotifyListeners, InventoryInv, NumberedByPlace, HeldOnce
  <2>2. CASE ~ IsEntered(g)
    <3> DEFINE e == [genome |-> g, identifier |-> UniqueIdentifier]
    <3>1. UniqueIdentifier = Len(entered) /\ UniqueIdentifier \in Identifiers
      BY <1>0, <2>2, IdentifierLemma
    <3>2. e \in EnteredRecords /\ e.genome = g /\ e.identifier = Len(entered)
      BY <3>1 DEF EnteredRecords
    <3>3. \A i \in DOMAIN entered : entered[i].genome # e.genome
      BY <2>2 DEF IsEntered
    <3>4. entered' = Append(entered, e)
      BY <2>2 DEF Birth, EnterGenotype, NotifyListeners
    <3> HIDE DEF e
    <3>5. /\ entered' \in Seq(EnteredRecords)
          /\ HeldOnce(entered')
          /\ \A i \in DOMAIN entered' :
               entered'[i] = IF i = Len(entered) + 1 THEN e ELSE entered[i]
          /\ Len(entered') = Len(entered) + 1
      BY <1>0, <3>2, <3>3, <3>4, AppendLemma DEF InventoryInv
    <3>6. \A i \in DOMAIN entered' : entered'[i].identifier = i - 1
      <4> SUFFICES ASSUME NEW i \in DOMAIN entered' PROVE entered'[i].identifier = i - 1
        OBVIOUS
      <4>1. Len(entered) \in Nat /\ DOMAIN entered = 1 .. Len(entered)
            /\ i \in 1 .. (Len(entered) + 1)
        BY <1>0, <3>5 DEF InventoryInv
      <4>2. CASE i = Len(entered) + 1
        BY <3>2, <3>5, <4>1, <4>2
      <4>3. CASE i # Len(entered) + 1
        BY <1>0, <3>5, <4>1, <4>3 DEF InventoryInv, NumberedByPlace
      <4> QED BY <4>2, <4>3
    <3> QED BY <3>5, <3>6 DEF NumberedByPlace, HeldOnce
  <2> QED BY <2>1, <2>2
<1> QED BY <1>1, <1>2, <1>3 DEF IInv, InventoryInv

\* A genome that the context does not hold gets the name of the next count.
LEMMA HandlePostedLemma == IInv /\ HandlePosted => IInv'
<1> SUFFICES ASSUME IInv, HandlePosted PROVE IInv'
  OBVIOUS
<1>0. InventoryInv /\ BankInv /\ posted \in Seq(Genomes)
  BY DEF IInv
<1>1. InventoryInv'
  BY <1>0, InventoryStutter DEF HandlePosted
<1>2. posted' \in Seq(Genomes) /\ Head(posted) \in Genomes
  BY <1>0 DEF HandlePosted
<1>3. BankInv'
  <2>1. CASE \E i \in DOMAIN bank : bank[i].genome = Head(posted)
    BY <1>0, <2>1, BankStutter DEF HandlePosted, FindOrEnter
  <2>2. CASE ~ \E i \in DOMAIN bank : bank[i].genome = Head(posted)
    <3> DEFINE e == [genome |-> Head(posted), name |-> UniqueName]
    <3>1. Len(bank) \in Nat /\ DOMAIN bank = 1 .. Len(bank) /\ PriorCount \in Nat
      BY <1>0, GenebankAssumption DEF BankInv
    <3>2. UniqueName \in Seq(Nat) /\ UniqueName = IdentifierFromCount(PriorCount + Len(bank))
      BY <3>1, DigitsLemma DEF UniqueName
    <3>3. e \in BankRecords /\ e.genome = Head(posted)
          /\ e.name = IdentifierFromCount(PriorCount + Len(bank))
      BY <1>2, <3>2 DEF BankRecords
    <3>4. bank' = Append(bank, e) /\ stored' = stored
      BY <2>2 DEF HandlePosted, FindOrEnter
    <3> HIDE DEF e
    <3>5. /\ bank' \in Seq(BankRecords)
          /\ HeldOnce(bank')
          /\ \A i \in DOMAIN bank : bank'[i] = bank[i]
          /\ \A i \in DOMAIN bank' : bank'[i] = IF i = Len(bank) + 1 THEN e ELSE bank[i]
          /\ Len(bank') = Len(bank) + 1
      BY <1>0, <2>2, <3>3, <3>4, AppendLemma DEF BankInv
    <3>6. NamedByPlace'
      <4> SUFFICES ASSUME NEW i \in DOMAIN bank'
                   PROVE  bank'[i].name = IdentifierFromCount((PriorCount + i) - 1)
        BY DEF NamedByPlace
      <4>1. i \in 1 .. (Len(bank) + 1)
        BY <3>1, <3>5
      <4>2. CASE i = Len(bank) + 1
        <5>1. (PriorCount + i) - 1 = PriorCount + Len(bank)
          BY <3>1, <4>2
        <5> QED BY <3>3, <3>5, <4>2, <5>1
      <4>3. CASE i # Len(bank) + 1
        BY <1>0, <3>1, <3>5, <4>1, <4>3 DEF BankInv, NamedByPlace
      <4> QED BY <4>2, <4>3
    <3>7. StoredComesFirst'
      BY <1>0, <3>1, <3>4, <3>5 DEF BankInv, StoredComesFirst
    <3> QED BY <1>0, <3>4, <3>5, <3>6, <3>7 DEF BankInv, HeldOnce
  <2> QED BY <2>1, <2>2
<1> QED BY <1>1, <1>2, <1>3 DEF IInv

\* Saving makes the file what the context is.
LEMMA SynchronizeLemma == IInv /\ Synchronize => IInv'
<1> SUFFICES ASSUME IInv, Synchronize PROVE IInv'
  OBVIOUS
<1>1. InventoryInv'
  BY InventoryStutter DEF Synchronize, IInv
<1>2. BankInv'
  BY DEF Synchronize, IInv, BankInv, NamedByPlace, HeldOnce, StoredComesFirst
<1> QED BY <1>1, <1>2 DEF IInv, Synchronize

\* A World read from a file has the first of the genotypes, with their numbers.
LEMMA OpenWorldLemma ==
  ASSUME InventoryInv, NEW n \in 0 .. Len(entered), OpenWorld(n)
  PROVE  InventoryInv'
<1>1. entered' = SubSeq(entered, 1, n) /\ notified' = {}
  BY DEF OpenWorld
<1>2. /\ entered' \in Seq(EnteredRecords)
      /\ HeldOnce(entered')
      /\ DOMAIN entered' = 1 .. n
      /\ \A i \in 1 .. n : i \in DOMAIN entered /\ entered'[i] = entered[i]
  BY <1>1, PrefixLemma DEF InventoryInv
<1>3. NumberedByPlace'
  BY <1>2 DEF InventoryInv, NumberedByPlace
<1> QED BY <1>1, <1>2, <1>3 DEF InventoryInv, HeldOnce

\* Opening another file leaves the genebank alone.
LEMMA ReopenLemma ==
  ASSUME IInv, NEW n \in 0 .. Len(entered), Reopen(n)
  PROVE  IInv'
<1>1. InventoryInv'
  BY OpenWorldLemma DEF Reopen, IInv
<1>2. BankInv'
  BY BankStutter DEF Reopen, IInv
<1> QED BY <1>1, <1>2 DEF IInv, Reopen

\* The context is reset to the file, which comes first in it.
LEMMA RestartLemma ==
  ASSUME IInv, NEW n \in 0 .. Len(entered), Quit(n) \/ Crash(n)
  PROVE  IInv'
<1>1. PICK file \in {bank, stored} : Restart(n, file)
  BY DEF Quit, Crash
<1>2. InventoryInv'
  BY <1>1, OpenWorldLemma DEF Restart, IInv
<1>3. file \in Seq(BankRecords) /\ HeldOnce(file)
      /\ \A i \in DOMAIN file : file[i].name = IdentifierFromCount((PriorCount + i) - 1)
  <2>1. CASE file = bank
    BY <2>1 DEF IInv, BankInv, NamedByPlace
  <2>2. CASE file = stored
    <3>1. \A i \in DOMAIN stored : i \in DOMAIN bank /\ stored[i] = bank[i]
      BY DEF IInv, BankInv, StoredComesFirst
    <3> QED BY <2>2, <3>1 DEF IInv, BankInv, NamedByPlace, HeldOnce
  <2> QED BY <2>1, <2>2
<1>4. bank' = file /\ stored' = file /\ posted' = <<>>
  BY <1>1 DEF Restart
<1>5. BankInv'
  BY <1>3, <1>4 DEF BankInv, NamedByPlace, HeldOnce, StoredComesFirst
<1> QED BY <1>2, <1>4, <1>5 DEF IInv

\* The invariant holds in every state.
LEMMA IInvLemma == Spec => []IInv
<1>1. IInv /\ [Next]_vars => IInv'
  <2> SUFFICES ASSUME IInv, [Next]_vars PROVE IInv'
    OBVIOUS
  <2>1. CASE \E g \in Genomes, popular \in BOOLEAN : Birth(g, popular)
    BY <2>1, BirthLemma
  <2>2. CASE HandlePosted
    BY <2>2, HandlePostedLemma
  <2>3. CASE Synchronize
    BY <2>3, SynchronizeLemma
  <2>4. CASE \E n \in 0 .. Len(entered) : Reopen(n) \/ Quit(n) \/ Crash(n)
    BY <2>4, ReopenLemma, RestartLemma
  <2>5. CASE UNCHANGED vars
    BY <2>5, BankStutter, InventoryStutter DEF vars, IInv
  <2> QED BY <2>1, <2>2, <2>3, <2>4, <2>5 DEF Next
<1> QED BY <1>1, InitLemma, PTL DEF Spec

-----------------------------------------------------------------------------
(* What follows from it.                                                   *)

\* Identifiers stay within those there are, and only genomes are posted.
THEOREM TypeCorrectness == Spec => []TypeOK
<1>1. IInv => TypeOK
  BY DEF IInv, InventoryInv, BankInv, EnteredRecords, BankRecords, TypeOK
<1> QED BY <1>1, IInvLemma, PTL

\* No two genotypes of one length in the inventory have one identifier: each is
\* the number of those before it, saved and read back or not.
THEOREM AlwaysIdentifiersDistinct == Spec => []IdentifiersDistinct
<1>1. IInv => IdentifiersDistinct
  <2> SUFFICES ASSUME InventoryInv, NEW i \in DOMAIN entered, NEW j \in DOMAIN entered,
                      \/ entered[i].genome = entered[j].genome
                      \/ entered[i].identifier = entered[j].identifier
               PROVE  i = j
    BY DEF IInv, IdentifiersDistinct
  <2>1. CASE entered[i].genome = entered[j].genome
    BY <2>1 DEF InventoryInv, HeldOnce
  <2>2. CASE entered[i].identifier = entered[j].identifier
    <3>1. i \in Int /\ j \in Int /\ i - 1 = j - 1
      BY <2>2 DEF InventoryInv, NumberedByPlace
    <3> QED BY <3>1
  <2> QED BY <2>1, <2>2
<1> QED BY <1>1, IInvLemma, PTL

\* The genebank holds no genome and no name twice, and no name of an earlier run:
\* the count that a name spells is that of the entries before it.
THEOREM AlwaysEntriesDistinct == Spec => []EntriesDistinct
<1>1. IInv => EntriesDistinct
  <2> SUFFICES ASSUME BankInv PROVE EntriesDistinct
    BY DEF IInv
  <2>1. \A i \in DOMAIN bank :
          /\ i \in Nat \ {0}
          /\ (PriorCount + i) - 1 \in Nat
          /\ bank[i].name = IdentifierFromCount((PriorCount + i) - 1)
    BY GenebankAssumption DEF BankInv, NamedByPlace
  <2>2. ASSUME NEW i \in DOMAIN bank, NEW j \in DOMAIN bank, bank[i].name = bank[j].name
        PROVE  i = j
    <3>1. (PriorCount + i) - 1 = (PriorCount + j) - 1
      BY <2>1, <2>2, NamesDiffer
    <3> QED BY <2>1, <3>1, GenebankAssumption
  <2>3. ASSUME NEW i \in DOMAIN bank, NEW count \in 0 .. PriorCount - 1
        PROVE  bank[i].name # IdentifierFromCount(count)
    <3>1. count \in Nat /\ count # (PriorCount + i) - 1
      BY <2>1, GenebankAssumption
    <3> QED BY <2>1, <3>1, NamesDiffer
  <2> QED BY <2>2, <2>3 DEF EntriesDistinct, BankInv, HeldOnce
<1> QED BY <1>1, IInvLemma, PTL

\* Whatever is in the genebank's file stays in it under its name: the context
\* begins with the file, only grows, and replaces the file as a whole.
THEOREM AlwaysStoredIsKept == Spec => StoredIsKept
<1>1. IInv /\ [Next]_vars => [ToSet(stored) \subseteq ToSet(stored')]_vars
  <2> SUFFICES ASSUME IInv, Next PROVE ToSet(stored) \subseteq ToSet(stored')
    OBVIOUS
  <2>1. stored' = stored \/ stored' = bank
    BY DEF Next, Birth, EnterGenotype, NotifyListeners, HandlePosted, Synchronize, Reopen, Quit, Crash, Restart
  <2>2. ToSet(stored) \subseteq ToSet(bank)
    BY DEF IInv, BankInv, StoredComesFirst, ToSet
  <2> QED BY <2>1, <2>2
<1> QED BY <1>1, IInvLemma, PTL DEF Spec, StoredIsKept
=============================================================================
