----------------------------- MODULE WorldProofs -----------------------------
(***************************************************************************)
(* The invariants of World that relate its structures, the counts it keeps *)
(* and the turns it gives, for any creatures, genomes, lengths, soup size, *)
(* reap threshold and slice sizes.                                         *)
(*                                                                         *)
(* First what the operations on the engine's lists, and the calls on the   *)
(* time slicer and on the reaper, preserve; then the invariants; then the  *)
(* counts: mSpaceUsed of the cell map and mNumAlive of each genotype.      *)
(***************************************************************************)
EXTENDS World, SequenceTheorems, FiniteSetTheorems, TLAPS

-----------------------------------------------------------------------------
(* The lists.                                                              *)

\* iterator_to finds the element: an element of a list has one position.
LEMMA PositionLemma ==
  ASSUME NEW S, NEW list \in ListsOf(S), NEW c \in ToSet(list)
  PROVE  /\ PositionOf(list, c) \in 1 .. Len(list)
         /\ list[PositionOf(list, c)] = c
         /\ \A i \in 1 .. Len(list) : list[i] = c => i = PositionOf(list, c)
BY DEF ListsOf, NoDuplicates, PositionOf, ToSet

\* The element at each place of a list from which position p was removed.
LEMMA RemoveAtLemma ==
  ASSUME NEW S, NEW list \in Seq(S), NEW p \in 1 .. Len(list)
  PROVE  /\ RemoveAt(list, p) \in Seq(S)
         /\ Len(RemoveAt(list, p)) = Len(list) - 1
         /\ \A i \in 1 .. Len(list) - 1 :
              RemoveAt(list, p)[i] = IF i < p THEN list[i] ELSE list[i + 1]
<1> DEFINE front == SubSeq(list, 1, p - 1)
           back == SubSeq(list, p + 1, Len(list))
<1>1. /\ front \in Seq(S)
      /\ Len(front) = p - 1
      /\ \A i \in 1 .. p - 1 : front[i] = list[i]
  OBVIOUS
<1>2. /\ back \in Seq(S)
      /\ Len(back) = Len(list) - p
      /\ \A i \in 1 .. Len(list) - p : back[i] = list[i + p]
  OBVIOUS
<1> DEFINE both == front \o back
<1>3. RemoveAt(list, p) = both
  BY DEF RemoveAt
<1> HIDE DEF front, back
<1>4. /\ both \in Seq(S)
      /\ Len(both) = Len(front) + Len(back)
      /\ \A i \in 1 .. Len(front) + Len(back) :
           both[i] = IF i <= Len(front) THEN front[i] ELSE back[i - Len(front)]
  BY <1>1, <1>2, ConcatProperties
<1> HIDE DEF both
<1>5. Len(list) \in Nat /\ Len(both) = Len(list) - 1
  BY <1>1, <1>2, <1>4
<1>6. ASSUME NEW i \in 1 .. Len(list) - 1
      PROVE  both[i] = IF i < p THEN list[i] ELSE list[i + 1]
  <2>1. CASE i < p
    <3>1. i \in 1 .. Len(front) + Len(back) /\ i <= Len(front) /\ i \in 1 .. p - 1
      BY <1>1, <1>2, <1>5, <2>1
    <3>2. both[i] = front[i]
      BY <1>4, <3>1
    <3> QED BY <1>1, <2>1, <3>1, <3>2
  <2>2. CASE i >= p
    <3>1. i - Len(front) \in 1 .. Len(list) - p /\ i - Len(front) + p = i + 1
      BY <1>1, <1>5, <2>2
    <3>2. both[i] = back[i - Len(front)]
      <4>1. i \in 1 .. Len(front) + Len(back) /\ ~(i <= Len(front))
        BY <1>1, <1>2, <1>5, <2>2
      <4> QED BY <1>4, <4>1
    <3>3. both[i] = list[i + 1]
      BY <1>2, <3>1, <3>2
    <3> QED BY <1>5, <2>2, <3>3
  <2> QED BY <1>5, <2>1, <2>2
<1> QED BY <1>3, <1>4, <1>5, <1>6

\* The element at each place of a list into which c was inserted at position p.
LEMMA InsertAtLemma ==
  ASSUME NEW S, NEW list \in Seq(S), NEW p \in 1 .. Len(list), NEW c \in S
  PROVE  /\ InsertAt(list, p, c) \in Seq(S)
         /\ Len(InsertAt(list, p, c)) = Len(list) + 1
         /\ \A i \in 1 .. Len(list) + 1 :
              InsertAt(list, p, c)[i] = IF i < p THEN list[i]
                                        ELSE IF i = p THEN c ELSE list[i - 1]
<1> DEFINE front == SubSeq(list, 1, p - 1)
           back == SubSeq(list, p, Len(list))
           new == front \o <<c>>
<1>1. /\ front \in Seq(S)
      /\ Len(front) = p - 1
      /\ \A i \in 1 .. p - 1 : front[i] = list[i]
  OBVIOUS
<1>2. /\ back \in Seq(S)
      /\ Len(back) = Len(list) - p + 1
      /\ \A i \in 1 .. Len(list) - p + 1 : back[i] = list[i + p - 1]
  OBVIOUS
<1>3. <<c>> \in Seq(S) /\ Len(<<c>>) = 1 /\ <<c>>[1] = c
  OBVIOUS
<1> DEFINE all == new \o back
<1>4. InsertAt(list, p, c) = all
  BY DEF InsertAt
<1> HIDE DEF front, back
<1>5. /\ new \in Seq(S)
      /\ Len(new) = p
      /\ \A i \in 1 .. p : new[i] = IF i < p THEN list[i] ELSE c
  <2>1. /\ new \in Seq(S)
        /\ Len(new) = Len(front) + Len(<<c>>)
        /\ \A i \in 1 .. Len(front) + Len(<<c>>) :
             new[i] = IF i <= Len(front) THEN front[i] ELSE <<c>>[i - Len(front)]
    BY <1>1, <1>3, ConcatProperties
  <2> HIDE DEF new
  <2>2. Len(new) = p
    BY <1>1, <1>3, <2>1
  <2>3. ASSUME NEW i \in 1 .. p
        PROVE  new[i] = IF i < p THEN list[i] ELSE c
    <3>1. i \in 1 .. Len(front) + Len(<<c>>)
      BY <1>1, <1>3
    <3>2. CASE i < p
      BY <1>1, <2>1, <3>1, <3>2
    <3>3. CASE ~ (i < p)
      <4>1. i - Len(front) = 1 /\ ~ (i <= Len(front))
        BY <1>1, <3>3
      <4> QED BY <1>3, <2>1, <3>1, <3>3, <4>1
    <3> QED BY <3>2, <3>3
  <2> QED BY <2>1, <2>2, <2>3
<1> HIDE DEF new
<1>6. /\ all \in Seq(S)
      /\ Len(all) = Len(new) + Len(back)
      /\ \A i \in 1 .. Len(new) + Len(back) :
           all[i] = IF i <= Len(new) THEN new[i] ELSE back[i - Len(new)]
  BY <1>2, <1>5, ConcatProperties
<1> HIDE DEF all
<1>7. Len(list) \in Nat /\ Len(all) = Len(list) + 1
  BY <1>2, <1>5, <1>6
<1>8. ASSUME NEW i \in 1 .. Len(list) + 1
      PROVE  all[i] = IF i < p THEN list[i] ELSE IF i = p THEN c ELSE list[i - 1]
  <2>1. CASE i <= p
    BY <1>2, <1>5, <1>6, <1>7, <2>1
  <2>2. CASE i > p
    <3>1. i - Len(new) \in 1 .. Len(list) - p + 1 /\ i - Len(new) + p - 1 = i - 1
      BY <1>5, <1>7, <2>2
    <3>2. all[i] = back[i - Len(new)]
      BY <1>2, <1>5, <1>6, <1>7, <2>2
    <3>3. all[i] = list[i - 1]
      BY <1>2, <3>1, <3>2
    <3> QED BY <1>7, <2>2, <3>3
  <2> QED BY <1>7, <2>1, <2>2
<1> QED BY <1>4, <1>6, <1>7, <1>8

\* erase takes one element out of a list and leaves the others.
LEMMA EraseLemma ==
  ASSUME NEW S, NEW list \in ListsOf(S), NEW c \in ToSet(list)
  PROVE  /\ Erase(list, c) \in ListsOf(S)
         /\ ToSet(Erase(list, c)) = ToSet(list) \ {c}
         /\ Len(Erase(list, c)) = Len(list) - 1
<1> DEFINE p == PositionOf(list, c)
           erased == Erase(list, c)
<1>1. /\ list \in Seq(S) /\ NoDuplicates(list)
      /\ p \in 1 .. Len(list) /\ list[p] = c
  BY PositionLemma DEF ListsOf
<1>2. /\ erased \in Seq(S)
      /\ Len(erased) = Len(list) - 1
      /\ \A i \in 1 .. Len(list) - 1 :
           erased[i] = IF i < p THEN list[i] ELSE list[i + 1]
  <2>1. erased = RemoveAt(list, p)
    BY DEF Erase
  <2> HIDE DEF p, erased
  <2> QED BY <1>1, <2>1, RemoveAtLemma
<1> HIDE DEF p, erased
<1>3. NoDuplicates(erased)
  <2> DEFINE old(i) == IF i < p THEN i ELSE i + 1
  <2>1. \A i \in 1 .. Len(list) - 1 : erased[i] = list[old(i)] /\ old(i) \in 1 .. Len(list)
    BY <1>1, <1>2
  <2>2. \A i, j \in 1 .. Len(list) - 1 : old(i) = old(j) => i = j
    BY <1>1
  <2>3. DOMAIN erased = 1 .. Len(list) - 1 /\ DOMAIN list = 1 .. Len(list)
    BY <1>1, <1>2
  <2> HIDE DEF old
  <2> QED BY <1>1, <2>1, <2>2, <2>3 DEF NoDuplicates
<1>4. ASSUME NEW x \in ToSet(erased)
      PROVE  x \in ToSet(list) /\ x # c
  <2>1. PICK i \in 1 .. Len(list) - 1 : erased[i] = x
    BY <1>2 DEF ToSet
  <2>2. PICK j \in 1 .. Len(list) : j # p /\ list[j] = x
    BY <1>1, <1>2, <2>1
  <2> QED BY <1>1, <2>2 DEF ToSet, NoDuplicates
<1>5. ASSUME NEW x \in ToSet(list), x # c
      PROVE  x \in ToSet(erased)
  <2>1. PICK i \in 1 .. Len(list) : list[i] = x
    BY <1>1 DEF ToSet
  <2>2. CASE i < p
    BY <1>1, <1>2, <2>1, <2>2 DEF ToSet
  <2>3. CASE i > p
    <3>1. i - 1 \in 1 .. Len(list) - 1 /\ erased[i - 1] = x
      BY <1>1, <1>2, <2>1, <2>3
    <3> QED BY <1>2, <3>1 DEF ToSet
  <2> QED BY <1>1, <1>5, <2>1, <2>2, <2>3
<1>6. ToSet(erased) = ToSet(list) \ {c}
  BY <1>4, <1>5
<1> QED BY <1>2, <1>3, <1>6 DEF erased, ListsOf

\* insert adds one new element to a list.
LEMMA InsertBeforeLemma ==
  ASSUME NEW S, NEW list \in ListsOf(S), NEW before \in ToSet(list),
         NEW c \in S, c \notin ToSet(list)
  PROVE  /\ InsertBefore(list, before, c) \in ListsOf(S)
         /\ ToSet(InsertBefore(list, before, c)) = ToSet(list) \union {c}
<1> DEFINE p == PositionOf(list, before)
           longer == InsertBefore(list, before, c)
<1>1. /\ list \in Seq(S) /\ NoDuplicates(list) /\ p \in 1 .. Len(list)
  BY PositionLemma DEF ListsOf
<1>2. /\ longer \in Seq(S)
      /\ Len(longer) = Len(list) + 1
      /\ \A i \in 1 .. Len(list) + 1 :
           longer[i] = IF i < p THEN list[i] ELSE IF i = p THEN c ELSE list[i - 1]
  <2>1. longer = InsertAt(list, p, c)
    BY DEF InsertBefore
  <2> HIDE DEF p, longer
  <2> QED BY <1>1, <2>1, InsertAtLemma
<1> HIDE DEF p, longer
<1>3. \A i \in 1 .. Len(list) : list[i] # c
  BY <1>1 DEF ToSet
<1>4. NoDuplicates(longer)
  <2> DEFINE old(i) == IF i < p THEN i ELSE i - 1
  <2>1. \A i \in 1 .. Len(list) + 1 :
          i # p => longer[i] = list[old(i)] /\ old(i) \in 1 .. Len(list)
    BY <1>1, <1>2
  <2>2. longer[p] = c /\ p \in 1 .. Len(list) + 1
    BY <1>1, <1>2
  <2>3. \A i, j \in 1 .. Len(list) + 1 : i # p /\ j # p /\ old(i) = old(j) => i = j
    BY <1>1
  <2>4. DOMAIN longer = 1 .. Len(list) + 1 /\ DOMAIN list = 1 .. Len(list)
    BY <1>1, <1>2
  <2> HIDE DEF old
  <2> QED BY <1>1, <1>3, <2>1, <2>2, <2>3, <2>4 DEF NoDuplicates
<1>5. ASSUME NEW x \in ToSet(longer)
      PROVE  x \in ToSet(list) \/ x = c
  <2>1. PICK i \in 1 .. Len(list) + 1 : longer[i] = x
    BY <1>2 DEF ToSet
  <2>2. CASE i < p
    <3>1. i \in 1 .. Len(list) /\ list[i] = x
      BY <1>1, <1>2, <2>1, <2>2
    <3> QED BY <1>1, <3>1 DEF ToSet
  <2>3. CASE i = p
    BY <1>1, <1>2, <2>1, <2>3
  <2>4. CASE i > p
    <3>1. i - 1 \in 1 .. Len(list) /\ list[i - 1] = x
      BY <1>1, <1>2, <2>1, <2>4
    <3> QED BY <1>1, <3>1 DEF ToSet
  <2> QED BY <1>1, <2>1, <2>2, <2>3, <2>4
<1>6. c \in ToSet(longer)
  <2>1. p \in 1 .. Len(list) + 1 /\ longer[p] = c
    BY <1>1, <1>2
  <2> QED BY <1>2, <2>1 DEF ToSet
<1>7. ASSUME NEW x \in ToSet(list)
      PROVE  x \in ToSet(longer)
  <2>1. PICK i \in 1 .. Len(list) : list[i] = x
    BY <1>1 DEF ToSet
  <2>2. CASE i < p
    <3>1. i \in 1 .. Len(list) + 1 /\ longer[i] = list[i]
      BY <1>1, <1>2, <2>2
    <3>2. i \in 1 .. Len(list) + 1 /\ longer[i] = x
      BY <2>1, <3>1
    <3> QED BY <1>2, <3>2 DEF ToSet
  <2>3. CASE i >= p
    <3>1. i + 1 \in 1 .. Len(list) + 1 /\ longer[i + 1] = x
      BY <1>1, <1>2, <2>1, <2>3
    <3> QED BY <1>2, <3>1 DEF ToSet
  <2> QED BY <1>1, <2>1, <2>2, <2>3
<1> QED BY <1>2, <1>4, <1>5, <1>6, <1>7 DEF longer, ListsOf

\* push_back adds one new element to a list.
LEMMA AppendLemma ==
  ASSUME NEW S, NEW list \in ListsOf(S), NEW c \in S, c \notin ToSet(list)
  PROVE  /\ Append(list, c) \in ListsOf(S)
         /\ ToSet(Append(list, c)) = ToSet(list) \union {c}
<1> DEFINE longer == Append(list, c)
<1>1. list \in Seq(S) /\ NoDuplicates(list) /\ Len(list) \in Nat
  BY DEF ListsOf
<1>2. /\ longer \in Seq(S)
      /\ Len(longer) = Len(list) + 1
      /\ \A i \in 1 .. Len(list) : longer[i] = list[i]
      /\ longer[Len(list) + 1] = c
  BY <1>1
<1>3. \A i \in 1 .. Len(list) : list[i] # c
  BY <1>1 DEF ToSet
<1> HIDE DEF longer
<1>4. NoDuplicates(longer)
  BY <1>1, <1>2, <1>3 DEF NoDuplicates
<1>5. ToSet(longer) = ToSet(list) \union {c}
  <2>1. DOMAIN longer = 1 .. Len(list) + 1 /\ DOMAIN list = 1 .. Len(list)
    BY <1>1, <1>2
  <2>2. \A x \in ToSet(longer) : x \in ToSet(list) \union {c}
    BY <1>1, <1>2, <2>1 DEF ToSet
  <2>3. \A x \in ToSet(list) : x \in ToSet(longer)
    BY <1>1, <1>2, <2>1 DEF ToSet
  <2>4. c \in ToSet(longer)
    BY <1>1, <1>2, <2>1 DEF ToSet
  <2> QED BY <2>2, <2>3, <2>4
<1> QED BY <1>2, <1>4, <1>5 DEF longer, ListsOf

\* A list is empty when it has no elements, and its first element is one.
LEMMA EmptyListLemma ==
  ASSUME NEW S, NEW list \in ListsOf(S)
  PROVE  /\ list = <<>> <=> ToSet(list) = {}
         /\ list # <<>> => Head(list) \in ToSet(list)
         /\ ToSet(list) \subseteq S
<1>1. list \in Seq(S) /\ Len(list) \in Nat /\ DOMAIN list = 1 .. Len(list)
  BY DEF ListsOf
<1>2. CASE list = <<>>
  BY <1>1, <1>2 DEF ToSet
<1>3. CASE list # <<>>
  <2>1. 1 \in 1 .. Len(list) /\ Head(list) = list[1]
    BY <1>1, <1>3
  <2>2. list[1] \in ToSet(list)
    BY <1>1, <2>1 DEF ToSet
  <2>3. ToSet(list) \subseteq S
    BY <1>1 DEF ToSet
  <2> QED BY <1>3, <2>1, <2>2, <2>3
<1> QED BY <1>2, <1>3

-----------------------------------------------------------------------------
(* The slicer and the reaper.                                              *)

\* A creature put into the slicer is in its list, and mCurrentItem is sound.
LEMMA SlicerInsertLemma ==
  ASSUME NEW s, SlicerOK(s), NEW c \in Creatures, c \notin ToSet(s.list)
  PROVE  /\ SlicerOK(SlicerInsert(s, c))
         /\ ToSet(SlicerInsert(s, c).list) = ToSet(s.list) \union {c}
<1> DEFINE t == SlicerInsert(s, c)
<1>1. CASE s.list = <<>>
  <2>1. t = [list |-> <<c>>, current |-> c]
    BY <1>1 DEF SlicerInsert
  <2>2. <<c>> \in ListsOf(Creatures) /\ ToSet(<<c>>) = {c} /\ ToSet(s.list) = {}
    BY <1>1 DEF ListsOf, NoDuplicates, ToSet
  <2> QED BY <2>1, <2>2 DEF SlicerOK, Slicers
<1>2. CASE s.list # <<>>
  <2>1. s.list \in ListsOf(Creatures) /\ s.current \in ToSet(s.list)
    BY <1>2 DEF SlicerOK, Slicers
  <2>2. t = [list |-> InsertBefore(s.list, s.current, c), current |-> s.current]
    BY <1>2 DEF SlicerInsert, SlicerOK, Slicers
  <2>3. /\ InsertBefore(s.list, s.current, c) \in ListsOf(Creatures)
        /\ ToSet(InsertBefore(s.list, s.current, c)) = ToSet(s.list) \union {c}
    BY <2>1, InsertBeforeLemma
  <2>4. s.current \in Creatures
    BY <2>1, EmptyListLemma
  <2>5. InsertBefore(s.list, s.current, c) # <<>>
    BY <2>3, EmptyListLemma
  <2> QED BY <2>1, <2>2, <2>3, <2>4, <2>5 DEF SlicerOK, Slicers
<1> QED BY <1>1, <1>2

\* The creature after one of the list is one of the list, another one if there
\* is another one.
LEMMA SuccessorLemma ==
  ASSUME NEW list \in ListsOf(Creatures), NEW c \in ToSet(list)
  PROVE  /\ Successor(list, c) \in ToSet(list)
         /\ Len(list) > 1 => Successor(list, c) # c
<1> DEFINE p == PositionOf(list, c)
<1>1. /\ list \in Seq(Creatures) /\ NoDuplicates(list)
      /\ Len(list) \in Nat /\ DOMAIN list = 1 .. Len(list)
      /\ p \in 1 .. Len(list) /\ list[p] = c
  BY PositionLemma DEF ListsOf
<1>2. PICK q \in 1 .. Len(list) : Successor(list, c) = list[q] /\ (Len(list) > 1 => q # p)
  BY <1>1 DEF Successor
<1> QED BY <1>1, <1>2 DEF ToSet, NoDuplicates

\* advance leaves the list as it is and mCurrentItem sound.
LEMMA SlicerAdvanceLemma ==
  ASSUME NEW s, SlicerOK(s)
  PROVE  /\ SlicerOK(SlicerAdvance(s))
         /\ SlicerAdvance(s).list = s.list
<1>1. CASE s.list = <<>>
  BY <1>1 DEF SlicerAdvance
<1>2. CASE s.list # <<>>
  <2>1. s.list \in ListsOf(Creatures) /\ s.current \in ToSet(s.list)
    BY <1>2 DEF SlicerOK, Slicers
  <2>2. SlicerAdvance(s) = [list |-> s.list, current |-> Successor(s.list, s.current)]
    BY <1>2 DEF SlicerAdvance, SlicerOK, Slicers
  <2>3. Successor(s.list, s.current) \in ToSet(s.list)
    BY <2>1, SuccessorLemma
  <2>4. ToSet(s.list) \subseteq Creatures
    BY <2>1, EmptyListLemma
  <2> QED BY <1>2, <2>1, <2>2, <2>3, <2>4 DEF SlicerOK, Slicers
<1> QED BY <1>1, <1>2

\* A creature taken out of the slicer is gone from its list, and mCurrentItem
\* is sound even when it was that creature's turn.
LEMMA SlicerRemoveLemma ==
  ASSUME NEW s, SlicerOK(s), NEW c \in ToSet(s.list)
  PROVE  /\ SlicerOK(SlicerRemove(s, c))
         /\ ToSet(SlicerRemove(s, c).list) = ToSet(s.list) \ {c}
<1> DEFINE moved == IF s.current = c THEN SlicerAdvance(s) ELSE s
           list == Erase(s.list, c)
           t == SlicerRemove(s, c)
<1>1. t = [list |-> list, current |-> IF list = <<>> THEN NoCreature ELSE moved.current]
  BY DEF SlicerRemove
<1>2. s.list \in ListsOf(Creatures) /\ s.list # <<>> /\ s.current \in ToSet(s.list)
  <2>1. s.list \in ListsOf(Creatures)
    BY DEF SlicerOK, Slicers
  <2>2. s.list # <<>>
    BY <2>1, EmptyListLemma
  <2> QED BY <2>1, <2>2 DEF SlicerOK
<1>3. /\ list \in ListsOf(Creatures)
      /\ ToSet(list) = ToSet(s.list) \ {c}
      /\ Len(list) = Len(s.list) - 1
  BY <1>2, EraseLemma
<1>4. ASSUME list # <<>>
      PROVE  moved.current \in ToSet(list)
  <2>1. CASE s.current # c
    BY <1>2, <1>3, <2>1
  <2>2. CASE s.current = c
    <3>1. moved.current = Successor(s.list, c)
      BY <1>2, <2>2 DEF SlicerAdvance, SlicerOK, Slicers
    <3>2. Len(s.list) > 1
      BY <1>2, <1>3, <1>4 DEF ListsOf
    <3> QED BY <1>2, <1>3, <3>1, <3>2, SuccessorLemma
  <2> QED BY <2>1, <2>2
<1>5. ToSet(list) \subseteq Creatures
  BY <1>3, EmptyListLemma
<1> HIDE DEF moved, list
<1> QED BY <1>1, <1>3, <1>4, <1>5 DEF SlicerOK, Slicers

\* A slicer read back from an archive is the slicer that was saved.
LEMMA SlicerReloadLemma ==
  ASSUME NEW s, SlicerOK(s), s.list # <<>>
  PROVE  SlicerReload(s) = s
<1>1. s.list \in ListsOf(Creatures) /\ s.current \in ToSet(s.list)
  BY DEF SlicerOK, Slicers
<1>2. s.list[PositionOf(s.list, s.current)] = s.current
  BY <1>1, PositionLemma
<1>3. [i \in 1 .. Len(s.list) |-> s.list[i]] = s.list
  BY <1>1 DEF ListsOf
<1>4. s = [list |-> s.list, current |-> s.current]
  BY DEF SlicerOK, Slicers
<1> QED BY <1>2, <1>3, <1>4 DEF SlicerReload

-----------------------------------------------------------------------------
(* The order of turns.                                                     *)

\* The place in a list of n items of the i-th turn, from the item at p round.
TurnAt(n, p, i) == IF p + i - 1 <= n THEN p + i - 1 ELSE p + i - 1 - n

\* Each place of the list has one turn.
LEMMA TurnAtLemma ==
  ASSUME NEW n \in Nat, NEW p \in 1 .. n
  PROVE  /\ \A i \in 1 .. n : TurnAt(n, p, i) \in 1 .. n
         /\ \A i, j \in 1 .. n : TurnAt(n, p, i) = TurnAt(n, p, j) => i = j
         /\ \A k \in 1 .. n : \E i \in 1 .. n : TurnAt(n, p, i) = k
<1>1. \A i \in 1 .. n : TurnAt(n, p, i) \in 1 .. n
  BY DEF TurnAt
<1>2. \A i, j \in 1 .. n : TurnAt(n, p, i) = TurnAt(n, p, j) => i = j
  BY DEF TurnAt
<1>3. ASSUME NEW k \in 1 .. n
      PROVE  \E i \in 1 .. n : TurnAt(n, p, i) = k
  <2>1. CASE k >= p
    <3>1. k - p + 1 \in 1 .. n /\ TurnAt(n, p, k - p + 1) = k
      BY <2>1 DEF TurnAt
    <3> QED BY <3>1
  <2>2. CASE k < p
    <3>1. k - p + 1 + n \in 1 .. n /\ TurnAt(n, p, k - p + 1 + n) = k
      BY <2>2 DEF TurnAt
    <3> QED BY <3>1
  <2> QED BY <2>1, <2>2
<1> QED BY <1>1, <1>2, <1>3

\* The list from the item at p round.
Rotated(list, p) == [i \in 1 .. Len(list) |-> list[TurnAt(Len(list), p, i)]]

\* A list read from another place is a list of the same creatures.
LEMMA RotatedLemma ==
  ASSUME NEW S, NEW list \in ListsOf(S), NEW p \in 1 .. Len(list)
  PROVE  /\ Rotated(list, p) \in ListsOf(S)
         /\ Len(Rotated(list, p)) = Len(list)
         /\ \A i \in 1 .. Len(list) : /\ TurnAt(Len(list), p, i) \in 1 .. Len(list)
                                      /\ Rotated(list, p)[i] = list[TurnAt(Len(list), p, i)]
         /\ ToSet(Rotated(list, p)) = ToSet(list)
<1> DEFINE order == Rotated(list, p)
           at(i) == TurnAt(Len(list), p, i)
<1>1. /\ list \in Seq(S) /\ NoDuplicates(list)
      /\ Len(list) \in Nat /\ DOMAIN list = 1 .. Len(list)
  BY DEF ListsOf
<1>2. /\ \A i \in 1 .. Len(list) : at(i) \in 1 .. Len(list)
      /\ \A i, j \in 1 .. Len(list) : at(i) = at(j) => i = j
      /\ \A k \in 1 .. Len(list) : \E i \in 1 .. Len(list) : at(i) = k
  BY <1>1, TurnAtLemma
<1>3. order = [i \in 1 .. Len(list) |-> list[at(i)]]
  BY DEF Rotated
<1> HIDE DEF order, at
<1>4. order \in Seq(S) /\ Len(order) = Len(list) /\ DOMAIN order = 1 .. Len(list)
  <2>1. order \in [1 .. Len(list) -> S]
    BY <1>1, <1>2, <1>3
  <2> QED BY <1>1, <2>1
<1>5. \A i \in 1 .. Len(list) : order[i] = list[at(i)]
  BY <1>3
<1>6. NoDuplicates(order)
  <2>1. ASSUME NEW i \in 1 .. Len(list), NEW j \in 1 .. Len(list), order[i] = order[j]
        PROVE  i = j
    <3>1. at(i) \in DOMAIN list /\ at(j) \in DOMAIN list /\ list[at(i)] = list[at(j)]
      BY <1>1, <1>2, <1>5, <2>1
    <3>2. at(i) = at(j)
      BY <1>1, <3>1 DEF NoDuplicates
    <3> QED BY <1>2, <3>2
  <2> QED BY <1>4, <2>1 DEF NoDuplicates
<1>7. ASSUME NEW x \in ToSet(order) PROVE x \in ToSet(list)
  <2>1. PICK i \in 1 .. Len(list) : order[i] = x
    BY <1>4 DEF ToSet
  <2> QED BY <1>1, <1>2, <1>5, <2>1 DEF ToSet
<1>8. ASSUME NEW x \in ToSet(list) PROVE x \in ToSet(order)
  <2>1. PICK k \in 1 .. Len(list) : list[k] = x
    BY <1>1 DEF ToSet
  <2>2. PICK i \in 1 .. Len(list) : at(i) = k
    BY <1>2
  <2> QED BY <1>4, <1>5, <2>1, <2>2 DEF ToSet
<1>9. ToSet(order) = ToSet(list)
  BY <1>7, <1>8
<1> QED BY <1>2, <1>4, <1>5, <1>6, <1>9 DEF ListsOf, order, at

\* The order of turns is the list from the current creature round.
LEMMA OrderLemma ==
  ASSUME NEW s, SlicerOK(s), s.list # <<>>
  PROVE  /\ s.list \in ListsOf(Creatures)
         /\ Len(s.list) \in Nat \ {0}
         /\ s.current \in ToSet(s.list)
         /\ PositionOf(s.list, s.current) \in 1 .. Len(s.list)
         /\ s.list[PositionOf(s.list, s.current)] = s.current
         /\ OrderOfTurns(s) = Rotated(s.list, PositionOf(s.list, s.current))
<1>1. s.list \in ListsOf(Creatures) /\ s.current \in ToSet(s.list)
  BY DEF SlicerOK, Slicers
<1>2. Len(s.list) \in Nat \ {0}
  BY <1>1 DEF ListsOf
<1>3. /\ PositionOf(s.list, s.current) \in 1 .. Len(s.list)
      /\ s.list[PositionOf(s.list, s.current)] = s.current
  BY <1>1, PositionLemma
<1>4. OrderOfTurns(s) = Rotated(s.list, PositionOf(s.list, s.current))
  BY DEF OrderOfTurns, Rotated, TurnAt
<1> QED BY <1>1, <1>2, <1>3, <1>4

\* Two lists of one length are one list if they agree at each place.
LEMMA SameListLemma ==
  ASSUME NEW S, NEW list1 \in Seq(S), NEW list2 \in Seq(S), Len(list1) = Len(list2),
         \A i \in 1 .. Len(list1) : list1[i] = list2[i]
  PROVE  list1 = list2
OBVIOUS

\* insertCreature puts the newcomer behind all the others in the order of turns.
LEMMA InsertOrderLemma ==
  ASSUME NEW s, SlicerOK(s), NEW c \in Creatures, c \notin ToSet(s.list)
  PROVE  OrderOfTurns(SlicerInsert(s, c)) = Append(OrderOfTurns(s), c)
<1>1. CASE s.list = <<>>
  <2>1. SlicerInsert(s, c) = [list |-> <<c>>, current |-> c]
    BY <1>1 DEF SlicerInsert
  <2>2. <<c>> \in ListsOf(Creatures) /\ c \in ToSet(<<c>>)
    BY DEF ListsOf, NoDuplicates, ToSet
  <2>3. PositionOf(<<c>>, c) = 1
    BY <2>2, PositionLemma
  <2>4. OrderOfTurns(SlicerInsert(s, c)) = [i \in 1 .. 1 |-> <<c>>[i]]
    BY <2>1, <2>3 DEF OrderOfTurns
  <2>5. OrderOfTurns(s) = <<>>
    BY <1>1 DEF OrderOfTurns
  <2> QED BY <2>4, <2>5
<1>2. CASE s.list # <<>>
  <2>l. PICK list \in ListsOf(Creatures) : list = s.list
    BY <1>2, OrderLemma
  <2>p. PICK p \in 1 .. Len(list) :
          p = PositionOf(list, s.current) /\ OrderOfTurns(s) = Rotated(list, p)
    BY <1>2, <2>l, OrderLemma
  <2>t. PICK longer : longer = InsertAt(list, p, c)
    OBVIOUS
  <2>n. PICK n \in Nat \ {0} : n = Len(list)
    BY <1>2, <2>l, OrderLemma
  <2>1. SlicerInsert(s, c) = [list |-> longer, current |-> s.current]
    BY <1>2, <2>l, <2>p, <2>t DEF SlicerInsert, InsertBefore, SlicerOK, Slicers
  <2>2. SlicerOK(SlicerInsert(s, c)) /\ longer # <<>>
    <3>1. SlicerOK(SlicerInsert(s, c)) /\ c \in ToSet(longer)
      BY <2>1, SlicerInsertLemma
    <3>2. longer \in ListsOf(Creatures)
      BY <2>1, <3>1 DEF SlicerOK, Slicers
    <3> QED BY <3>1, <3>2, EmptyListLemma
  <2>3. /\ longer \in Seq(Creatures)
        /\ Len(longer) = n + 1
        /\ p \in 1 .. n
        /\ list[p] = s.current
        /\ \A i \in 1 .. n + 1 :
             longer[i] = IF i < p THEN list[i] ELSE IF i = p THEN c ELSE list[i - 1]
    <3>1. list \in Seq(Creatures) /\ list[p] = s.current
      BY <1>2, <2>l, <2>p, OrderLemma DEF ListsOf
    <3>2. /\ InsertAt(list, p, c) \in Seq(Creatures)
          /\ Len(InsertAt(list, p, c)) = Len(list) + 1
          /\ \A i \in 1 .. Len(list) + 1 :
               InsertAt(list, p, c)[i] = IF i < p THEN list[i]
                                         ELSE IF i = p THEN c ELSE list[i - 1]
      BY <3>1, InsertAtLemma
    <3> QED BY <3>1, <3>2, <2>n, <2>t
  <2>4. /\ PositionOf(longer, s.current) = p + 1
        /\ OrderOfTurns(SlicerInsert(s, c)) = Rotated(longer, p + 1)
    <3>1. /\ longer \in ListsOf(Creatures) /\ s.current \in ToSet(longer)
          /\ OrderOfTurns(SlicerInsert(s, c)) = Rotated(longer, PositionOf(longer, s.current))
      BY <2>1, <2>2, OrderLemma
    <3>2. longer[p + 1] = s.current /\ p + 1 \in 1 .. Len(longer)
      BY <2>3
    <3> QED BY <3>1, <3>2, PositionLemma
  <2>5. /\ Rotated(list, p) \in Seq(Creatures)
        /\ Len(Rotated(list, p)) = n
        /\ \A i \in 1 .. n : Rotated(list, p)[i] = list[TurnAt(n, p, i)]
    BY <2>n, RotatedLemma DEF ListsOf
  <2>6. /\ Rotated(longer, p + 1) \in Seq(Creatures)
        /\ Len(Rotated(longer, p + 1)) = n + 1
        /\ \A i \in 1 .. n + 1 : Rotated(longer, p + 1)[i] = longer[TurnAt(n + 1, p + 1, i)]
    <3>1. longer \in ListsOf(Creatures) /\ p + 1 \in 1 .. Len(longer)
      BY <2>1, <2>2, <2>3, OrderLemma
    <3>2. PICK q : q = p + 1
      OBVIOUS
    <3>3. /\ Rotated(longer, q) \in Seq(Creatures)
          /\ Len(Rotated(longer, q)) = Len(longer)
          /\ \A i \in 1 .. Len(longer) : Rotated(longer, q)[i] = longer[TurnAt(Len(longer), q, i)]
      BY <3>1, <3>2, RotatedLemma DEF ListsOf
    <3> QED BY <2>3, <3>2, <3>3
  <2>7. ASSUME NEW i \in 1 .. n + 1
        PROVE  longer[TurnAt(n + 1, p + 1, i)] = IF i <= n THEN list[TurnAt(n, p, i)] ELSE c
    <3>1. CASE i <= n /\ p + i - 1 <= n
      <4>1. TurnAt(n + 1, p + 1, i) = p + i /\ TurnAt(n, p, i) = p + i - 1 /\ p + i \in 1 .. n + 1
        BY <2>3, <3>1 DEF TurnAt
      <4> QED BY <2>3, <3>1, <4>1
    <3>2. CASE i <= n /\ p + i - 1 > n
      <4>1. /\ TurnAt(n + 1, p + 1, i) = p + i - 1 - n /\ TurnAt(n, p, i) = p + i - 1 - n
            /\ p + i - 1 - n \in 1 .. n + 1 /\ p + i - 1 - n < p
        BY <2>3, <3>2 DEF TurnAt
      <4> QED BY <2>3, <3>2, <4>1
    <3>3. CASE i = n + 1
      <4>1. TurnAt(n + 1, p + 1, i) = p /\ p \in 1 .. n + 1
        BY <2>3, <3>3 DEF TurnAt
      <4> QED BY <2>3, <3>3, <4>1
    <3> QED BY <2>3, <3>1, <3>2, <3>3
  <2>o. PICK order \in Seq(Creatures) : order = Rotated(list, p)
    BY <2>5
  <2>u. PICK new \in Seq(Creatures) : new = Rotated(longer, p + 1)
    BY <2>6
  <2>8. /\ Len(order) = n /\ Len(new) = n + 1
        /\ \A i \in 1 .. n : order[i] = list[TurnAt(n, p, i)]
        /\ \A i \in 1 .. n + 1 : new[i] = IF i <= n THEN list[TurnAt(n, p, i)] ELSE c
    BY <2>5, <2>6, <2>7, <2>o, <2>u
  <2>9. \A i \in 1 .. n + 1 : new[i] = Append(order, c)[i]
    BY <2>8
  <2>10. new = Append(order, c)
    BY <2>8, <2>9, SameListLemma
  <2> QED BY <2>4, <2>p, <2>o, <2>u, <2>10
<1> QED BY <1>1, <1>2

\* advance sends the head of the order of turns to its end.
LEMMA AdvanceOrderLemma ==
  ASSUME NEW s, SlicerOK(s), s.list # <<>>
  PROVE  /\ OrderOfTurns(s) # <<>>
         /\ OrderOfTurns(SlicerAdvance(s))
              = Append(Tail(OrderOfTurns(s)), Head(OrderOfTurns(s)))
<1>l. PICK list \in ListsOf(Creatures) : list = s.list
  BY OrderLemma
<1>n. PICK n \in Nat \ {0} : n = Len(list)
  BY <1>l, OrderLemma
<1>p. PICK p \in 1 .. n : p = PositionOf(list, s.current) /\ OrderOfTurns(s) = Rotated(list, p)
  BY <1>l, <1>n, OrderLemma
<1>q. PICK q \in 1 .. n : q = IF p = n THEN 1 ELSE p + 1
  OBVIOUS
<1>1. SlicerAdvance(s) = [list |-> list, current |-> list[q]]
  <2>1. Successor(list, s.current) = list[q]
    BY <1>n, <1>p, <1>q DEF Successor
  <2> QED BY <1>l, <2>1 DEF SlicerAdvance, SlicerOK, Slicers
<1>2. OrderOfTurns(SlicerAdvance(s)) = Rotated(list, q)
  <2>1. SlicerOK(SlicerAdvance(s)) /\ list # <<>>
    BY <1>l, SlicerAdvanceLemma
  <2>2. /\ list[q] \in ToSet(list)
        /\ OrderOfTurns(SlicerAdvance(s)) = Rotated(list, PositionOf(list, list[q]))
    BY <1>1, <2>1, OrderLemma
  <2>3. PositionOf(list, list[q]) = q
    BY <1>n, <2>2, PositionLemma
  <2> QED BY <2>2, <2>3
<1>o. PICK order : order = Rotated(list, p)
  OBVIOUS
<1>u. PICK new : new = Rotated(list, q)
  OBVIOUS
<1>3. /\ order \in Seq(Creatures) /\ Len(order) = n
      /\ \A i \in 1 .. n : order[i] = list[TurnAt(n, p, i)]
  <2>1. p \in 1 .. Len(list)
    BY <1>n
  <2>2. /\ Rotated(list, p) \in ListsOf(Creatures)
        /\ Len(Rotated(list, p)) = Len(list)
        /\ \A i \in 1 .. Len(list) : Rotated(list, p)[i] = list[TurnAt(Len(list), p, i)]
    BY <2>1, RotatedLemma
  <2> QED BY <1>n, <1>o, <2>2 DEF ListsOf
<1>4. /\ new \in Seq(Creatures) /\ Len(new) = n
      /\ \A i \in 1 .. n : new[i] = list[TurnAt(n, q, i)]
  <2>1. q \in 1 .. Len(list)
    BY <1>n
  <2>2. /\ Rotated(list, q) \in ListsOf(Creatures)
        /\ Len(Rotated(list, q)) = Len(list)
        /\ \A i \in 1 .. Len(list) : Rotated(list, q)[i] = list[TurnAt(Len(list), q, i)]
    BY <2>1, RotatedLemma
  <2> QED BY <1>n, <1>u, <2>2 DEF ListsOf
<1>5. ASSUME NEW i \in 1 .. n
      PROVE  new[i] = IF i < n THEN order[i + 1] ELSE order[1]
  <2>1. CASE i < n
    <3>1. TurnAt(n, q, i) = TurnAt(n, p, i + 1) /\ i + 1 \in 1 .. n
      BY <1>q, <2>1 DEF TurnAt
    <3> QED BY <1>3, <1>4, <2>1, <3>1
  <2>2. CASE i = n
    <3>1. TurnAt(n, q, i) = TurnAt(n, p, 1) /\ 1 \in 1 .. n
      BY <1>q, <2>2 DEF TurnAt
    <3> QED BY <1>3, <1>4, <2>2, <3>1
  <2> QED BY <2>1, <2>2
<1>6. order # <<>> /\ Tail(order) \in Seq(Creatures) /\ order[1] \in Creatures
  BY <1>3
<1>7. /\ Append(Tail(order), order[1]) \in Seq(Creatures)
      /\ Len(Append(Tail(order), order[1])) = n
      /\ \A i \in 1 .. n : Append(Tail(order), order[1])[i] =
                             IF i < n THEN order[i + 1] ELSE order[1]
  BY <1>3, <1>6
<1>8. new = Append(Tail(order), order[1])
  <2> DEFINE turned == Append(Tail(order), order[1])
  <2>1. turned \in Seq(Creatures) /\ Len(new) = Len(turned) /\ \A i \in 1 .. Len(new) : new[i] = turned[i]
    BY <1>4, <1>5, <1>7
  <2> HIDE DEF turned
  <2>2. new = turned
    BY <1>4, <2>1, SameListLemma
  <2> QED BY <2>2 DEF turned
<1> QED BY <1>2, <1>p, <1>o, <1>u, <1>6, <1>8

\* removeCreature takes one creature out of the order of turns and changes no other's
\* place in it; when it is the current creature, the turn goes to the second.
LEMMA RemoveOrderLemma ==
  ASSUME NEW s, SlicerOK(s), NEW c \in ToSet(s.list)
  PROVE  OrderOfTurns(SlicerRemove(s, c)) = Erase(OrderOfTurns(s), c)
<1>0. s.list # <<>>
  BY EmptyListLemma DEF SlicerOK, Slicers
<1>l. PICK list \in ListsOf(Creatures) : list = s.list
  BY <1>0, OrderLemma
<1>n. PICK n \in Nat \ {0} : n = Len(list)
  BY <1>0, <1>l, OrderLemma
<1>p. PICK p \in 1 .. n :
        /\ p = PositionOf(list, s.current) /\ list[p] = s.current
        /\ OrderOfTurns(s) = Rotated(list, p)
  BY <1>0, <1>l, <1>n, OrderLemma
<1>k. PICK k \in 1 .. n : k = PositionOf(list, c) /\ list[k] = c
  BY <1>l, <1>n, PositionLemma
<1>j. PICK j \in 1 .. n : TurnAt(n, p, j) = k
  BY TurnAtLemma
<1>s. PICK shorter : shorter = Erase(list, c)
  OBVIOUS
<1>o. PICK order : order = Rotated(list, p)
  OBVIOUS
<1>1. /\ list \in Seq(Creatures)
      /\ shorter \in Seq(Creatures) /\ Len(shorter) = n - 1
      /\ \A i \in 1 .. n - 1 : shorter[i] = IF i < k THEN list[i] ELSE list[i + 1]
  <2>1. list \in Seq(Creatures) /\ k \in 1 .. Len(list) /\ shorter = RemoveAt(list, k)
    BY <1>n, <1>k, <1>s DEF ListsOf, Erase
  <2>2. /\ RemoveAt(list, k) \in Seq(Creatures)
        /\ Len(RemoveAt(list, k)) = Len(list) - 1
        /\ \A i \in 1 .. Len(list) - 1 :
             RemoveAt(list, k)[i] = IF i < k THEN list[i] ELSE list[i + 1]
    BY <2>1, RemoveAtLemma
  <2> QED BY <1>n, <2>1, <2>2
<1>2. /\ order \in ListsOf(Creatures) /\ order \in Seq(Creatures) /\ Len(order) = n
      /\ \A i \in 1 .. n : order[i] = list[TurnAt(n, p, i)]
  <2>1. p \in 1 .. Len(list)
    BY <1>n
  <2>2. /\ Rotated(list, p) \in ListsOf(Creatures)
        /\ Len(Rotated(list, p)) = Len(list)
        /\ \A i \in 1 .. Len(list) : Rotated(list, p)[i] = list[TurnAt(Len(list), p, i)]
    BY <2>1, RotatedLemma
  <2> QED BY <1>n, <1>o, <2>2 DEF ListsOf
<1>e. PICK erased : erased = Erase(order, c)
  OBVIOUS
<1>3. /\ erased \in Seq(Creatures) /\ Len(erased) = n - 1
      /\ \A i \in 1 .. n - 1 : erased[i] = IF i < j THEN order[i] ELSE order[i + 1]
  <2>1. order[j] = c /\ j \in 1 .. Len(order)
    BY <1>k, <1>j, <1>2
  <2>2. c \in ToSet(order)
    BY <1>2, <2>1 DEF ToSet
  <2>3. j = PositionOf(order, c)
    BY <1>2, <2>1, <2>2, PositionLemma
  <2>4. erased = RemoveAt(order, j)
    BY <1>e, <2>3 DEF Erase
  <2>5. /\ RemoveAt(order, j) \in Seq(Creatures)
        /\ Len(RemoveAt(order, j)) = Len(order) - 1
        /\ \A i \in 1 .. Len(order) - 1 :
             RemoveAt(order, j)[i] = IF i < j THEN order[i] ELSE order[i + 1]
    BY <1>2, <2>1, RemoveAtLemma
  <2> QED BY <1>2, <2>4, <2>5
<1>r. PICK removed : removed = SlicerRemove(s, c)
  OBVIOUS
<1>4. SlicerOK(removed) /\ removed.list = shorter /\ shorter \in ListsOf(Creatures)
  <2>1. SlicerOK(removed)
    BY <1>r, SlicerRemoveLemma
  <2>2. removed.list = shorter
    BY <1>l, <1>s, <1>r DEF SlicerRemove
  <2> QED BY <2>1, <2>2 DEF SlicerOK, Slicers
<1>5. CASE n = 1
  <2>1. shorter = <<>> /\ erased = <<>>
    BY <1>1, <1>3, <1>5
  <2>2. OrderOfTurns(removed) = <<>>
    BY <1>4, <2>1 DEF OrderOfTurns
  <2> QED BY <1>p, <1>o, <1>e, <1>r, <2>1, <2>2
<1>6. CASE n > 1
  <2>q. PICK q \in 1 .. n - 1 :
          q = IF k = p THEN IF p = n THEN 1 ELSE p ELSE IF k < p THEN p - 1 ELSE p
    BY <1>6
  <2>1. removed.current = shorter[q]
    <3>1. shorter # <<>>
      BY <1>1, <1>6
    <3>2. removed.current = (IF s.current = c THEN SlicerAdvance(s) ELSE s).current
      BY <1>l, <1>s, <1>r, <3>1 DEF SlicerRemove
    <3>3. CASE k = p
      <4>1. s.current = c
        BY <1>k, <1>p, <3>3
      <4>2. Successor(list, s.current) = IF p = n THEN list[1] ELSE list[p + 1]
        BY <1>n, <1>p DEF Successor
      <4>3. SlicerAdvance(s).current = Successor(list, s.current)
        BY <1>0, <1>l DEF SlicerAdvance, SlicerOK, Slicers
      <4>4. shorter[q] = IF p = n THEN list[1] ELSE list[p + 1]
        BY <1>1, <1>6, <2>q, <3>3
      <4> QED BY <3>2, <4>1, <4>2, <4>3, <4>4
    <3>4. CASE k # p
      <4>1. s.current # c
        BY <1>n, <1>k, <1>p, <3>4, PositionLemma
      <4>2. shorter[q] = list[p]
        BY <1>1, <2>q, <3>4
      <4> QED BY <1>p, <3>2, <4>1, <4>2
    <3> QED BY <3>3, <3>4
  <2>2. OrderOfTurns(removed) = Rotated(shorter, q)
    <3>1. shorter # <<>> /\ q \in 1 .. Len(shorter)
      BY <1>1, <1>6
    <3>2. /\ shorter[q] \in ToSet(shorter)
          /\ OrderOfTurns(removed) = Rotated(shorter, PositionOf(shorter, shorter[q]))
      BY <1>4, <2>1, <3>1, OrderLemma
    <3>3. PositionOf(shorter, shorter[q]) = q
      BY <1>4, <3>1, <3>2, PositionLemma
    <3> QED BY <3>2, <3>3
  <2>m. PICK m \in Nat : m = n - 1
    BY <1>6
  <2>u. PICK new : new = Rotated(shorter, q)
    OBVIOUS
  <2>3. /\ new \in Seq(Creatures) /\ Len(new) = m
        /\ \A i \in 1 .. m : new[i] = shorter[TurnAt(m, q, i)]
    <3>1. q \in 1 .. Len(shorter)
      BY <1>1
    <3>2. /\ Rotated(shorter, q) \in ListsOf(Creatures)
          /\ Len(Rotated(shorter, q)) = Len(shorter)
          /\ \A i \in 1 .. Len(shorter) :
               Rotated(shorter, q)[i] = shorter[TurnAt(Len(shorter), q, i)]
      BY <1>4, <3>1, RotatedLemma
    <3> QED BY <1>1, <2>m, <2>u, <3>2 DEF ListsOf
  <2>4. ASSUME NEW i \in 1 .. m
        PROVE  new[i] = erased[i]
    <3> DEFINE t == TurnAt(m, q, i)
               old == IF i < j THEN i ELSE i + 1
    <3>1. t \in 1 .. n - 1 /\ old \in 1 .. n /\ i \in 1 .. n - 1
      BY <2>m DEF TurnAt
    <3>2. (IF t < k THEN t ELSE t + 1) = TurnAt(n, p, old)
      <4>1. CASE k = p
        <5>1. j = 1
          BY <1>j, <4>1 DEF TurnAt
        <5> QED BY <2>m, <2>q, <4>1, <5>1 DEF TurnAt
      <4>2. CASE k < p
        <5>1. j = k - p + 1 + n
          BY <1>j, <4>2 DEF TurnAt
        <5> QED BY <2>m, <2>q, <4>2, <5>1 DEF TurnAt
      <4>3. CASE k > p
        <5>1. j = k - p + 1
          BY <1>j, <4>3 DEF TurnAt
        <5> QED BY <2>m, <2>q, <4>3, <5>1 DEF TurnAt
      <4> QED BY <4>1, <4>2, <4>3
    <3>3. new[i] = IF t < k THEN list[t] ELSE list[t + 1]
      BY <1>1, <2>3, <3>1
    <3>4. erased[i] = list[TurnAt(n, p, old)]
      BY <1>2, <1>3, <3>1
    <3> QED BY <3>2, <3>3, <3>4
  <2>5. new = erased
    BY <1>3, <2>m, <2>3, <2>4, SameListLemma
  <2> QED BY <1>p, <1>o, <1>e, <1>r, <2>2, <2>u, <2>5
<1> QED BY <1>5, <1>6

\* Exchanging two neighbours of the reaper's queue keeps it a list of the same
\* creatures.
LEMMA SwapLemma ==
  ASSUME NEW S, NEW list \in ListsOf(S), NEW i \in 1 .. Len(list) - 1
  PROVE  /\ SwapWithNext(list, i) \in ListsOf(S)
         /\ ToSet(SwapWithNext(list, i)) = ToSet(list)
<1> DEFINE swapped == SwapWithNext(list, i)
           from(k) == IF k = i THEN i + 1 ELSE IF k = i + 1 THEN i ELSE k
<1>1. /\ list \in Seq(S) /\ NoDuplicates(list)
      /\ Len(list) \in Nat /\ DOMAIN list = 1 .. Len(list)
  BY DEF ListsOf
<1>2. /\ swapped \in Seq(S)
      /\ DOMAIN swapped = 1 .. Len(list)
      /\ \A k \in 1 .. Len(list) : swapped[k] = list[from(k)]
  BY <1>1 DEF SwapWithNext
<1>3. \A k \in 1 .. Len(list) : from(k) \in 1 .. Len(list) /\ from(from(k)) = k
  BY <1>1
<1> HIDE DEF swapped, from
<1>4. NoDuplicates(swapped)
  BY <1>1, <1>2, <1>3 DEF NoDuplicates
<1>5. ToSet(swapped) = ToSet(list)
  BY <1>1, <1>2, <1>3 DEF ToSet
<1> QED BY <1>2, <1>4, <1>5 DEF swapped, ListsOf

\* Moving up or down the reaper's queue keeps everyone in it.
LEMMA ReaperMoveLemma ==
  ASSUME NEW S, NEW list \in ListsOf(S), NEW c, NEW numErrors
  PROVE  /\ ReaperMoveUp(list, c, numErrors) \in ListsOf(S)
         /\ ToSet(ReaperMoveUp(list, c, numErrors)) = ToSet(list)
         /\ ReaperMoveDown(list, c, numErrors) \in ListsOf(S)
         /\ ToSet(ReaperMoveDown(list, c, numErrors)) = ToSet(list)
<1>1. CASE c \notin ToSet(list)
  BY <1>1 DEF ReaperMoveUp, ReaperMoveDown
<1>2. CASE c \in ToSet(list)
  <2>1. PositionOf(list, c) \in 1 .. Len(list) /\ Len(list) \in Nat
    BY <1>2, PositionLemma DEF ListsOf
  <2>2. /\ ReaperMoveUp(list, c, numErrors) \in ListsOf(S)
        /\ ToSet(ReaperMoveUp(list, c, numErrors)) = ToSet(list)
    <3>1. CASE PositionOf(list, c) > 1
      <4>1. PositionOf(list, c) - 1 \in 1 .. Len(list) - 1
        BY <2>1, <3>1
      <4> QED BY <4>1, SwapLemma DEF ReaperMoveUp
    <3>2. CASE ~(PositionOf(list, c) > 1)
      BY <3>2 DEF ReaperMoveUp
    <3> QED BY <3>1, <3>2
  <2>3. /\ ReaperMoveDown(list, c, numErrors) \in ListsOf(S)
        /\ ToSet(ReaperMoveDown(list, c, numErrors)) = ToSet(list)
    <3>1. CASE PositionOf(list, c) < Len(list)
      <4>1. PositionOf(list, c) \in 1 .. Len(list) - 1
        BY <2>1, <3>1
      <4> QED BY <4>1, SwapLemma DEF ReaperMoveDown
    <3>2. CASE ~(PositionOf(list, c) < Len(list))
      BY <3>2 DEF ReaperMoveDown
    <3> QED BY <3>1, <3>2
  <2> QED BY <2>2, <2>3
<1> QED BY <1>1, <1>2

-----------------------------------------------------------------------------
(* The inductive invariant, and every action that preserves it.            *)

\* The inductive invariant.  No conjunct is inductive alone: an embryo enters
\* the queues as a newborn because it was nobody else's, the queues stay equal
\* because they hold the same adults, and the types need both queues to lead to
\* creatures that are in the id map.
IInv == TypeOK /\ QueuesHoldAdults /\ EmbryosHaveOneParent /\ MembersWereBornSo

\* While iterate runs, the current creature is an adult, and so is the head of
\* the reaper's queue: neither is a null pointer.
LEMMA CurrentIsAdult ==
  ASSUME IInv, iterating
  PROVE  /\ Current \in Adults
         /\ HeadCreature(reaper) \in Adults
<1>1. ToSet(slicer.list) = Adults /\ ToSet(reaper) = Adults /\ Adults # {}
  BY DEF IInv, QueuesHoldAdults
<1>2. slicer.list \in ListsOf(Creatures) /\ reaper \in ListsOf(Creatures)
  BY DEF IInv, TypeOK, SlicerOK, Slicers
<1>3. slicer.list # <<>> /\ reaper # <<>>
  BY <1>1, <1>2, EmptyListLemma
<1>4. Current \in ToSet(slicer.list)
  BY <1>3 DEF IInv, TypeOK, SlicerOK, Current, CurrentCreature
<1>5. HeadCreature(reaper) \in ToSet(reaper)
  BY <1>2, <1>3, EmptyListLemma DEF HeadCreature
<1> QED BY <1>1, <1>4, <1>5

\* The record of an embryo.
LEMMA EmbryoLemma ==
  ASSUME NEW length \in Lengths
  PROVE  /\ Embryo(length) \in CreatureRecords
         /\ ~Embryo(length).born
         /\ Embryo(length).daughter = NoCreature
<1>1. 0 \in 0 .. MaxErrors
  BY WorldAssumption
<1>2. /\ FALSE \in BOOLEAN
      /\ NoCreature \in Creatures \union {NoCreature}
      /\ NoGenome \in Genomes \union {NoGenome}
  OBVIOUS
<1> QED BY <1>1, <1>2 DEF Embryo, CreatureRecords

\* The empty world.
LEMMA InitLemma == Init => IInv
<1> SUFFICES ASSUME Init PROVE IInv
  OBVIOUS
<1>1. DOMAIN idMap = {} /\ Adults = {}
  BY DEF Init, Adults
<1>2. <<>> \in ListsOf(Creatures) /\ ToSet(<<>>) = {}
  BY DEF ListsOf, NoDuplicates, ToSet
<1>3. SlicerOK(slicer)
  BY <1>2 DEF Init, EmptySlicer, SlicerOK, Slicers
<1>4. TypeOK
  <2>1. space \in [owners : SUBSET Creatures, used : Int]
    BY DEF Init, EmptySpace
  <2>2. DOMAIN inventory = {}
    BY DEF Init, EmptyInventory
  <2>3. iterating \in BOOLEAN /\ cycles \in Nat /\ slice \in Nat /\ reaper = <<>>
    BY DEF Init
  <2> QED BY <1>1, <1>2, <1>3, <2>1, <2>2, <2>3 DEF TypeOK
<1>5. QueuesHoldAdults
  BY <1>1, <1>2 DEF Init, QueuesHoldAdults, EmptySlicer
<1>6. EmbryosHaveOneParent /\ MembersWereBornSo
  BY <1>1 DEF EmbryosHaveOneParent, MembersWereBornSo
<1> QED BY <1>4, <1>5, <1>6 DEF IInv

\* A creature inserted by hand.
LEMMA InsertCreatureLemma ==
  ASSUME IInv, NEW c \in Creatures, NEW g \in Genomes, InsertCreature(c, g)
  PROVE  IInv'
<1> DEFINE new == Born(Embryo(Length[g]), g, g, FALSE)
<1> USE WorldAssumption, NoCreatureAssumption
<1>1. /\ c \notin DOMAIN idMap
      /\ DOMAIN idMap' = DOMAIN idMap \union {c}
      /\ idMap'[c] = new
      /\ \A x \in DOMAIN idMap : idMap'[x] = idMap[x]
  BY DEF InsertCreature, Put
<1>2. /\ new.born /\ new.daughter = NoCreature /\ new.diverged = FALSE
      /\ new.genotype = g /\ new.birthGenome = g
      /\ new \in CreatureRecords
  <2>1. Length[g] \in Lengths
    BY DEF Lengths
  <2>2. /\ Embryo(Length[g]) \in CreatureRecords
        /\ Embryo(Length[g]).daughter = NoCreature
    BY <2>1, EmbryoLemma
  <2>3. g \in Genomes \union {NoGenome} /\ FALSE \in BOOLEAN
    OBVIOUS
  <2> DEFINE e == Embryo(Length[g])
  <2> HIDE DEF e
  <2>4. e \in CreatureRecords /\ e.daughter = NoCreature /\ new = Born(e, g, g, FALSE)
    BY <2>2 DEF e
  <2> HIDE DEF new
  <2> QED BY <2>3, <2>4 DEF Born, CreatureRecords
<1> HIDE DEF new
<1>3. Adults' = Adults \union {c} /\ c \notin Adults
  BY <1>1, <1>2 DEF Adults
<1>4. /\ SlicerOK(slicer')
      /\ ToSet(slicer'.list) = Adults'
  BY <1>3, SlicerInsertLemma DEF IInv, TypeOK, QueuesHoldAdults, InsertCreature, CreatureAdded
<1>5. /\ reaper' \in ListsOf(Creatures)
      /\ ToSet(reaper') = Adults'
  BY <1>3, AppendLemma
     DEF IInv, TypeOK, QueuesHoldAdults, InsertCreature, CreatureAdded, ReaperAdd
<1>6. /\ DOMAIN inventory' \subseteq Genomes
      /\ \A h \in DOMAIN inventory' : inventory'[h] \in Int
  BY DEF IInv, TypeOK, InsertCreature, CreatureBorn, EnterGenotype, Put
<1>7. space' \in [owners : SUBSET Creatures, used : Int]
  BY DEF IInv, TypeOK, InsertCreature, SpaceInsert
<1>8. TypeOK'
  BY <1>1, <1>2, <1>4, <1>5, <1>6, <1>7 DEF IInv, TypeOK, InsertCreature
<1>9. QueuesHoldAdults'
  BY <1>3, <1>4, <1>5 DEF QueuesHoldAdults, InsertCreature
<1>10. EmbryosHaveOneParent'
  BY <1>1, <1>2, <1>3 DEF IInv, EmbryosHaveOneParent, Daughter, Adults
<1>11. MembersWereBornSo'
  BY <1>1, <1>2, <1>3 DEF IInv, MembersWereBornSo, Adults
<1> QED BY <1>8, <1>9, <1>10, <1>11 DEF IInv

\* A step that changes nobody's parentage, birth or genotype, and leaves the
\* queues with the creatures they had, keeps the invariant if it keeps the types.
LEMMA SameLivesLemma ==
  ASSUME IInv, TypeOK',
         DOMAIN idMap' = DOMAIN idMap,
         \A x \in DOMAIN idMap :
           /\ idMap'[x].born = idMap[x].born
           /\ idMap'[x].daughter = idMap[x].daughter
           /\ idMap'[x].birthGenome = idMap[x].birthGenome
           /\ idMap'[x].genotype = idMap[x].genotype
           /\ idMap'[x].diverged = idMap[x].diverged,
         ToSet(slicer'.list) = ToSet(slicer.list),
         ToSet(reaper') = ToSet(reaper),
         iterating' => Adults # {}
  PROVE  IInv'
<1>1. Adults' = Adults
  BY DEF Adults
<1>2. QueuesHoldAdults'
  BY <1>1 DEF IInv, QueuesHoldAdults
<1>3. EmbryosHaveOneParent'
  BY <1>1 DEF IInv, EmbryosHaveOneParent, Daughter, Adults
<1>4. MembersWereBornSo'
  BY <1>1 DEF IInv, MembersWereBornSo, Adults
<1> QED BY <1>2, <1>3, <1>4 DEF IInv

\* There are adults while an instruction runs and when a slice ends.
LEMMA IteratingLemma ==
  ASSUME IInv, Executes \/ SliceIsOver
  PROVE  /\ Adults # {}
         /\ Current \in Adults
         /\ Current \in DOMAIN idMap
BY CurrentIsAdult DEF IInv, QueuesHoldAdults, Executes, SliceIsOver, Adults

\* The call of iterate.
LEMMA IterateStartLemma ==
  ASSUME IInv, IterateStart
  PROVE  IInv'
<1>1. slicer.list # <<>> /\ Current = slicer.current
  BY NoCreatureAssumption DEF IterateStart, Current, CurrentCreature
<1>2. Current \in Adults
  BY <1>1 DEF IInv, TypeOK, SlicerOK, QueuesHoldAdults
<1>3. idMap[Current].length \in Lengths
  BY <1>2 DEF IInv, TypeOK, CreatureRecords, Adults
<1>4. slice' \in Nat
  BY <1>3, WorldAssumption DEF IInv, TypeOK, IterateStart
<1>5. TypeOK'
  BY <1>4 DEF IInv, TypeOK, IterateStart
<1> QED BY <1>2, <1>5, SameLivesLemma DEF IterateStart

\* Instructions that allocate and divide nothing.
LEMMA ExecuteOtherLemma ==
  ASSUME IInv, ExecuteOther
  PROVE  IInv'
<1>1. TypeOK'
  BY DEF IInv, TypeOK, ExecuteOther, Executes
<1>2. Adults # {}
  BY IteratingLemma DEF ExecuteOther
<1> QED BY <1>1, <1>2, SameLivesLemma DEF ExecuteOther

LEMMA ExecuteFailsLemma ==
  ASSUME IInv, ExecuteFails
  PROVE  IInv'
<1> DEFINE c == Current
<1>1. c \in DOMAIN idMap /\ Adults # {}
  BY IteratingLemma DEF ExecuteFails
<1>2. /\ DOMAIN idMap' = DOMAIN idMap
      /\ \A x \in DOMAIN idMap : x # c => idMap'[x] = idMap[x]
      /\ idMap'[c] = [idMap[c] EXCEPT !.errors = @ + 1]
  BY <1>1 DEF ExecuteFails
<1>3. idMap[c] \in CreatureRecords /\ idMap[c].errors < MaxErrors
  BY <1>1 DEF IInv, TypeOK, ExecuteFails
<1> HIDE DEF c
<1>4. /\ idMap'[c] \in CreatureRecords
      /\ idMap'[c].born = idMap[c].born
      /\ idMap'[c].daughter = idMap[c].daughter
      /\ idMap'[c].birthGenome = idMap[c].birthGenome
      /\ idMap'[c].genotype = idMap[c].genotype
      /\ idMap'[c].diverged = idMap[c].diverged
  BY <1>2, <1>3, WorldAssumption DEF CreatureRecords
<1>5. reaper' \in ListsOf(Creatures) /\ ToSet(reaper') = ToSet(reaper)
  BY ReaperMoveLemma DEF IInv, TypeOK, ExecuteFails
<1>6. TypeOK'
  BY <1>2, <1>4, <1>5 DEF IInv, TypeOK, ExecuteFails, Executes
<1> QED BY <1>1, <1>2, <1>4, <1>5, <1>6, SameLivesLemma DEF ExecuteFails

LEMMA ExecuteCopyLemma ==
  ASSUME IInv, ExecuteCopy
  PROVE  IInv'
<1> DEFINE c == Current
<1>1. c \in DOMAIN idMap /\ Adults # {}
  BY IteratingLemma DEF ExecuteCopy
<1>2. /\ DOMAIN idMap' = DOMAIN idMap
      /\ \A x \in DOMAIN idMap : x # c => idMap'[x] = idMap[x]
      /\ idMap'[c] = [idMap[c] EXCEPT !.copied = TRUE]
  BY <1>1 DEF ExecuteCopy
<1>3. idMap[c] \in CreatureRecords
  BY <1>1 DEF IInv, TypeOK
<1> HIDE DEF c
<1>4. /\ idMap'[c] \in CreatureRecords
      /\ idMap'[c].born = idMap[c].born
      /\ idMap'[c].daughter = idMap[c].daughter
      /\ idMap'[c].birthGenome = idMap[c].birthGenome
      /\ idMap'[c].genotype = idMap[c].genotype
      /\ idMap'[c].diverged = idMap[c].diverged
  BY <1>2, <1>3 DEF CreatureRecords
<1>5. Executes /\ UNCHANGED <<space, slicer, reaper, inventory>>
  BY DEF ExecuteCopy
<1>6. TypeOK'
  BY <1>2, <1>4, <1>5 DEF IInv, TypeOK, Executes
<1> QED BY <1>1, <1>2, <1>4, <1>5, <1>6, SameLivesLemma

\* mal: a new embryo, with the current creature its parent.
LEMMA ExecuteAllocateLemma ==
  ASSUME IInv, NEW d \in Creatures, NEW length \in Lengths, ExecuteAllocate(d, length)
  PROVE  IInv'
<1>0. PICK c : c = Current
  OBVIOUS
<1> DEFINE parent == [idMap[c] EXCEPT !.daughter = d]
           embryo == Embryo(length)
<1>1. c \in DOMAIN idMap /\ c \in Adults /\ Adults # {}
  BY <1>0, IteratingLemma DEF ExecuteAllocate
<1>2. /\ Executes /\ UNCHANGED <<slicer, inventory>>
      /\ d \notin DOMAIN idMap
      /\ Daughter(c) = NoCreature
  BY <1>0 DEF ExecuteAllocate
<1>3. /\ DOMAIN idMap' = DOMAIN idMap \union {d}
      /\ idMap'[d] = embryo
      /\ idMap'[c] = parent
      /\ \A x \in DOMAIN idMap : x # c => idMap'[x] = idMap[x]
  BY <1>0, <1>1, <1>2 DEF ExecuteAllocate, Put
<1>4. idMap[c] \in CreatureRecords
  BY <1>1 DEF IInv, TypeOK
<1>5. embryo \in CreatureRecords /\ ~embryo.born /\ embryo.daughter = NoCreature
  BY EmbryoLemma
<1> HIDE DEF embryo
<1>6. /\ parent \in CreatureRecords
      /\ parent.born = idMap[c].born
      /\ parent.daughter = d
      /\ parent.birthGenome = idMap[c].birthGenome
      /\ parent.genotype = idMap[c].genotype
      /\ parent.diverged = idMap[c].diverged
  BY <1>4 DEF CreatureRecords
<1> HIDE DEF parent
<1>7. Adults' = Adults /\ d \notin Adults
  BY <1>1, <1>2, <1>3, <1>5, <1>6 DEF Adults
<1>8. reaper' \in ListsOf(Creatures) /\ ToSet(reaper') = ToSet(reaper)
  BY <1>0, ReaperMoveLemma DEF IInv, TypeOK, ExecuteAllocate
<1>9. space' \in [owners : SUBSET Creatures, used : Int]
  <2>1. length \in Int
    BY WorldAssumption DEF Lengths
  <2> QED BY <2>1 DEF IInv, TypeOK, ExecuteAllocate, SpaceInsert
<1>10. TypeOK'
  BY <1>1, <1>2, <1>3, <1>5, <1>6, <1>8, <1>9 DEF IInv, TypeOK, Executes
<1>11. QueuesHoldAdults'
  BY <1>1, <1>2, <1>7, <1>8 DEF IInv, QueuesHoldAdults
<1>12. EmbryosHaveOneParent'
  <2>1. Adults \subseteq DOMAIN idMap /\ d # NoCreature
    BY NoCreatureAssumption DEF Adults
  <2>2. \A x \in Adults : idMap[x].daughter # d
    BY <1>2, <2>1 DEF IInv, EmbryosHaveOneParent, Daughter
  <2>3. \A x \in DOMAIN idMap' : idMap'[x].daughter =
          IF x = c THEN d ELSE IF x = d THEN NoCreature ELSE idMap[x].daughter
    BY <1>1, <1>2, <1>3, <1>5, <1>6
  <2>4. \A x \in Adults : idMap'[x].daughter # NoCreature
                            => idMap'[x].daughter \in DOMAIN idMap' \ Adults
    BY <1>3, <1>7, <2>1, <2>3 DEF IInv, EmbryosHaveOneParent, Daughter
  <2>5. \A x \in DOMAIN idMap' \ Adults :
          idMap'[x].daughter = NoCreature /\ \E y \in Adults : idMap'[y].daughter = x
    <3> SUFFICES ASSUME NEW x \in DOMAIN idMap' \ Adults
                 PROVE  /\ idMap'[x].daughter = NoCreature
                        /\ \E y \in Adults : idMap'[y].daughter = x
      OBVIOUS
    <3>1. CASE x = d
      BY <1>1, <1>2, <1>3, <2>3, <3>1
    <3>2. CASE x # d
      <4>1. x \in DOMAIN idMap \ Adults /\ x # c
        BY <1>1, <1>3, <3>2
      <4>2. PICK y \in Adults : idMap[y].daughter = x
        BY <4>1 DEF IInv, EmbryosHaveOneParent, Daughter
      <4>3. y # c /\ y # d
        BY <1>2, <2>1, <4>1, <4>2, NoCreatureAssumption DEF IInv, TypeOK, Daughter
      <4>4. idMap[x].daughter = NoCreature
        BY <4>1 DEF IInv, EmbryosHaveOneParent, Daughter
      <4> QED BY <1>3, <2>1, <2>3, <3>2, <4>1, <4>2, <4>3, <4>4
    <3> QED BY <3>1, <3>2
  <2>6. \A x, y \in Adults :
          idMap'[x].daughter = idMap'[y].daughter /\ idMap'[x].daughter # NoCreature => x = y
    BY <1>3, <1>7, <2>1, <2>2, <2>3 DEF IInv, EmbryosHaveOneParent, Daughter
  <2> QED BY <1>7, <2>4, <2>5, <2>6 DEF EmbryosHaveOneParent, Daughter
<1>13. MembersWereBornSo'
  BY <1>3, <1>6, <1>7 DEF IInv, MembersWereBornSo, Adults
<1> QED BY <1>10, <1>11, <1>12, <1>13 DEF IInv

\* Adults carry their birth genome if they have not diverged; a parent and its
\* newborn, whether or not it bred true.
LEMMA BirthLemma ==
  ASSUME IInv, NEW g \in Genomes, NEW c \in Adults, NEW d \in DOMAIN idMap \ Adults,
         IF BredTrue(c, g) THEN TrueBirth(c, d, g) ELSE DivergentBirth(c, d, g)
  PROVE  /\ DOMAIN idMap' = DOMAIN idMap
         /\ \A x \in DOMAIN idMap : x # c /\ x # d => idMap'[x] = idMap[x]
         /\ \A x \in {c, d} :
              /\ idMap'[x] \in CreatureRecords
              /\ idMap'[x].born
              /\ idMap'[x].daughter = NoCreature
              /\ ~idMap'[x].diverged => idMap'[x].genotype = idMap'[x].birthGenome
<1>1. /\ c \in DOMAIN idMap /\ c # d /\ idMap[c].born
      /\ idMap[c] \in CreatureRecords /\ idMap[d] \in CreatureRecords
      /\ idMap[d].daughter = NoCreature
      /\ ~idMap[c].diverged => idMap[c].genotype = idMap[c].birthGenome
  BY DEF IInv, TypeOK, EmbryosHaveOneParent, MembersWereBornSo, Daughter, Adults
<1>2. CASE BredTrue(c, g)
  <2> DEFINE p == [idMap[c] EXCEPT !.daughter = NoCreature, !.copied = FALSE,
                                   !.genotype = g, !.diverged = FALSE]
             n == [idMap[d] EXCEPT !.born = TRUE, !.birthGenome = g,
                                   !.genotype = g, !.diverged = FALSE]
  <2>1. /\ DOMAIN idMap' = DOMAIN idMap
        /\ \A x \in DOMAIN idMap : x # c /\ x # d => idMap'[x] = idMap[x]
        /\ idMap'[c] = p /\ idMap'[d] = n
    BY <1>1, <1>2 DEF TrueBirth, Born
  <2>2. /\ p \in CreatureRecords /\ p.born = idMap[c].born /\ p.daughter = NoCreature
        /\ p.genotype = g /\ p.birthGenome = idMap[c].birthGenome
    BY <1>1 DEF CreatureRecords
  <2>3. /\ n \in CreatureRecords /\ n.born = TRUE /\ n.daughter = NoCreature
        /\ n.genotype = g /\ n.birthGenome = g
    BY <1>1 DEF CreatureRecords
  <2> HIDE DEF p, n
  <2> QED BY <1>1, <1>2, <2>1, <2>2, <2>3 DEF BredTrue
<1>3. CASE ~BredTrue(c, g)
  <2> DEFINE p == [idMap[c] EXCEPT !.daughter = NoCreature, !.copied = FALSE]
             n == [idMap[d] EXCEPT !.born = TRUE, !.birthGenome = g,
                                   !.genotype = idMap[c].genotype, !.diverged = TRUE]
  <2>1. /\ DOMAIN idMap' = DOMAIN idMap
        /\ \A x \in DOMAIN idMap : x # c /\ x # d => idMap'[x] = idMap[x]
        /\ idMap'[c] = p /\ idMap'[d] = n
    BY <1>1, <1>3 DEF DivergentBirth, Born
  <2>2. /\ p \in CreatureRecords /\ p.born = idMap[c].born /\ p.daughter = NoCreature
        /\ p.genotype = idMap[c].genotype /\ p.birthGenome = idMap[c].birthGenome
        /\ p.diverged = idMap[c].diverged
    BY <1>1 DEF CreatureRecords
  <2>3. /\ n \in CreatureRecords /\ n.born = TRUE /\ n.daughter = NoCreature
        /\ n.diverged = TRUE
    BY <1>1 DEF CreatureRecords
  <2> HIDE DEF p, n
  <2> QED BY <1>1, <2>1, <2>2, <2>3
<1> QED BY <1>2, <1>3

\* divide: the embryo becomes an adult.
LEMMA ExecuteDivideLemma ==
  ASSUME IInv, NEW g \in Genomes, ExecuteDivide(g)
  PROVE  IInv'
<1>0. PICK c : c = Current
  OBVIOUS
<1>00. PICK d : d = idMap[c].daughter
  OBVIOUS
<1>1. c \in Adults /\ c \in DOMAIN idMap
  BY <1>0, IteratingLemma DEF ExecuteDivide
<1>2. /\ Executes /\ UNCHANGED space
      /\ d # NoCreature
      /\ IF BredTrue(c, g) THEN TrueBirth(c, d, g) ELSE DivergentBirth(c, d, g)
      /\ slicer' = SlicerInsert(slicer, d)
      /\ reaper' = ReaperMoveDown(ReaperAdd(reaper, d), c, NumErrors)
  BY <1>0, <1>00 DEF ExecuteDivide, Daughter
<1>3. d \in DOMAIN idMap \ Adults /\ d \in Creatures /\ c # d
  BY <1>00, <1>1, <1>2 DEF IInv, TypeOK, EmbryosHaveOneParent, Daughter
<1>4. /\ DOMAIN idMap' = DOMAIN idMap
      /\ \A x \in DOMAIN idMap : x # c /\ x # d => idMap'[x] = idMap[x]
      /\ \A x \in {c, d} :
           /\ idMap'[x] \in CreatureRecords
           /\ idMap'[x].born
           /\ idMap'[x].daughter = NoCreature
           /\ ~idMap'[x].diverged => idMap'[x].genotype = idMap'[x].birthGenome
  BY <1>1, <1>2, <1>3, BirthLemma
<1>5. Adults' = Adults \union {d}
  BY <1>1, <1>3, <1>4 DEF Adults
<1>6. /\ SlicerOK(slicer')
      /\ ToSet(slicer'.list) = Adults'
  BY <1>2, <1>3, <1>5, SlicerInsertLemma DEF IInv, TypeOK, QueuesHoldAdults
<1>7. /\ reaper' \in ListsOf(Creatures)
      /\ ToSet(reaper') = Adults'
  <2>1. /\ ReaperAdd(reaper, d) \in ListsOf(Creatures)
        /\ ToSet(ReaperAdd(reaper, d)) = Adults'
    BY <1>3, <1>5, AppendLemma DEF IInv, TypeOK, QueuesHoldAdults, ReaperAdd
  <2> QED BY <1>2, <2>1, ReaperMoveLemma
<1>8. /\ DOMAIN inventory' \subseteq Genomes
      /\ \A h \in DOMAIN inventory' : inventory'[h] \in Int
  <2>1. /\ DOMAIN inventory \subseteq Genomes
        /\ \A h \in DOMAIN inventory : inventory[h] \in Int
    BY DEF IInv, TypeOK
  <2>2. CASE BredTrue(c, g)
    <3> DEFINE Book(inv) == DOMAIN inv \subseteq Genomes /\ \A h \in DOMAIN inv : inv[h] \in Int
               entered == EnterGenotype(inventory, g)
               left == IF Reclassified(c, g) /\ ~idMap[c].diverged
                       THEN CreatureDied(entered, idMap[c].genotype) ELSE entered
               joined == IF Reclassified(c, g) THEN CreatureBorn(left, g) ELSE left
    <3>1. inventory' = CreatureBorn(joined, g)
      BY <1>2, <2>2 DEF TrueBirth
    <3>2. Book(entered)
      BY <2>1 DEF EnterGenotype, Put
    <3> HIDE DEF entered
    <3>3. Book(left)
      BY <3>2 DEF CreatureDied
    <3> HIDE DEF left
    <3>4. Book(joined)
      BY <3>3 DEF CreatureBorn
    <3> HIDE DEF joined
    <3> QED BY <3>1, <3>4 DEF CreatureBorn
  <2>3. CASE ~BredTrue(c, g)
    BY <1>2, <2>1, <2>3 DEF DivergentBirth
  <2> QED BY <2>2, <2>3
<1>9. TypeOK'
  BY <1>2, <1>4, <1>6, <1>7, <1>8 DEF IInv, TypeOK, Executes
<1>10. QueuesHoldAdults'
  BY <1>5, <1>6, <1>7 DEF QueuesHoldAdults
<1>11. EmbryosHaveOneParent'
  <2>1. \A x \in DOMAIN idMap : idMap'[x].daughter =
          IF x = c THEN NoCreature ELSE idMap[x].daughter
    BY <1>1, <1>3, <1>4 DEF IInv, EmbryosHaveOneParent, Daughter
  <2>2. \A x \in Adults : x # c => idMap[x].daughter # d
    BY <1>00, <1>1, <1>2 DEF IInv, EmbryosHaveOneParent, Daughter
  <2>3. Adults \subseteq DOMAIN idMap /\ idMap'[d].daughter = NoCreature
    BY <1>4 DEF Adults
  <2>4. \A x \in Adults' : idMap'[x].daughter # NoCreature
                             => idMap'[x].daughter \in DOMAIN idMap' \ Adults'
    BY <1>3, <1>4, <1>5, <2>1, <2>2, <2>3 DEF IInv, EmbryosHaveOneParent, Daughter
  <2>5. \A x \in DOMAIN idMap' \ Adults' :
          idMap'[x].daughter = NoCreature /\ \E y \in Adults' : idMap'[y].daughter = x
    <3> SUFFICES ASSUME NEW x \in DOMAIN idMap' \ Adults'
                 PROVE  /\ idMap'[x].daughter = NoCreature
                        /\ \E y \in Adults' : idMap'[y].daughter = x
      OBVIOUS
    <3>1. x \in DOMAIN idMap \ Adults /\ x # c /\ x # d
      BY <1>1, <1>4, <1>5
    <3>2. idMap[x].daughter = NoCreature
      BY <3>1 DEF IInv, EmbryosHaveOneParent, Daughter
    <3>3. PICK y \in Adults : idMap[y].daughter = x
      BY <3>1 DEF IInv, EmbryosHaveOneParent, Daughter
    <3>4. y # c
      BY <1>00, <3>1, <3>3
    <3> QED BY <1>5, <2>1, <2>3, <3>1, <3>2, <3>3, <3>4
  <2>6. \A x, y \in Adults' :
          idMap'[x].daughter = idMap'[y].daughter /\ idMap'[x].daughter # NoCreature => x = y
    BY <1>3, <1>5, <2>1, <2>3 DEF IInv, EmbryosHaveOneParent, Daughter
  <2> QED BY <2>4, <2>5, <2>6 DEF EmbryosHaveOneParent, Daughter
<1>12. MembersWereBornSo'
  BY <1>4, <1>5, <1>1, <1>3 DEF IInv, MembersWereBornSo, Adults
<1> QED BY <1>9, <1>10, <1>11, <1>12 DEF IInv

\* The next turn goes to one of the creatures s lists, and iterate goes on only
\* if there is one.
LEMMA NextTurnLemma ==
  ASSUME IInv, NEW s, SlicerOK(s), NextTurn(s), SliceIsOver,
         ToSet(s.list) \subseteq DOMAIN idMap',
         \A x \in DOMAIN idMap' : idMap'[x] \in CreatureRecords
  PROVE  /\ SlicerOK(slicer')
         /\ ToSet(slicer'.list) = ToSet(s.list)
         /\ iterating' \in BOOLEAN /\ cycles' \in Nat /\ slice' \in Nat
         /\ iterating' => ToSet(s.list) # {}
<1>1. /\ SlicerOK(slicer')
      /\ slicer'.list = s.list
  BY SlicerAdvanceLemma DEF NextTurn
<1>2. s.list \in ListsOf(Creatures)
  BY DEF SlicerOK, Slicers
<1>3. cycles \in Nat /\ slice \in Nat /\ iterating = TRUE
  BY DEF IInv, TypeOK, SliceIsOver
<1>4. CASE slicer'.list = <<>>
  BY <1>1, <1>3, <1>4 DEF NextTurn, CurrentCreature
<1>5. CASE slicer'.list # <<>>
  <2>1. CurrentCreature(slicer') = slicer'.current /\ slicer'.current \in ToSet(s.list)
    BY <1>1, <1>5 DEF SlicerOK, CurrentCreature
  <2>2. slicer'.current # NoCreature /\ ToSet(s.list) # {}
    BY <1>2, <2>1, EmptyListLemma, NoCreatureAssumption
  <2>3. /\ cycles' = 0
        /\ slice' \in SliceSizes[idMap'[slicer'.current].length]
        /\ UNCHANGED iterating
    BY <2>1, <2>2 DEF NextTurn
  <2>4. idMap'[slicer'.current].length \in Lengths
    BY <2>1 DEF CreatureRecords
  <2> QED BY <1>1, <1>3, <2>2, <2>3, <2>4, WorldAssumption
<1> QED BY <1>4, <1>5

\* The end of a slice after which nobody dies.
LEMMA EndSliceLemma ==
  ASSUME IInv, EndSlice
  PROVE  IInv'
<1>0. PICK s : s = slicer
  OBVIOUS
<1>1. SliceIsOver /\ UNCHANGED <<idMap, space, reaper, inventory>> /\ NextTurn(s)
  BY <1>0 DEF EndSlice
<1>2. SlicerOK(s) /\ ToSet(s.list) = Adults
  BY <1>0 DEF IInv, TypeOK, QueuesHoldAdults
<1>3. ToSet(s.list) \subseteq DOMAIN idMap'
  BY <1>1, <1>2 DEF Adults
<1>4. \A x \in DOMAIN idMap' : idMap'[x] \in CreatureRecords
  BY <1>1 DEF IInv, TypeOK
<1>5. /\ SlicerOK(slicer')
      /\ ToSet(slicer'.list) = Adults
      /\ iterating' \in BOOLEAN /\ cycles' \in Nat /\ slice' \in Nat
      /\ iterating' => Adults # {}
  BY <1>1, <1>2, <1>3, <1>4, NextTurnLemma
<1>6. TypeOK'
  BY <1>1, <1>5 DEF IInv, TypeOK
<1> QED BY <1>0, <1>1, <1>2, <1>5, <1>6, SameLivesLemma

\* Death, and the next turn.
LEMMA EndSliceAndReapLemma ==
  ASSUME IInv, EndSliceAndReap
  PROVE  IInv'
<1>0. PICK doomed : doomed = HeadCreature(reaper)
  OBVIOUS
<1>00. PICK embryo : embryo = idMap[doomed].daughter
  OBVIOUS
<1>000. PICK s : s = SlicerUnlink(SlicerUnlink(slicer, embryo), doomed)
  OBVIOUS
<1>1. /\ SliceIsOver
      /\ inventory' = IF idMap[doomed].diverged THEN inventory
                      ELSE CreatureDied(inventory, idMap[doomed].genotype)
      /\ space' = SpaceRemove(IF embryo = NoCreature THEN space
                              ELSE SpaceRemove(space, embryo, idMap[embryo].length),
                              doomed, idMap[doomed].length)
      /\ idMap' = Restrict(idMap, DOMAIN idMap \ {doomed, embryo})
      /\ reaper' = ReaperUnlink(ReaperUnlink(reaper, embryo), doomed)
      /\ NextTurn(s)
  BY <1>0, <1>00, <1>000 DEF EndSliceAndReap, DieWith, SpaceLeft, CountsLeft, Daughter
<1>2. doomed \in Adults /\ doomed \in DOMAIN idMap
  BY <1>0, <1>1, CurrentIsAdult DEF SliceIsOver, Adults
<1>3. /\ embryo \notin Adults
      /\ embryo # NoCreature => embryo \in DOMAIN idMap
  BY <1>00, <1>2, NoCreatureAssumption DEF IInv, TypeOK, EmbryosHaveOneParent, Daughter, Adults
<1>4. /\ DOMAIN idMap' = DOMAIN idMap \ {doomed, embryo}
      /\ \A x \in DOMAIN idMap' : idMap'[x] = idMap[x]
  BY <1>1 DEF Restrict
<1>5. Adults' = Adults \ {doomed}
  BY <1>3, <1>4 DEF Adults
<1>6. SlicerOK(s) /\ ToSet(s.list) = Adults'
  <2>1. SlicerUnlink(slicer, embryo) = slicer
    BY <1>3 DEF IInv, QueuesHoldAdults, SlicerUnlink
  <2>2. doomed \in ToSet(slicer.list)
    BY <1>2 DEF IInv, QueuesHoldAdults
  <2>3. s = SlicerRemove(slicer, doomed)
    BY <1>000, <2>1, <2>2 DEF SlicerUnlink
  <2> QED BY <1>5, <2>2, <2>3, SlicerRemoveLemma DEF IInv, TypeOK, QueuesHoldAdults
<1>7. reaper' \in ListsOf(Creatures) /\ ToSet(reaper') = Adults'
  <2>1. ReaperUnlink(reaper, embryo) = reaper
    BY <1>3 DEF IInv, QueuesHoldAdults, ReaperUnlink
  <2>2. doomed \in ToSet(reaper)
    BY <1>2 DEF IInv, QueuesHoldAdults
  <2>3. reaper' = Erase(reaper, doomed)
    BY <1>1, <2>1, <2>2 DEF ReaperUnlink, ReaperRemove
  <2> QED BY <1>5, <2>2, <2>3, EraseLemma DEF IInv, TypeOK, QueuesHoldAdults
<1>8. /\ DOMAIN inventory' \subseteq Genomes
      /\ \A g \in DOMAIN inventory' : inventory'[g] \in Int
  BY <1>1 DEF IInv, TypeOK, CreatureDied
<1>9. space' \in [owners : SUBSET Creatures, used : Int]
  <2>1. /\ idMap[doomed].length \in Int
        /\ embryo # NoCreature => idMap[embryo].length \in Int
    BY <1>2, <1>3, WorldAssumption DEF IInv, TypeOK, CreatureRecords, Lengths
  <2>2. PICK m : m = IF embryo = NoCreature THEN space
                     ELSE SpaceRemove(space, embryo, idMap[embryo].length)
    OBVIOUS
  <2>3. m \in [owners : SUBSET Creatures, used : Int]
    BY <2>1, <2>2 DEF IInv, TypeOK, SpaceRemove
  <2> QED BY <1>1, <2>1, <2>2, <2>3 DEF SpaceRemove
<1>10. \A x \in DOMAIN idMap' : idMap'[x] \in CreatureRecords
  BY <1>4 DEF IInv, TypeOK
<1>11. ToSet(s.list) \subseteq DOMAIN idMap'
  BY <1>6 DEF Adults
<1>12. /\ SlicerOK(slicer')
       /\ ToSet(slicer'.list) = Adults'
       /\ iterating' \in BOOLEAN /\ cycles' \in Nat /\ slice' \in Nat
       /\ iterating' => Adults' # {}
  BY <1>1, <1>6, <1>10, <1>11, NextTurnLemma
<1>13. TypeOK'
  BY <1>4, <1>7, <1>8, <1>9, <1>10, <1>12 DEF IInv, TypeOK
<1>14. QueuesHoldAdults'
  BY <1>7, <1>12 DEF QueuesHoldAdults
<1>15. EmbryosHaveOneParent'
  <2>1. \A x \in Adults : x # doomed => idMap[x].daughter # embryo \/ embryo = NoCreature
    BY <1>00, <1>2 DEF IInv, EmbryosHaveOneParent, Daughter
  <2>2. \A x \in Adults' : /\ x \in Adults /\ x \in DOMAIN idMap' /\ x # doomed
                           /\ idMap'[x].daughter = idMap[x].daughter
    BY <1>4, <1>5 DEF Adults
  <2>3. \A x \in Adults' : idMap'[x].daughter # NoCreature
                             => idMap'[x].daughter \in DOMAIN idMap' \ Adults'
    BY <1>2, <1>4, <1>5, <2>1, <2>2 DEF IInv, EmbryosHaveOneParent, Daughter
  <2>4. \A x \in DOMAIN idMap' \ Adults' :
          idMap'[x].daughter = NoCreature /\ \E y \in Adults' : idMap'[y].daughter = x
    <3> SUFFICES ASSUME NEW x \in DOMAIN idMap' \ Adults'
                 PROVE  /\ idMap'[x].daughter = NoCreature
                        /\ \E y \in Adults' : idMap'[y].daughter = x
      OBVIOUS
    <3>1. x \in DOMAIN idMap \ Adults /\ x # embryo
      BY <1>4, <1>5
    <3>2. idMap[x].daughter = NoCreature
      BY <3>1 DEF IInv, EmbryosHaveOneParent, Daughter
    <3>3. PICK y \in Adults : idMap[y].daughter = x
      BY <3>1 DEF IInv, EmbryosHaveOneParent, Daughter
    <3>4. y \in Adults'
      BY <1>00, <1>5, <3>1, <3>3
    <3> QED BY <1>4, <2>2, <3>1, <3>2, <3>3, <3>4
  <2>5. \A x, y \in Adults' :
          idMap'[x].daughter = idMap'[y].daughter /\ idMap'[x].daughter # NoCreature => x = y
    BY <2>2 DEF IInv, EmbryosHaveOneParent, Daughter
  <2> QED BY <2>3, <2>4, <2>5 DEF EmbryosHaveOneParent, Daughter
<1>16. MembersWereBornSo'
  BY <1>4, <1>5 DEF IInv, MembersWereBornSo, Adults
<1> QED BY <1>13, <1>14, <1>15, <1>16 DEF IInv

\* The world is thrown away: what is left is Init's, which is sound.
LEMMA DestroyWorldLemma ==
  ASSUME IInv, DestroyWorld
  PROVE  IInv'
<1>1. iterating' = FALSE
  BY DEF IInv, TypeOK, DestroyWorld
<1>2. DOMAIN idMap' = {} /\ Adults' = {}
  BY DEF DestroyWorld, Adults
<1>3. <<>> \in ListsOf(Creatures) /\ ToSet(<<>>) = {}
  BY DEF ListsOf, NoDuplicates, ToSet
<1>4. slicer' = EmptySlicer /\ reaper' = <<>>
  BY DEF DestroyWorld
<1>5. SlicerOK(slicer') /\ slicer'.list = <<>>
  BY <1>3, <1>4 DEF EmptySlicer, SlicerOK, Slicers
<1>6. TypeOK'
  <2>1. space' \in [owners : SUBSET Creatures, used : Int]
    BY DEF DestroyWorld, EmptySpace
  <2>2. DOMAIN inventory' = {}
    BY DEF DestroyWorld, EmptyInventory
  <2>3. cycles' \in Nat /\ slice' \in Nat
    BY DEF DestroyWorld
  <2> QED BY <1>1, <1>2, <1>3, <1>4, <1>5, <2>1, <2>2, <2>3 DEF TypeOK
<1>7. QueuesHoldAdults'
  BY <1>1, <1>2, <1>3, <1>4, <1>5 DEF QueuesHoldAdults
<1>8. EmbryosHaveOneParent' /\ MembersWereBornSo'
  BY <1>2 DEF EmbryosHaveOneParent, MembersWereBornSo
<1> QED BY <1>6, <1>7, <1>8 DEF IInv

\* A soup file: the slicer read back is the slicer saved.
LEMMA SaveAndLoadLemma ==
  ASSUME IInv, SaveAndLoad
  PROVE  IInv' /\ slicer' = slicer
<1>1. slicer' = slicer
  BY SlicerReloadLemma DEF IInv, TypeOK, SaveAndLoad
<1>2. TypeOK'
  BY <1>1 DEF IInv, TypeOK, SaveAndLoad
<1>3. iterating' => Adults # {}
  BY DEF SaveAndLoad
<1>4. IInv'
  BY <1>1, <1>2, <1>3, SameLivesLemma DEF SaveAndLoad
<1> QED BY <1>1, <1>4

\* IInv is inductive.
LEMMA IInvLemma == IInv /\ [Next]_vars => IInv'
<1> SUFFICES ASSUME IInv, [Next]_vars PROVE IInv'
  OBVIOUS
<1>1. CASE IterateStart
  BY <1>1, IterateStartLemma
<1>2. CASE Execute
  BY <1>2, ExecuteOtherLemma, ExecuteFailsLemma, ExecuteCopyLemma,
     ExecuteAllocateLemma, ExecuteDivideLemma DEF Execute
<1>3. CASE EndSlice
  BY <1>3, EndSliceLemma
<1>4. CASE EndSliceAndReap
  BY <1>4, EndSliceAndReapLemma
<1>5. CASE \E c \in Creatures, g \in Genomes : InsertCreature(c, g)
  BY <1>5, InsertCreatureLemma
<1>6. CASE DestroyWorld
  BY <1>6, DestroyWorldLemma
<1>7. CASE SaveAndLoad
  BY <1>7, SaveAndLoadLemma
<1>8. CASE UNCHANGED vars
  <2>1. TypeOK'
    BY <1>8 DEF IInv, TypeOK, vars
  <2>2. iterating' => Adults # {}
    BY <1>8 DEF IInv, QueuesHoldAdults, vars
  <2>3. /\ DOMAIN idMap' = DOMAIN idMap
        /\ \A x \in DOMAIN idMap :
             /\ idMap'[x].born = idMap[x].born
             /\ idMap'[x].daughter = idMap[x].daughter
             /\ idMap'[x].birthGenome = idMap[x].birthGenome
             /\ idMap'[x].genotype = idMap[x].genotype
             /\ idMap'[x].diverged = idMap[x].diverged
        /\ ToSet(slicer'.list) = ToSet(slicer.list)
        /\ ToSet(reaper') = ToSet(reaper)
    BY <1>8 DEF vars
  <2> QED BY <2>1, <2>2, <2>3, SameLivesLemma
<1> QED BY <1>1, <1>2, <1>3, <1>4, <1>5, <1>6, <1>7, <1>8 DEF Next, Iterate

\* The inductive invariant holds in every reachable state.
THEOREM IInvInvariant == Spec => []IInv
<1>1. Init => IInv
  BY InitLemma
<1>2. IInv /\ [Next]_vars => IInv'
  BY IInvLemma
<1> QED BY <1>1, <1>2, PTL DEF Spec

\* The types of the world's structures, for every value of the constants: above
\* all that mCurrentItem is an item of the slicer's list while it has one, and
\* that neither intrusive list links a creature twice.
THEOREM TypeCorrectness == Spec => []TypeOK
<1>1. IInv => TypeOK
  BY DEF IInv
<1> QED BY <1>1, IInvInvariant, PTL

\* Births, insertions and deaths keep the slicer's list, the reaper's list and
\* the adults of the id map the same, however they interleave with slices.
THEOREM QueuesHoldAdultsAlways == Spec => []QueuesHoldAdults
<1>1. IInv => QueuesHoldAdults
  BY DEF IInv
<1> QED BY <1>1, IInvInvariant, PTL

\* mDaughter of every adult leads to a live embryo that is no one else's, and
\* every embryo is reached: a parent's death or division leaves none behind.
THEOREM EmbryosHaveOneParentAlways == Spec => []EmbryosHaveOneParent
<1>1. IInv => EmbryosHaveOneParent
  BY DEF IInv
<1> QED BY <1>1, IInvInvariant, PTL

\* handleBirth counts a creature under a genotype only if it was born with that
\* genotype's genome.
THEOREM MembersWereBornSoAlways == Spec => []MembersWereBornSo
<1>1. IInv => MembersWereBornSo
  BY DEF IInv
<1> QED BY <1>1, IInvInvariant, PTL
-----------------------------------------------------------------------------
(* The slicer implements RoundRobin.                                       *)

\* Who has turns in the round robin: the creatures of the slicer's list.
LEMMA TurnsLemma ==
  ASSUME IInv
  PROVE  \A c : c \in Turns!Listed <=> c \in ToSet(slicer.list)
<1>1. ToSet(OrderOfTurns(slicer)) = ToSet(slicer.list)
  <2>1. CASE slicer.list = <<>>
    <3>1. OrderOfTurns(slicer) = <<>>
      BY <2>1 DEF OrderOfTurns
    <3> QED BY <2>1, <3>1
  <2>2. CASE slicer.list # <<>>
    BY <2>2, OrderLemma, RotatedLemma DEF IInv, TypeOK
  <2> QED BY <2>1, <2>2
<1> QED BY <1>1 DEF Turns!Listed, TurnOrder, ToSet

\* A newcomer joins the queue of turns.
LEMMA JoinStep ==
  ASSUME IInv, NEW c \in Creatures, c \notin Adults, slicer' = SlicerInsert(slicer, c)
  PROVE  [Turns!Next]_TurnOrder
<1>1. c \notin ToSet(slicer.list) /\ SlicerOK(slicer)
  BY DEF IInv, TypeOK, QueuesHoldAdults
<1>2. TurnOrder' = Append(TurnOrder, c)
  BY <1>1, InsertOrderLemma DEF TurnOrder
<1>3. Turns!Join(c)
  BY <1>1, <1>2, TurnsLemma DEF Turns!Join
<1> QED BY <1>3 DEF Turns!Next

\* The queue after a turn that ends.
LEMMA TurnedLemma ==
  ASSUME NEW s, SlicerOK(s)
  PROVE  OrderOfTurns(SlicerAdvance(s)) = Turns!Turned(OrderOfTurns(s))
<1>1. CASE s.list = <<>>
  <2>1. SlicerAdvance(s) = s /\ OrderOfTurns(s) = <<>>
    BY <1>1 DEF SlicerAdvance, OrderOfTurns
  <2> QED BY <2>1 DEF Turns!Turned
<1>2. CASE s.list # <<>>
  BY <1>2, AdvanceOrderLemma DEF Turns!Turned
<1> QED BY <1>1, <1>2

\* Every step of the world is a step of the round robin, or leaves the order of
\* turns as it is.
LEMMA TurnsStep == IInv /\ [Next]_vars => [Turns!Next]_TurnOrder
<1> SUFFICES ASSUME IInv, [Next]_vars PROVE [Turns!Next]_TurnOrder
  OBVIOUS
<1>0. SlicerOK(slicer) /\ ToSet(slicer.list) = Adults
  BY DEF IInv, TypeOK, QueuesHoldAdults
<1>1. CASE slicer' = slicer
  BY <1>1 DEF TurnOrder
<1>2. CASE \E c \in Creatures, g \in Genomes : InsertCreature(c, g)
  <2>1. PICK c \in Creatures, g \in Genomes : InsertCreature(c, g)
    BY <1>2
  <2>2. c \notin Adults /\ slicer' = SlicerInsert(slicer, c)
    BY <2>1 DEF InsertCreature, CreatureAdded, Adults
  <2> QED BY <2>2, JoinStep
<1>3. CASE \E g \in Genomes : ExecuteDivide(g)
  <2>1. PICK g \in Genomes : ExecuteDivide(g)
    BY <1>3
  <2>d. PICK d : d = Daughter(Current)
    OBVIOUS
  <2>2. /\ Executes /\ d # NoCreature
        /\ slicer' = SlicerInsert(slicer, d)
    BY <2>1, <2>d DEF ExecuteDivide
  <2>3. d \in DOMAIN idMap \ Adults
    BY <2>2, <2>d, IteratingLemma DEF IInv, EmbryosHaveOneParent
  <2>4. d \in Creatures
    BY <2>3 DEF IInv, TypeOK
  <2> QED BY <2>2, <2>3, <2>4, JoinStep
<1>4. CASE EndSlice
  <2>1. slicer' = SlicerAdvance(slicer)
    BY <1>4 DEF EndSlice, NextTurn
  <2>2. Turns!EndTurn
    BY <1>0, <2>1, TurnedLemma DEF Turns!EndTurn, TurnOrder
  <2> QED BY <2>2 DEF Turns!Next
<1>5. CASE EndSliceAndReap
  <2>c. PICK c : c = HeadCreature(reaper)
    OBVIOUS
  <2>s. PICK s : s = SlicerRemove(slicer, c)
    OBVIOUS
  <2>1. c \in ToSet(slicer.list)
    BY <1>0, <1>5, <2>c, CurrentIsAdult DEF EndSliceAndReap, SliceIsOver
  <2>2. slicer' = SlicerAdvance(s)
    <3>1. Daughter(c) \notin ToSet(slicer.list)
      BY <1>0, <2>1, NoCreatureAssumption
         DEF IInv, TypeOK, EmbryosHaveOneParent, Adults
    <3>2. NextTurn(SlicerUnlink(SlicerUnlink(slicer, Daughter(c)), c))
      BY <1>5, <2>c DEF EndSliceAndReap
    <3>3. SlicerUnlink(SlicerUnlink(slicer, Daughter(c)), c) = s
      BY <2>1, <2>s, <3>1 DEF SlicerUnlink
    <3> QED BY <3>2, <3>3 DEF NextTurn
  <2>3. SlicerOK(s) /\ OrderOfTurns(s) = Erase(TurnOrder, c)
    BY <1>0, <2>s, <2>1, SlicerRemoveLemma, RemoveOrderLemma DEF TurnOrder
  <2>4. TurnOrder' = Turns!Turned(Erase(TurnOrder, c))
    BY <2>2, <2>3, TurnedLemma DEF TurnOrder
  <2>5. c \in Turns!Listed /\ c \in Creatures
    BY <1>0, <2>1, TurnsLemma DEF IInv, TypeOK, Adults
  <2>6. Turns!EndTurnWithDeath(c)
    <3>1. Turns!Erase(TurnOrder, c) = Erase(TurnOrder, c)
      BY DEF Turns!Erase, Turns!RemoveAt, Turns!PositionOf, Erase, RemoveAt, PositionOf
    <3> QED BY <2>4, <2>5, <3>1 DEF Turns!EndTurnWithDeath
  <2> QED BY <2>5, <2>6 DEF Turns!Next
<1>6. CASE DestroyWorld
  <2>1. TurnOrder' = <<>>
    BY <1>6 DEF DestroyWorld, EmptySlicer, TurnOrder, OrderOfTurns
  <2> QED BY <2>1 DEF Turns!Next, Turns!Leave
<1>7. CASE SaveAndLoad
  BY <1>1, <1>7, SaveAndLoadLemma
<1>8. CASE IterateStart \/ ExecuteOther \/ ExecuteFails \/ ExecuteCopy
             \/ \E d \in Creatures, length \in Lengths : ExecuteAllocate(d, length)
  BY <1>1, <1>8 DEF IterateStart, ExecuteOther, ExecuteFails, ExecuteCopy, ExecuteAllocate
<1>9. CASE UNCHANGED vars
  BY <1>1, <1>9 DEF vars
<1> QED BY <1>2, <1>3, <1>4, <1>5, <1>6, <1>7, <1>8, <1>9 DEF Next, Iterate, Execute

\* insertCreature, advance and removeCreature, called in the order the world calls
\* them, and saved and loaded in between, give turns in one queue, for every value
\* of the constants: newcomers last, nobody overtaken, and a turn lost only by the
\* creature after one that is reaped on its own turn.
THEOREM ImplementsRoundRobinAlways == Spec => ImplementsRoundRobin
<1>1. Init => Turns!Init
  <2> SUFFICES ASSUME Init PROVE TurnOrder = <<>>
    BY DEF Turns!Init
  <2> QED BY DEF Init, EmptySlicer, TurnOrder, OrderOfTurns
<1>2. IInv /\ [Next]_vars => [Turns!Next]_TurnOrder
  BY TurnsStep
<1> QED BY <1>1, <1>2, IInvInvariant, PTL DEF Spec, ImplementsRoundRobin, Turns!Spec

-----------------------------------------------------------------------------
(* The space in use.                                                       *)

\* Cell map m accounts for the creatures of id map f.
Accounts(m, f) ==
  /\ m.owners = DOMAIN f
  /\ IsFiniteSet(BytesOf(f))
  /\ m.used = Cardinality(BytesOf(f))

\* The bytes of a range.
LEMMA RangeLemma ==
  ASSUME NEW c, NEW n \in Nat
  PROVE  /\ IsFiniteSet({c} \X (1 .. n))
         /\ Cardinality({c} \X (1 .. n)) = n
<1>1. IsFiniteSet({c}) /\ Cardinality({c}) = 1
  BY FS_Singleton
<1>2. IsFiniteSet(1 .. n) /\ Cardinality(1 .. n) = n
  BY FS_Interval
<1>3. /\ IsFiniteSet({c} \X (1 .. n))
      /\ Cardinality({c} \X (1 .. n)) = Cardinality({c}) * Cardinality(1 .. n)
  BY <1>1, <1>2, FS_Product
<1> QED BY <1>1, <1>2, <1>3

\* insertCreature's range adds its length.
LEMMA SpaceInsertLemma ==
  ASSUME NEW m, NEW f, Accounts(m, f), NEW g, NEW c, c \notin DOMAIN f,
         NEW n \in Nat, DOMAIN g = DOMAIN f \union {c}, g[c].length = n,
         \A x \in DOMAIN f : g[x].length = f[x].length
  PROVE  Accounts(SpaceInsert(m, c, n), g)
<1> DEFINE new == {c} \X (1 .. n)
<1>1. BytesOf(g) = BytesOf(f) \union new /\ BytesOf(f) \intersect new = {}
  BY DEF BytesOf
<1>2. IsFiniteSet(new) /\ Cardinality(new) = n
  BY RangeLemma
<1>3. IsFiniteSet(BytesOf(f)) /\ Cardinality(BytesOf(f)) \in Nat
  BY FS_CardinalityType DEF Accounts
<1> HIDE DEF new
<1>4. /\ IsFiniteSet(BytesOf(f) \union new)
      /\ Cardinality(BytesOf(f) \union new)
           = Cardinality(BytesOf(f)) + Cardinality(new) - Cardinality(BytesOf(f) \intersect new)
  BY <1>2, <1>3, FS_Union
<1>5. Cardinality(BytesOf(f) \intersect new) = 0
  BY <1>1, FS_EmptySet
<1> QED BY <1>1, <1>2, <1>3, <1>4, <1>5 DEF Accounts, SpaceInsert

\* removeCreature's range takes its length off.
LEMMA SpaceRemoveLemma ==
  ASSUME NEW m, NEW f, Accounts(m, f), NEW c \in DOMAIN f, f[c].length \in Nat
  PROVE  /\ Accounts(SpaceRemove(m, c, f[c].length), Restrict(f, DOMAIN f \ {c}))
         /\ SpaceRemove(m, c, f[c].length).used \in Nat
         /\ SpaceRemove(m, c, f[c].length).used <= m.used
<1> DEFINE g == Restrict(f, DOMAIN f \ {c})
           old == {c} \X (1 .. f[c].length)
<1>1. DOMAIN g = DOMAIN f \ {c} /\ \A x \in DOMAIN g : g[x] = f[x]
  BY DEF Restrict
<1> HIDE DEF g
<1>2. BytesOf(g) = BytesOf(f) \ old /\ BytesOf(f) \intersect old = old
  BY <1>1 DEF BytesOf
<1>3. IsFiniteSet(old) /\ Cardinality(old) = f[c].length
  BY RangeLemma
<1>4. IsFiniteSet(BytesOf(f)) /\ Cardinality(BytesOf(f)) \in Nat
  BY FS_CardinalityType DEF Accounts
<1> HIDE DEF old
<1>5. /\ IsFiniteSet(BytesOf(f) \ old)
      /\ Cardinality(BytesOf(f) \ old)
           = Cardinality(BytesOf(f)) - Cardinality(BytesOf(f) \intersect old)
  BY <1>4, FS_Difference
<1>6. Cardinality(BytesOf(f) \ old) \in Nat
  BY <1>5, FS_CardinalityType
<1>7. SpaceRemove(m, c, f[c].length)
        = [owners |-> m.owners \ {c}, used |-> m.used - f[c].length]
  BY DEF Accounts, SpaceRemove
<1>8. PICK removed : removed = SpaceRemove(m, c, f[c].length)
  OBVIOUS
<1>9. /\ removed.owners = m.owners \ {c}
      /\ removed.used = m.used - f[c].length
  BY <1>7, <1>8
<1>10. Accounts(removed, g)
  <2>1. removed.owners = DOMAIN g
    BY <1>1, <1>9 DEF Accounts
  <2>2. removed.used = Cardinality(BytesOf(g))
    BY <1>2, <1>3, <1>5, <1>9 DEF Accounts
  <2> QED BY <1>2, <1>5, <2>1, <2>2 DEF Accounts
<1>11. removed.used \in Nat /\ removed.used <= m.used
  BY <1>2, <1>4, <1>6, <1>9, <1>10 DEF Accounts
<1> QED BY <1>8, <1>10, <1>11 DEF g

\* What every reachable state satisfies besides IInv.
SpaceInv == Accounts(space, idMap) /\ space.used <= SoupSize

\* The steps that neither allocate nor free.
LEMMA SpaceSameLemma ==
  ASSUME SpaceInv, space' = space, DOMAIN idMap' = DOMAIN idMap,
         \A x \in DOMAIN idMap : idMap'[x].length = idMap[x].length
  PROVE  SpaceInv'
<1>1. BytesOf(idMap') = BytesOf(idMap)
  BY DEF BytesOf
<1> QED BY <1>1 DEF SpaceInv, Accounts

\* The steps that allocate.
LEMMA SpaceGrowsLemma ==
  ASSUME IInv, SpaceInv, NEW c, NEW n \in Nat, c \notin DOMAIN idMap,
         MayFit(n), space' = SpaceInsert(space, c, n),
         DOMAIN idMap' = DOMAIN idMap \union {c}, idMap'[c].length = n,
         \A x \in DOMAIN idMap : idMap'[x].length = idMap[x].length
  PROVE  SpaceInv'
<1>1. Accounts(space', idMap')
  BY SpaceInsertLemma DEF SpaceInv
<1> QED BY <1>1 DEF SpaceInv, MayFit, SpaceInsert

\* The lengths of the creatures are natural numbers.
LEMMA LengthLemma ==
  ASSUME IInv, NEW c \in DOMAIN idMap
  PROVE  idMap[c].length \in Nat
BY WorldAssumption DEF IInv, TypeOK, CreatureRecords, Lengths

\* A death frees the embryo's space and the creature's.
LEMMA SpaceReapLemma ==
  ASSUME IInv, SpaceInv, EndSliceAndReap
  PROVE  SpaceInv'
<1>0. PICK c : c = HeadCreature(reaper)
  OBVIOUS
<1>d. PICK d : d = Daughter(c)
  OBVIOUS
<1>1. /\ space' = SpaceRemove(IF d = NoCreature THEN space
                              ELSE SpaceRemove(space, d, idMap[d].length),
                              c, idMap[c].length)
      /\ idMap' = Restrict(idMap, DOMAIN idMap \ {c, d})
  BY <1>0, <1>d DEF EndSliceAndReap, DieWith, SpaceLeft
<1>2. c \in Adults /\ c \in DOMAIN idMap /\ c # NoCreature
  BY <1>0, CurrentIsAdult, NoCreatureAssumption
     DEF EndSliceAndReap, SliceIsOver, Adults, IInv, TypeOK
<1>3. d # NoCreature => d \in DOMAIN idMap /\ d # c
  BY <1>d, <1>2 DEF IInv, EmbryosHaveOneParent
<1>4. SoupSize \in Nat /\ idMap[c].length \in Nat
  BY <1>2, LengthLemma, WorldAssumption
<1>5. space.used \in Nat
  BY FS_CardinalityType DEF SpaceInv, Accounts
<1>6. CASE d = NoCreature
  <2>1. DOMAIN idMap \ {c, d} = DOMAIN idMap \ {c}
    BY <1>6, NoCreatureAssumption DEF IInv, TypeOK
  <2>2. /\ space' = SpaceRemove(space, c, idMap[c].length)
        /\ idMap' = Restrict(idMap, DOMAIN idMap \ {c})
    BY <1>1, <1>6, <2>1
  <2>3. Accounts(space', idMap') /\ space'.used \in Nat /\ space'.used <= space.used
    BY <1>2, <1>4, <2>2, SpaceRemoveLemma DEF SpaceInv
  <2> QED BY <1>4, <1>5, <2>3 DEF SpaceInv
<1>7. CASE d # NoCreature
  <2>m. PICK m : m = SpaceRemove(space, d, idMap[d].length)
    OBVIOUS
  <2>f. PICK f : f = Restrict(idMap, DOMAIN idMap \ {d})
    OBVIOUS
  <2>1. idMap[d].length \in Nat
    BY <1>3, <1>7, LengthLemma
  <2>2. Accounts(m, f) /\ m.used \in Nat /\ m.used <= space.used
    BY <1>3, <1>7, <2>m, <2>f, <2>1, SpaceRemoveLemma DEF SpaceInv
  <2>3. /\ DOMAIN f = DOMAIN idMap \ {d} /\ c \in DOMAIN f /\ f[c] = idMap[c]
        /\ Restrict(f, DOMAIN f \ {c}) = Restrict(idMap, DOMAIN idMap \ {c, d})
    BY <1>2, <1>3, <1>7, <2>f DEF Restrict
  <2>4. /\ space' = SpaceRemove(m, c, f[c].length)
        /\ idMap' = Restrict(f, DOMAIN f \ {c})
    BY <1>1, <1>7, <2>m, <2>3
  <2>5. Accounts(space', idMap') /\ space'.used \in Nat /\ space'.used <= m.used
    BY <1>4, <2>2, <2>3, <2>4, SpaceRemoveLemma
  <2> QED BY <1>4, <1>5, <2>2, <2>5 DEF SpaceInv
<1> QED BY <1>6, <1>7

\* A birth changes no length.
LEMMA BirthLengths ==
  ASSUME NEW c, NEW d, NEW g, TrueBirth(c, d, g) \/ DivergentBirth(c, d, g),
         c \in Adults, d \in DOMAIN idMap \ Adults, IInv
  PROVE  /\ DOMAIN idMap' = DOMAIN idMap
         /\ \A x \in DOMAIN idMap : idMap'[x].length = idMap[x].length
<1>1. /\ c \in DOMAIN idMap /\ c # d
      /\ idMap[c] \in CreatureRecords /\ idMap[d] \in CreatureRecords
  BY DEF IInv, TypeOK, Adults
<1>2. DOMAIN idMap' = DOMAIN idMap
  BY DEF TrueBirth, DivergentBirth
<1>3. \A x \in DOMAIN idMap : x # c /\ x # d => idMap'[x] = idMap[x]
  BY DEF TrueBirth, DivergentBirth
<1>4. idMap'[c].length = idMap[c].length /\ idMap'[d].length = idMap[d].length
  <2>1. \/ /\ idMap'[c] = [idMap[c] EXCEPT !.daughter = NoCreature, !.copied = FALSE,
                                           !.genotype = g, !.diverged = FALSE]
           /\ idMap'[d] = Born(idMap[d], g, g, FALSE)
        \/ /\ idMap'[c] = [idMap[c] EXCEPT !.daughter = NoCreature, !.copied = FALSE]
           /\ idMap'[d] = Born(idMap[d], g, idMap[c].genotype, TRUE)
    BY <1>1 DEF TrueBirth, DivergentBirth
  <2>2. idMap'[c].length = idMap[c].length
    BY <1>1, <2>1 DEF CreatureRecords
  <2>3. idMap'[d].length = idMap[d].length
    BY <1>1, <2>1 DEF Born, CreatureRecords
  <2> QED BY <2>2, <2>3
<1> QED BY <1>2, <1>3, <1>4

LEMMA SpaceInvLemma == IInv /\ SpaceInv /\ [Next]_vars => SpaceInv'
<1> SUFFICES ASSUME IInv, SpaceInv, [Next]_vars PROVE SpaceInv'
  OBVIOUS
<1>1. CASE IterateStart \/ ExecuteOther \/ EndSlice \/ SaveAndLoad \/ UNCHANGED vars
  BY <1>1, SpaceSameLemma
     DEF IterateStart, ExecuteOther, EndSlice, SaveAndLoad, vars
<1>2. CASE ExecuteFails \/ ExecuteCopy
  <2>1. Current \in DOMAIN idMap /\ idMap[Current] \in CreatureRecords
    BY <1>2, IteratingLemma DEF ExecuteFails, ExecuteCopy, IInv, TypeOK
  <2>2. /\ DOMAIN idMap' = DOMAIN idMap
        /\ \A x \in DOMAIN idMap : x # Current => idMap'[x] = idMap[x]
        /\ \/ idMap'[Current] = [idMap[Current] EXCEPT !.errors = @ + 1]
           \/ idMap'[Current] = [idMap[Current] EXCEPT !.copied = TRUE]
    BY <1>2, <2>1 DEF ExecuteFails, ExecuteCopy
  <2>3. idMap'[Current].length = idMap[Current].length
    BY <2>1, <2>2 DEF CreatureRecords
  <2> QED BY <1>2, <2>2, <2>3, SpaceSameLemma DEF ExecuteFails, ExecuteCopy
<1>3. CASE \E d \in Creatures, length \in Lengths : ExecuteAllocate(d, length)
  <2>1. PICK d \in Creatures, length \in Lengths : ExecuteAllocate(d, length)
    BY <1>3
  <2>2. Current \in DOMAIN idMap /\ idMap[Current] \in CreatureRecords /\ length \in Nat
    BY <2>1, IteratingLemma, WorldAssumption DEF ExecuteAllocate, IInv, TypeOK, Lengths
  <2>3. /\ d \notin DOMAIN idMap /\ MayFit(length) /\ space' = SpaceInsert(space, d, length)
        /\ DOMAIN idMap' = DOMAIN idMap \union {d}
        /\ idMap'[d] = Embryo(length)
        /\ idMap'[Current] = [idMap[Current] EXCEPT !.daughter = d]
        /\ \A x \in DOMAIN idMap : x # Current => idMap'[x] = idMap[x]
    BY <2>1, <2>2 DEF ExecuteAllocate, Put
  <2>4. /\ idMap'[d].length = length
        /\ idMap'[Current].length = idMap[Current].length
    BY <2>2, <2>3 DEF Embryo, CreatureRecords
  <2> QED BY <2>2, <2>3, <2>4, SpaceGrowsLemma
<1>4. CASE \E g \in Genomes : ExecuteDivide(g)
  <2>1. PICK g \in Genomes : ExecuteDivide(g)
    BY <1>4
  <2>2. Current \in Adults
    BY <2>1, IteratingLemma DEF ExecuteDivide
  <2>3. Daughter(Current) \in DOMAIN idMap \ Adults
    BY <2>1, <2>2 DEF ExecuteDivide, IInv, EmbryosHaveOneParent
  <2>4. /\ TrueBirth(Current, Daughter(Current), g)
             \/ DivergentBirth(Current, Daughter(Current), g)
        /\ space' = space
    BY <2>1 DEF ExecuteDivide
  <2> QED BY <2>2, <2>3, <2>4, BirthLengths, SpaceSameLemma
<1>5. CASE EndSliceAndReap
  BY <1>5, SpaceReapLemma
<1>6. CASE \E c \in Creatures, g \in Genomes : InsertCreature(c, g)
  <2>1. PICK c \in Creatures, g \in Genomes : InsertCreature(c, g)
    BY <1>6
  <2>2. /\ Length[g] \in Nat
        /\ c \notin DOMAIN idMap /\ MayFit(Length[g])
        /\ space' = SpaceInsert(space, c, Length[g])
        /\ DOMAIN idMap' = DOMAIN idMap \union {c}
        /\ idMap'[c] = Born(Embryo(Length[g]), g, g, FALSE)
        /\ \A x \in DOMAIN idMap : idMap'[x] = idMap[x]
    BY <2>1, WorldAssumption DEF InsertCreature, Put
  <2>3. idMap'[c].length = Length[g]
    BY <2>2 DEF Born, Embryo
  <2> QED BY <2>2, <2>3, SpaceGrowsLemma
<1>7. CASE DestroyWorld
  <2>1. space' = EmptySpace /\ BytesOf(idMap') = {} /\ DOMAIN idMap' = {}
    BY <1>7 DEF DestroyWorld, BytesOf
  <2> QED BY <2>1, FS_EmptySet, WorldAssumption DEF SpaceInv, Accounts, EmptySpace
<1> QED BY <1>1, <1>2, <1>3, <1>4, <1>5, <1>6, <1>7 DEF Next, Iterate, Execute

\* mSpaceUsed is what the creatures of the id map own, embryos included, and fits
\* the soup, through every birth, failed birth and death, for every soup size and
\* every length.
THEOREM SpaceAccountedAlways == Spec => []SpaceAccounted
<1>1. Init => SpaceInv
  <2> SUFFICES ASSUME Init PROVE SpaceInv
    OBVIOUS
  <2>1. space = EmptySpace /\ BytesOf(idMap) = {} /\ DOMAIN idMap = {}
    BY DEF Init, BytesOf
  <2> QED BY <2>1, FS_EmptySet, WorldAssumption DEF SpaceInv, Accounts, EmptySpace
<1>2. IInv /\ SpaceInv /\ [Next]_vars => SpaceInv'
  BY SpaceInvLemma
<1>3. SpaceInv => SpaceAccounted
  BY DEF SpaceInv, Accounts, SpaceAccounted
<1> QED BY <1>1, <1>2, <1>3, IInvInvariant, PTL DEF Spec
-----------------------------------------------------------------------------
(* The living of each genotype.                                            *)

\* The adults are finitely many because they are born one at a time.
CountInv == IsFiniteSet(DOMAIN idMap) /\ AliveCountsMembers

\* There are finitely many members of a genotype, and none of a genotype that was
\* never entered.
LEMMA MembersLemma ==
  ASSUME CountInv
  PROVE  /\ \A g : IsFiniteSet(Members(g)) /\ Cardinality(Members(g)) \in Nat
         /\ \A g : g \notin DOMAIN inventory => Members(g) = {}
<1>1. ASSUME NEW g
      PROVE  IsFiniteSet(Members(g)) /\ Cardinality(Members(g)) \in Nat
  <2>1. Members(g) \in SUBSET DOMAIN idMap
    BY DEF Members, Adults
  <2>2. IsFiniteSet(Members(g))
    BY <2>1, FS_Subset DEF CountInv
  <2> QED BY <2>2, FS_CardinalityType
<1>2. ASSUME NEW g, g \notin DOMAIN inventory
      PROVE  Members(g) = {}
  BY <1>2 DEF CountInv, AliveCountsMembers, Members
<1> QED BY <1>1, <1>2

\* A genotype that is entered again keeps its count, and a new one counts nobody.
LEMMA EnterLemma ==
  ASSUME CountInv, NEW g
  PROVE  /\ DOMAIN EnterGenotype(inventory, g) = DOMAIN inventory \union {g}
         /\ EnterGenotype(inventory, g)[g] = Cardinality(Members(g))
         /\ \A h \in DOMAIN inventory : EnterGenotype(inventory, g)[h] = inventory[h]
<1>1. CASE g \in DOMAIN inventory
  BY <1>1 DEF EnterGenotype, CountInv, AliveCountsMembers
<1>2. CASE g \notin DOMAIN inventory
  <2>1. Cardinality(Members(g)) = 0
    BY <1>2, MembersLemma, FS_EmptySet
  <2> QED BY <1>2, <2>1 DEF EnterGenotype, Put
<1> QED BY <1>1, <1>2

\* A newborn is counted under g, which is entered if it is new.
LEMMA CountJoins ==
  ASSUME CountInv, NEW g, NEW c, c \notin Members(g),
         inventory' = CreatureBorn(EnterGenotype(inventory, g), g),
         Members(g)' = Members(g) \union {c},
         \A h : h # g => Members(h)' = Members(h)
  PROVE  /\ DOMAIN inventory' = DOMAIN inventory \union {g}
         /\ \A h \in DOMAIN inventory' : inventory'[h] = Cardinality(Members(h)')
<1>1. DOMAIN inventory' = DOMAIN inventory \union {g}
  BY DEF CreatureBorn, EnterGenotype, Put
<1>2. Cardinality(Members(g) \union {c}) = Cardinality(Members(g)) + 1
  BY MembersLemma, FS_AddElement
<1>3. inventory'[g] = Cardinality(Members(g)')
  <2>1. inventory'[g] = EnterGenotype(inventory, g)[g] + 1
    BY EnterLemma DEF CreatureBorn
  <2> QED BY <1>2, <2>1, EnterLemma
<1>4. ASSUME NEW h \in DOMAIN inventory, h # g
      PROVE  inventory'[h] = Cardinality(Members(h)')
  <2>1. inventory'[h] = inventory[h]
    BY <1>4, EnterLemma DEF CreatureBorn
  <2>2. Members(h)' = Members(h)
    BY <1>4
  <2> QED BY <2>1, <2>2 DEF CountInv, AliveCountsMembers
<1> QED BY <1>1, <1>3, <1>4

\* Steps after which the same adults carry the same genotypes.
LEMMA CountSame ==
  ASSUME CountInv, inventory' = inventory, Adults' = Adults,
         IsFiniteSet(DOMAIN idMap'),
         \A x \in Adults : /\ idMap'[x].genotype = idMap[x].genotype
                           /\ idMap'[x].diverged = idMap[x].diverged
  PROVE  CountInv'
<1>1. \A g : Members(g)' = Members(g)
  BY DEF Members
<1> QED BY <1>1 DEF CountInv, AliveCountsMembers

\* A creature inserted by hand.
LEMMA CountInsert ==
  ASSUME IInv, CountInv, NEW c \in Creatures, NEW g \in Genomes, InsertCreature(c, g)
  PROVE  CountInv'
<1>1. /\ c \notin DOMAIN idMap
      /\ DOMAIN idMap' = DOMAIN idMap \union {c}
      /\ idMap'[c] = Born(Embryo(Length[g]), g, g, FALSE)
      /\ \A x \in DOMAIN idMap : idMap'[x] = idMap[x]
      /\ inventory' = CreatureBorn(EnterGenotype(inventory, g), g)
  BY DEF InsertCreature, Put
<1>2. /\ idMap'[c].born /\ idMap'[c].diverged = FALSE /\ idMap'[c].genotype = g
  BY <1>1 DEF Born, Embryo
<1>3. Adults' = Adults \union {c} /\ c \notin Adults /\ Adults \subseteq DOMAIN idMap
  BY <1>1, <1>2 DEF Adults
<1>4. /\ c \notin Members(g)
      /\ Members(g)' = Members(g) \union {c}
      /\ \A h : h # g => Members(h)' = Members(h)
  BY <1>1, <1>2, <1>3 DEF Members
<1>5. /\ DOMAIN inventory' = DOMAIN inventory \union {g}
      /\ \A h \in DOMAIN inventory' : inventory'[h] = Cardinality(Members(h)')
  BY <1>1, <1>4, CountJoins
<1>6. \A x \in Adults' : idMap'[x].genotype \in DOMAIN inventory'
  BY <1>1, <1>2, <1>3, <1>5 DEF CountInv, AliveCountsMembers
<1>7. IsFiniteSet(DOMAIN idMap')
  BY <1>1, FS_AddElement DEF CountInv
<1> QED BY <1>5, <1>6, <1>7 DEF CountInv, AliveCountsMembers

\* What a birth makes of the parent c and of the newborn d.
LEMMA BirthFields ==
  ASSUME IInv, NEW c \in Adults, NEW d \in DOMAIN idMap \ Adults, NEW g \in Genomes,
         \/ BredTrue(c, g) /\ TrueBirth(c, d, g)
         \/ ~BredTrue(c, g) /\ DivergentBirth(c, d, g)
  PROVE  /\ DOMAIN idMap' = DOMAIN idMap
         /\ \A x \in DOMAIN idMap : x # c /\ x # d => idMap'[x] = idMap[x]
         /\ Adults' = Adults \union {d}
         /\ BredTrue(c, g) => /\ idMap'[c].genotype = g /\ idMap'[c].diverged = FALSE
                              /\ idMap'[d].genotype = g /\ idMap'[d].diverged = FALSE
         /\ ~BredTrue(c, g) => /\ idMap'[c].genotype = idMap[c].genotype
                               /\ idMap'[c].diverged = idMap[c].diverged
                               /\ idMap'[d].genotype = idMap[c].genotype
                               /\ idMap'[d].diverged = TRUE
<1>1. /\ c \in DOMAIN idMap /\ c # d
      /\ idMap[c] \in CreatureRecords /\ idMap[d] \in CreatureRecords
      /\ idMap[c].born
  BY DEF IInv, TypeOK, Adults
<1>2. CASE BredTrue(c, g) /\ TrueBirth(c, d, g)
  <2>1. /\ DOMAIN idMap' = DOMAIN idMap
        /\ \A x \in DOMAIN idMap : x # c /\ x # d => idMap'[x] = idMap[x]
        /\ idMap'[c] = [idMap[c] EXCEPT !.daughter = NoCreature, !.copied = FALSE,
                                        !.genotype = g, !.diverged = FALSE]
        /\ idMap'[d] = Born(idMap[d], g, g, FALSE)
    BY <1>1, <1>2 DEF TrueBirth
  <2>2. /\ idMap'[c].genotype = g /\ idMap'[c].diverged = FALSE
        /\ idMap'[c].born = idMap[c].born
    BY <1>1, <2>1 DEF CreatureRecords
  <2>3. /\ idMap'[d].genotype = g /\ idMap'[d].diverged = FALSE /\ idMap'[d].born = TRUE
    BY <1>1, <2>1 DEF CreatureRecords, Born
  <2>4. Adults' = Adults \union {d}
    BY <1>1, <2>1, <2>2, <2>3 DEF Adults
  <2> QED BY <1>2, <2>1, <2>2, <2>3, <2>4
<1>3. CASE ~BredTrue(c, g) /\ DivergentBirth(c, d, g)
  <2>1. /\ DOMAIN idMap' = DOMAIN idMap
        /\ \A x \in DOMAIN idMap : x # c /\ x # d => idMap'[x] = idMap[x]
        /\ idMap'[c] = [idMap[c] EXCEPT !.daughter = NoCreature, !.copied = FALSE]
        /\ idMap'[d] = Born(idMap[d], g, idMap[c].genotype, TRUE)
    BY <1>1, <1>3 DEF DivergentBirth
  <2>2. /\ idMap'[c].genotype = idMap[c].genotype
        /\ idMap'[c].diverged = idMap[c].diverged
        /\ idMap'[c].born = idMap[c].born
    BY <1>1, <2>1 DEF CreatureRecords
  <2>3. /\ idMap'[d].genotype = idMap[c].genotype /\ idMap'[d].diverged = TRUE
        /\ idMap'[d].born = TRUE
    BY <1>1, <2>1 DEF CreatureRecords, Born
  <2>4. Adults' = Adults \union {d}
    BY <1>1, <2>1, <2>2, <2>3 DEF Adults
  <2> QED BY <1>3, <2>1, <2>2, <2>3, <2>4
<1> QED BY <1>2, <1>3

\* divide counts the newborn that bred true, and its parent too if it had diverged;
\* a parent that had not is counted already, because members were born so.
LEMMA CountDivide ==
  ASSUME IInv, CountInv, NEW g \in Genomes, ExecuteDivide(g)
  PROVE  CountInv'
<1>c. PICK c : c = Current
  OBVIOUS
<1>d. PICK d : d = Daughter(c)
  OBVIOUS
<1>1. c \in Adults
  BY <1>c, IteratingLemma DEF ExecuteDivide
<1>2. /\ d \in DOMAIN idMap \ Adults
      /\ \/ BredTrue(c, g) /\ TrueBirth(c, d, g)
         \/ ~BredTrue(c, g) /\ DivergentBirth(c, d, g)
  BY <1>c, <1>d, <1>1 DEF ExecuteDivide, IInv, EmbryosHaveOneParent
<1>3. /\ DOMAIN idMap' = DOMAIN idMap
      /\ \A x \in DOMAIN idMap : x # c /\ x # d => idMap'[x] = idMap[x]
      /\ Adults' = Adults \union {d}
      /\ BredTrue(c, g) => /\ idMap'[c].genotype = g /\ idMap'[c].diverged = FALSE
                           /\ idMap'[d].genotype = g /\ idMap'[d].diverged = FALSE
      /\ ~BredTrue(c, g) => /\ idMap'[c].genotype = idMap[c].genotype
                            /\ idMap'[c].diverged = idMap[c].diverged
                            /\ idMap'[d].genotype = idMap[c].genotype
                            /\ idMap'[d].diverged = TRUE
  BY <1>1, <1>2, BirthFields
<1>4. IsFiniteSet(DOMAIN idMap')
  BY <1>3 DEF CountInv
<1>5. /\ Adults \subseteq DOMAIN idMap /\ c # d /\ d \notin Adults
      /\ idMap[c].diverged \in BOOLEAN
  BY <1>1, <1>2 DEF Adults, IInv, TypeOK, CreatureRecords
<1>6. CASE ~BredTrue(c, g)
  <2>1. inventory' = inventory
    BY <1>2, <1>6 DEF DivergentBirth
  <2>2. \A h : Members(h)' = Members(h)
    BY <1>1, <1>3, <1>5, <1>6 DEF Members
  <2>3. \A x \in Adults' : idMap'[x].genotype \in DOMAIN inventory'
    BY <1>1, <1>3, <1>5, <1>6, <2>1 DEF CountInv, AliveCountsMembers
  <2> QED BY <1>4, <2>1, <2>2, <2>3 DEF CountInv, AliveCountsMembers
<1>7. CASE BredTrue(c, g) /\ ~idMap[c].diverged
  <2>1. idMap[c].genotype = g
    BY <1>1, <1>7 DEF IInv, MembersWereBornSo, BredTrue
  <2>2. inventory' = CreatureBorn(EnterGenotype(inventory, g), g)
    BY <1>2, <1>7, <2>1 DEF TrueBirth, Reclassified
  <2>3. /\ d \notin Members(g)
        /\ Members(g)' = Members(g) \union {d}
        /\ \A h : h # g => Members(h)' = Members(h)
    BY <1>1, <1>3, <1>5, <1>7, <2>1 DEF Members
  <2>4. /\ DOMAIN inventory' = DOMAIN inventory \union {g}
        /\ \A h \in DOMAIN inventory' : inventory'[h] = Cardinality(Members(h)')
    BY <2>2, <2>3, CountJoins
  <2>5. \A x \in Adults' : idMap'[x].genotype \in DOMAIN inventory'
    BY <1>3, <1>5, <1>7, <2>4 DEF CountInv, AliveCountsMembers
  <2> QED BY <1>4, <2>4, <2>5 DEF CountInv, AliveCountsMembers
<1>8. CASE BredTrue(c, g) /\ idMap[c].diverged
  <2>e. PICK entered : entered = EnterGenotype(inventory, g)
    OBVIOUS
  <2>1. inventory' = CreatureBorn(CreatureBorn(entered, g), g)
    BY <1>2, <1>8, <2>e DEF TrueBirth, Reclassified
  <2>2. /\ DOMAIN entered = DOMAIN inventory \union {g}
        /\ entered[g] = Cardinality(Members(g))
        /\ \A h \in DOMAIN inventory : entered[h] = inventory[h]
    BY <2>e, EnterLemma
  <2>3. /\ c \notin Members(g) /\ d \notin Members(g) \union {c}
        /\ Members(g)' = (Members(g) \union {c}) \union {d}
        /\ \A h : h # g => Members(h)' = Members(h)
    BY <1>1, <1>3, <1>5, <1>8 DEF Members
  <2>4. Cardinality(Members(g)') = Cardinality(Members(g)) + 2
    <3>1. /\ IsFiniteSet(Members(g) \union {c})
          /\ Cardinality(Members(g) \union {c}) = Cardinality(Members(g)) + 1
      BY <2>3, MembersLemma, FS_AddElement
    <3>2. Cardinality((Members(g) \union {c}) \union {d})
            = Cardinality(Members(g) \union {c}) + 1
      BY <2>3, <3>1, FS_AddElement
    <3>3. Cardinality(Members(g)) \in Nat
      BY MembersLemma
    <3> QED BY <2>3, <3>1, <3>2, <3>3
  <2>5. /\ DOMAIN inventory' = DOMAIN inventory \union {g}
        /\ inventory'[g] = entered[g] + 1 + 1
        /\ \A h \in DOMAIN inventory : h # g => inventory'[h] = inventory[h]
    BY <2>1, <2>2 DEF CreatureBorn
  <2>6. inventory'[g] = Cardinality(Members(g)')
    BY <2>2, <2>4, <2>5, MembersLemma
  <2>7. \A h \in DOMAIN inventory' : inventory'[h] = Cardinality(Members(h)')
    BY <2>3, <2>5, <2>6 DEF CountInv, AliveCountsMembers
  <2>8. \A x \in Adults' : idMap'[x].genotype \in DOMAIN inventory'
    BY <1>3, <1>5, <1>8, <2>5 DEF CountInv, AliveCountsMembers
  <2> QED BY <1>4, <2>7, <2>8 DEF CountInv, AliveCountsMembers
<1> QED BY <1>6, <1>7, <1>8

\* A death takes the dead off the count it was in, if it was in any.
LEMMA CountReap ==
  ASSUME IInv, CountInv, EndSliceAndReap
  PROVE  CountInv'
<1>0. PICK c : c = HeadCreature(reaper)
  OBVIOUS
<1>d. PICK d : d = Daughter(c)
  OBVIOUS
<1>1. /\ inventory' = IF idMap[c].diverged THEN inventory
                      ELSE CreatureDied(inventory, idMap[c].genotype)
      /\ idMap' = Restrict(idMap, DOMAIN idMap \ {c, d})
  BY <1>0, <1>d DEF EndSliceAndReap, DieWith, CountsLeft
<1>2. c \in Adults /\ d \notin Adults
  BY <1>0, <1>d, CurrentIsAdult, NoCreatureAssumption
     DEF EndSliceAndReap, SliceIsOver, Adults, IInv, TypeOK, EmbryosHaveOneParent
<1>3. /\ DOMAIN idMap' = DOMAIN idMap \ {c, d}
      /\ \A x \in DOMAIN idMap' : idMap'[x] = idMap[x]
  BY <1>1 DEF Restrict
<1>4. Adults' = Adults \ {c}
  BY <1>2, <1>3 DEF Adults
<1>5. IsFiniteSet(DOMAIN idMap')
  BY <1>3, FS_Subset DEF CountInv
<1>6. /\ DOMAIN inventory' = DOMAIN inventory
      /\ \A x \in Adults' : idMap'[x].genotype \in DOMAIN inventory'
  BY <1>1, <1>3, <1>4 DEF CountInv, AliveCountsMembers, CreatureDied, Adults
<1>7. \A h : Members(h)' = Members(h) \ {c}
  BY <1>3, <1>4 DEF Members, Adults
<1>8. ASSUME NEW h \in DOMAIN inventory
      PROVE  inventory'[h] = Cardinality(Members(h)')
  <2>1. Cardinality(Members(h) \ {c}) =
          IF c \in Members(h) THEN Cardinality(Members(h)) - 1 ELSE Cardinality(Members(h))
    BY MembersLemma, FS_RemoveElement
  <2>2. c \in Members(h) <=> ~idMap[c].diverged /\ idMap[c].genotype = h
    BY <1>2 DEF Members
  <2>3. inventory'[h] = IF ~idMap[c].diverged /\ idMap[c].genotype = h
                        THEN inventory[h] - 1 ELSE inventory[h]
    BY <1>1 DEF CreatureDied
  <2>4. inventory[h] = Cardinality(Members(h))
    BY DEF CountInv, AliveCountsMembers
  <2> QED BY <1>7, <2>1, <2>2, <2>3, <2>4
<1> QED BY <1>5, <1>6, <1>8 DEF CountInv, AliveCountsMembers

LEMMA CountInvLemma == IInv /\ CountInv /\ [Next]_vars => CountInv'
<1> SUFFICES ASSUME IInv, CountInv, [Next]_vars PROVE CountInv'
  OBVIOUS
<1>0. IsFiniteSet(DOMAIN idMap)
  BY DEF CountInv
<1>1. CASE IterateStart \/ ExecuteOther \/ EndSlice \/ SaveAndLoad \/ UNCHANGED vars
  <2>1. idMap' = idMap /\ inventory' = inventory
    BY <1>1 DEF IterateStart, ExecuteOther, EndSlice, SaveAndLoad, vars
  <2>2. Adults' = Adults
    BY <2>1 DEF Adults
  <2> QED BY <1>0, <2>1, <2>2, CountSame
<1>2. CASE ExecuteFails \/ ExecuteCopy
  <2>1. Current \in DOMAIN idMap /\ idMap[Current] \in CreatureRecords
    BY <1>2, IteratingLemma DEF ExecuteFails, ExecuteCopy, IInv, TypeOK
  <2>2. /\ DOMAIN idMap' = DOMAIN idMap /\ inventory' = inventory
        /\ \A x \in DOMAIN idMap : x # Current => idMap'[x] = idMap[x]
        /\ \/ idMap'[Current] = [idMap[Current] EXCEPT !.errors = @ + 1]
           \/ idMap'[Current] = [idMap[Current] EXCEPT !.copied = TRUE]
    BY <1>2, <2>1 DEF ExecuteFails, ExecuteCopy
  <2>3. /\ idMap'[Current].genotype = idMap[Current].genotype
        /\ idMap'[Current].diverged = idMap[Current].diverged
        /\ idMap'[Current].born = idMap[Current].born
    BY <2>1, <2>2 DEF CreatureRecords
  <2>4. Adults' = Adults /\ Adults \subseteq DOMAIN idMap
    BY <2>2, <2>3 DEF Adults
  <2> QED BY <1>0, <2>2, <2>3, <2>4, CountSame
<1>3. CASE \E d \in Creatures, length \in Lengths : ExecuteAllocate(d, length)
  <2>1. PICK d \in Creatures, length \in Lengths : ExecuteAllocate(d, length)
    BY <1>3
  <2>2. Current \in DOMAIN idMap /\ idMap[Current] \in CreatureRecords
    BY <2>1, IteratingLemma DEF ExecuteAllocate, IInv, TypeOK
  <2>3. /\ d \notin DOMAIN idMap /\ inventory' = inventory
        /\ DOMAIN idMap' = DOMAIN idMap \union {d}
        /\ idMap'[d] = Embryo(length)
        /\ idMap'[Current] = [idMap[Current] EXCEPT !.daughter = d]
        /\ \A x \in DOMAIN idMap : x # Current => idMap'[x] = idMap[x]
    BY <2>1, <2>2 DEF ExecuteAllocate, Put
  <2>4. /\ ~idMap'[d].born
        /\ idMap'[Current].genotype = idMap[Current].genotype
        /\ idMap'[Current].diverged = idMap[Current].diverged
        /\ idMap'[Current].born = idMap[Current].born
    BY <2>2, <2>3 DEF Embryo, CreatureRecords
  <2>5. Adults' = Adults /\ Adults \subseteq DOMAIN idMap
    BY <2>3, <2>4 DEF Adults
  <2>6. IsFiniteSet(DOMAIN idMap')
    BY <1>0, <2>3, FS_AddElement
  <2> QED BY <2>3, <2>4, <2>5, <2>6, CountSame
<1>4. CASE \E g \in Genomes : ExecuteDivide(g)
  BY <1>4, CountDivide
<1>5. CASE EndSliceAndReap
  BY <1>5, CountReap
<1>6. CASE \E c \in Creatures, g \in Genomes : InsertCreature(c, g)
  BY <1>6, CountInsert
<1>7. CASE DestroyWorld
  <2>1. DOMAIN idMap' = {} /\ DOMAIN inventory' = {} /\ Adults' = {}
    BY <1>7 DEF DestroyWorld, EmptyInventory, Adults
  <2> QED BY <2>1, FS_EmptySet DEF CountInv, AliveCountsMembers
<1> QED BY <1>1, <1>2, <1>3, <1>4, <1>5, <1>6, <1>7 DEF Next, Iterate, Execute

\* mNumAlive of every genotype is the number of the living that carry it, through
\* births, divergence, reclassification of parents and deaths, for any genomes.
THEOREM AliveCountsMembersAlways == Spec => []AliveCountsMembers
<1>1. Init => CountInv
  <2> SUFFICES ASSUME Init PROVE CountInv
    OBVIOUS
  <2>1. DOMAIN idMap = {} /\ DOMAIN inventory = {} /\ Adults = {}
    BY DEF Init, EmptyInventory, Adults
  <2> QED BY <2>1, FS_EmptySet DEF CountInv, AliveCountsMembers
<1>2. IInv /\ CountInv /\ [Next]_vars => CountInv'
  BY CountInvLemma
<1>3. CountInv => AliveCountsMembers
  BY DEF CountInv
<1> QED BY <1>1, <1>2, <1>3, IInvInvariant, PTL DEF Spec
=============================================================================
