---------------------------- MODULE CreatureLists ----------------------------
(***************************************************************************)
(* The intrusive doubly linked lists that the engine threads through its   *)
(* creatures (boost::intrusive::list with a member hook): SlicerList and   *)
(* ReaperList.  A list is a sequence without duplicates, because a hook is  *)
(* linked into at most one list of its kind; an iterator is the element it *)
(* points at.                                                              *)
(***************************************************************************)
EXTENDS Integers, SequencesExt

\* iterator_to: the position of an element that is linked into the list.
PositionOf(list, c) == CHOOSE i \in DOMAIN list : list[i] = c

\* erase(iterator_to(c)).
Erase(list, c) == RemoveAt(list, PositionOf(list, c))

\* insert(before, c): c goes in front of the element `before`.
InsertBefore(list, before, c) == InsertAt(list, PositionOf(list, before), c)

\* The hook of every element is linked once: no creature is in the list twice.
NoDuplicates(list) == \A i, j \in DOMAIN list : list[i] = list[j] => i = j

\* std::map::operator[]: the map f with the entry of x set to v.
Put(f, x, v) == [y \in DOMAIN f \union {x} |-> IF y = x THEN v ELSE f[y]]

\* Duplicate-free lists of members of S.
ListsOf(S) == {list \in Seq(S) : NoDuplicates(list)}
=============================================================================
