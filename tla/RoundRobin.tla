----------------------------- MODULE RoundRobin -----------------------------
(***************************************************************************)
(* What the time slicer promises: creatures take turns in one queue, from  *)
(* the head, whose turn it is, to the last.  Newcomers join at the end, so *)
(* that all who are there have a turn first; a turn that ends sends the    *)
(* head to the end; nobody else ever changes places.                       *)
(***************************************************************************)
EXTENDS CreatureLists

CONSTANT Creatures

VARIABLE queue

Listed == {queue[i] : i \in DOMAIN queue}

\* The head goes to the end.
Turned(q) == IF q = <<>> THEN q ELSE Append(Tail(q), Head(q))

Init == queue = <<>>

Join(c) == c \notin Listed /\ queue' = Append(queue, c)

EndTurn == queue' = Turned(queue)

\* A turn ends with a death.  When it is the death of the head, the turn that
\* ends is that of the next, who has had none of it: the only turn that is lost.
EndTurnWithDeath(c) == c \in Listed /\ queue' = Turned(Erase(queue, c))

Leave == queue' = <<>>

Next == /\ queue' # queue
        /\ \/ EndTurn
           \/ Leave
           \/ \E c \in Creatures : Join(c) \/ EndTurnWithDeath(c)

Spec == Init /\ [][Next]_queue
=============================================================================
