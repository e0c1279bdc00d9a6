------------------------------- MODULE DataLog -------------------------------
(***************************************************************************)
(* What the graphs show: a logger that the world's DataCollector calls     *)
(* every so many cycles of the time slicer, and that makes room by         *)
(* dropping every other entry and collecting half as often.                *)
(*                                                                         *)
(* The loggers of a world are all called at once and all alike but for     *)
(* the value of an entry, which is left out; one stands for them.          *)
(***************************************************************************)
EXTENDS Integers, Sequences

CONSTANTS CollectionCycles,  \* mCollectionCycles
          MaxDataCount,      \* mMaxDataCount
          MaxCycle           \* bound: how many cycles the slicer makes

\* 20 and 500.  An odd MaxDataCount would have pruneData read past the end.
ASSUME DataLogAssumption ==
  /\ CollectionCycles \in Nat \ {0}
  /\ MaxDataCount \in Nat \ {0} /\ MaxDataCount % 2 = 0
  /\ MaxCycle \in Nat

VARIABLES cycle,     \* TimeSlicer::mCycleCount
          executed,  \* whether mTotalInstructions is not 0
          next,      \* DataCollector::mNextCollectionCycle
          log        \* the logger

vars == <<cycle, executed, next, log>>

EmptyLog == [calls |-> 0,      \* mCallCount
             nextCall |-> 0,   \* mNextCollectionCount
             interval |-> 1,   \* mCollectionInterval
             data |-> <<>>]    \* mData

Init == /\ cycle = 0
        /\ executed = FALSE
        /\ next = 0
        /\ log = EmptyLog

\* Mutants of Pruned: the even entries are kept; it is one entry late.
PrunedOdd(l) ==
  IF Len(l.data) <= MaxDataCount THEN l
  ELSE [l EXCEPT !.data = [i \in 1 .. Len(l.data) \div 2 |-> l.data[2 * i]],
                 !.interval = 2 * @]
PrunedLate(l) ==
  IF Len(l.data) <= MaxDataCount + 1 THEN l
  ELSE [l EXCEPT !.data = [i \in 1 .. Len(l.data) \div 2 |-> l.data[2 * i - 1]],
                 !.interval = 2 * @]

\* pruneData, when the limit is exceeded
Pruned(l) ==
  IF Len(l.data) <= MaxDataCount THEN l
  ELSE [l EXCEPT !.data = [i \in 1 .. Len(l.data) \div 2 + 1 |-> l.data[2 * i - 1]],
                 !.interval = 2 * @]

\* An entry: the call that made it, and its cycle.
Logged(l, c) == [l EXCEPT !.data = Append(@, [call |-> l.calls, cycle |-> c])]

\* SimpleDataLogger::collect
Collected(l, c) ==
  IF l.calls = l.nextCall
  THEN LET p == Pruned(Logged(l, c))
       IN  [p EXCEPT !.nextCall = p.calls + p.interval, !.calls = @ + 1]
  ELSE [l EXCEPT !.calls = @ + 1]

\* collectCyclicalData, if timeForSlicerCycleDataCollection
CollectAt(c) ==
  IF c >= next THEN /\ log' = Collected(log, c)
                    /\ next' = c + CollectionCycles
               ELSE UNCHANGED <<log, next>>

\* iterate is called and nothing was executed yet.
FirstIterate == /\ ~executed
                /\ executed' = TRUE
                /\ CollectAt(cycle)
                /\ UNCHANGED cycle

\* iterate, where advance returns true.
CycleEnds == /\ executed
             /\ cycle < MaxCycle
             /\ cycle' = cycle + 1
             /\ CollectAt(cycle + 1)
             /\ UNCHANGED executed

\* Mutant of NextWhenLoaded: the count starts over.
NextAfterLoading == cycle + CollectionCycles

\* wasDeserialized
NextWhenLoaded == cycle

\* The world is saved, and loaded in a new document.  The log comes with it, unless
\* the archive has none, as the command line's.
Reload == /\ next' = NextWhenLoaded
          /\ log' \in {log, EmptyLog}
          /\ UNCHANGED <<cycle, executed>>

Next == FirstIterate \/ CycleEnds \/ Reload

Spec == Init /\ [][Next]_vars

-----------------------------------------------------------------------------
(* What must hold.                                                         *)

Entries == [call : Nat, cycle : Nat]

\* Types; the log keeps its limit.
TypeOK ==
  /\ cycle \in Nat
  /\ executed \in BOOLEAN
  /\ next \in Nat
  /\ log \in [calls : Nat, nextCall : Nat, interval : Nat \ {0}, data : Seq(Entries)]
  /\ Len(log.data) <= MaxDataCount

\* However often the log was pruned, its entries are those of every interval-th
\* call from the first on, up to the last call, and it was pruned no more than
\* it had to be.
EvenlySpaced ==
  /\ \A i \in DOMAIN log.data : log.data[i].call = (i - 1) * log.interval
  /\ log.nextCall = Len(log.data) * log.interval
  /\ log.calls <= log.nextCall
  /\ log.interval > 1 => 2 * Len(log.data) > MaxDataCount

\* No entry is further from the one before, nor the present from the last, than the
\* slicer's cycles between calls allow, although a reload starts a new count of
\* them.
MaxGap == log.interval * CollectionCycles

GapsBounded ==
  LET data == log.data
  IN  /\ \A i \in 1 .. Len(data) - 1 :
           /\ data[i].cycle < data[i + 1].cycle
           /\ data[i + 1].cycle <= data[i].cycle + MaxGap
      /\ data # <<>> => cycle < data[Len(data)].cycle + MaxGap
=============================================================================
