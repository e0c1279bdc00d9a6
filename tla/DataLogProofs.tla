---------------------------- MODULE DataLogProofs ----------------------------
(***************************************************************************)
(* DataLog keeps its limit, its spacing and its gaps for every interval of *)
(* collection, every even limit and every number of cycles.                *)
(***************************************************************************)
EXTENDS DataLog, TLAPS

Logs == [calls : Nat, nextCall : Nat, interval : Nat \ {0}, data : Seq(Entries)]

\* The parts of EvenlySpaced and GapsBounded about the entries of any log.
Spaced(l) == \A i \in DOMAIN l.data : l.data[i].call = (i - 1) * l.interval
Ascending(l) ==
  \A i \in 1 .. Len(l.data) - 1 :
    /\ l.data[i].cycle < l.data[i + 1].cycle
    /\ l.data[i + 1].cycle <= l.data[i].cycle + l.interval * CollectionCycles

\* What the slicer's cycles may reach by the next call: as many as the calls since the
\* newest entry account for.
Newest(l) == l.data[Len(l.data)]
Horizon(l) == Newest(l).cycle + (l.calls - Newest(l).call) * CollectionCycles

\* A log in a cycle: its spacing, its gaps, and that its calls keep up with cycles.
LogOK(l, c) ==
  /\ l \in Logs
  /\ Len(l.data) <= MaxDataCount
  /\ Spaced(l)
  /\ Ascending(l)
  /\ l.nextCall = Len(l.data) * l.interval
  /\ l.calls <= l.nextCall
  /\ l.interval > 1 => 2 * Len(l.data) > MaxDataCount
  /\ l.data = <<>> => l.calls = 0
  /\ l.data # <<>> => Newest(l).cycle <= c /\ Newest(l).call < l.calls /\ c < Horizon(l)

\* Before the first instruction there is no entry; the next collection comes no later
\* than the calls account for.
IInv ==
  /\ cycle \in Nat /\ next \in Nat /\ executed \in BOOLEAN
  /\ LogOK(log, cycle)
  /\ ~executed => log.data = <<>>
  /\ log.data # <<>> => next <= Horizon(log)

-----------------------------------------------------------------------------
(* Products.                                                               *)

LEMMA Doubled == \A a, b \in Nat : (2 * a) * b = a * (2 * b)
  BY SMT

LEMMA OneMore == \A a, b \in Nat : (a + 1) * b = a * b + b
  BY SMT

LEMMA TimesMonotone ==
  ASSUME NEW a \in Nat, NEW b \in Nat, NEW c \in Nat, a <= b
  PROVE  a * c <= b * c
<1>1. PICK d \in Nat : b = a + d  OBVIOUS
<1>2. b * c = a * c + d * c  BY <1>1, SMT
<1>3. d * c \in Nat /\ a * c \in Nat  OBVIOUS
<1>. QED BY <1>2, <1>3

-----------------------------------------------------------------------------
(* Pruning keeps every other entry, the first and the newest among them.   *)

LEMMA PrunedLog ==
  ASSUME NEW l \in Logs, Len(l.data) = MaxDataCount + 1, Spaced(l), Ascending(l),
         NEW p, p = Pruned(l)
  PROVE  /\ p \in Logs
         /\ p.calls = l.calls /\ p.nextCall = l.nextCall /\ p.interval = 2 * l.interval
         /\ 2 * Len(p.data) = MaxDataCount + 2
         /\ p.data[Len(p.data)] = l.data[Len(l.data)]
         /\ Spaced(p)
         /\ Ascending(p)
<1>1. PICK half \in Nat \ {0} : MaxDataCount = 2 * half
  <2>1. MaxDataCount \div 2 \in Nat \ {0} /\ MaxDataCount = 2 * (MaxDataCount \div 2)
    BY DataLogAssumption
  <2>. QED BY <2>1
<1>2. Len(l.data) = 2 * half + 1 /\ Len(l.data) \div 2 + 1 = half + 1
  BY <1>1
<1>3. l.data \in Seq(Entries) /\ l.interval \in Nat \ {0}  BY DEF Logs
<1>4. \A i \in 1 .. half + 1 : 2 * i - 1 \in 1 .. Len(l.data) /\ l.data[2 * i - 1] \in Entries
  BY <1>2, <1>3
<1>5. p = [l EXCEPT !.data = [i \in 1 .. half + 1 |-> l.data[2 * i - 1]],
                    !.interval = 2 * l.interval]
  <2>1. ~(Len(l.data) <= MaxDataCount)  BY <1>1
  <2>2. p = [l EXCEPT !.data = [i \in 1 .. Len(l.data) \div 2 + 1 |-> l.data[2 * i - 1]],
                      !.interval = 2 * l.interval]
    BY <2>1, Zenon DEF Pruned
  <2>. QED BY <2>2, <1>2, Zenon
<1>6. p.data = [i \in 1 .. half + 1 |-> l.data[2 * i - 1]] /\ p.interval = 2 * l.interval
      /\ p.calls = l.calls /\ p.nextCall = l.nextCall
  BY <1>5 DEF Logs
<1>7. p.data \in Seq(Entries) /\ Len(p.data) = half + 1
  BY <1>4, <1>6
<1>8. p \in Logs
  <2>1. p.interval \in Nat \ {0}  BY <1>3, <1>6
  <2>2. p = [calls |-> l.calls, nextCall |-> l.nextCall, interval |-> 2 * l.interval, data |-> p.data]
    BY <1>5, <1>6 DEF Logs
  <2>. QED BY <1>6, <1>7, <2>1, <2>2 DEF Logs
<1>9. p.data[Len(p.data)] = l.data[Len(l.data)]
  BY <1>2, <1>6, <1>7
<1>10. Spaced(p)
  <2>. SUFFICES ASSUME NEW i \in 1 .. half + 1 PROVE p.data[i].call = (i - 1) * p.interval
    BY <1>6 DEF Spaced
  <2>1. p.data[i].call = (2 * i - 1 - 1) * l.interval  BY <1>3, <1>4, <1>6 DEF Spaced
  <2>2. 2 * i - 1 - 1 = 2 * (i - 1) /\ i - 1 \in Nat  OBVIOUS
  <2>3. (2 * (i - 1)) * l.interval = (i - 1) * (2 * l.interval)  BY <2>2, <1>3, Doubled
  <2>. QED BY <2>1, <2>2, <2>3, <1>6
<1>11. Ascending(p)
  <2>. SUFFICES ASSUME NEW i \in 1 .. half
                PROVE  /\ p.data[i].cycle < p.data[i + 1].cycle
                       /\ p.data[i + 1].cycle <= p.data[i].cycle + p.interval * CollectionCycles
    BY <1>7 DEF Ascending
  <2>. DEFINE gap == l.interval * CollectionCycles
  <2>1. 2 * i - 1 \in 1 .. Len(l.data) - 1 /\ 2 * i \in 1 .. Len(l.data) - 1
        /\ (2 * i - 1) + 1 = 2 * i /\ 2 * i + 1 = 2 * (i + 1) - 1
    BY <1>2
  <2>2. p.data[i] = l.data[2 * i - 1] /\ p.data[i + 1] = l.data[2 * i + 1]
    BY <2>1, <1>6
  <2>3. /\ l.data[2 * i - 1].cycle < l.data[2 * i].cycle
        /\ l.data[2 * i].cycle <= l.data[2 * i - 1].cycle + gap
    BY <2>1 DEF Ascending
  <2>4. /\ l.data[2 * i].cycle < l.data[2 * i + 1].cycle
        /\ l.data[2 * i + 1].cycle <= l.data[2 * i].cycle + gap
    BY <2>1 DEF Ascending
  <2>5. gap \in Nat /\ p.interval * CollectionCycles = gap + gap
    BY <1>3, <1>6, DataLogAssumption, SMT
  <2>6. \A j \in 1 .. Len(l.data) : l.data[j].cycle \in Nat
    <3>1. \A j \in 1 .. Len(l.data) : l.data[j] \in Entries  BY <1>3
    <3>. QED BY <3>1 DEF Entries
  <2>7. PICK x \in Nat, y \in Nat, z \in Nat :
          x = l.data[2 * i - 1].cycle /\ y = l.data[2 * i].cycle /\ z = l.data[2 * i + 1].cycle
    <3>1. 2 * i - 1 \in 1 .. Len(l.data) /\ 2 * i \in 1 .. Len(l.data) /\ 2 * i + 1 \in 1 .. Len(l.data)
      BY <1>2
    <3>. HIDE DEF gap
    <3>. QED BY <2>6, <3>1, Zenon
  <2>8. x < z /\ z <= x + (gap + gap)
    <3>. HIDE DEF gap
    <3>1. x < y /\ y <= x + gap /\ y < z /\ z <= y + gap  BY <2>3, <2>4, <2>7, Zenon
    <3>. QED BY <2>5, <3>1
  <2>. QED BY <2>2, <2>5, <2>7, <2>8, Zenon
<1>. QED BY <1>1, <1>6, <1>7, <1>8, <1>9, <1>10, <1>11

-----------------------------------------------------------------------------
(* One call of collect, in the cycle after the one before, or the first.   *)

\* An entry is appended.
LEMMA LoggedLog ==
  ASSUME NEW c \in Nat, NEW d \in Nat, NEW l, LogOK(l, c), l.data # <<>> => d = c + 1,
         l.calls = l.nextCall,
         NEW m, m = Logged(l, d)
  PROVE  /\ m \in Logs
         /\ m.calls = l.calls /\ m.nextCall = l.nextCall /\ m.interval = l.interval
         /\ Len(m.data) = Len(l.data) + 1
         /\ m.data[Len(m.data)] = [call |-> l.calls, cycle |-> d]
         /\ Spaced(m)
         /\ Ascending(m)
<1>. DEFINE n == Len(l.data)
            e == [call |-> l.calls, cycle |-> d]
<1>1. l \in Logs /\ l.data \in Seq(Entries) /\ n \in Nat /\ l.interval \in Nat \ {0} /\ l.calls \in Nat
  BY DEF LogOK, Logs
<1>2. e \in Entries  BY <1>1 DEF Entries
<1>3. /\ m.data = Append(l.data, e) /\ m.calls = l.calls /\ m.nextCall = l.nextCall
      /\ m.interval = l.interval
      /\ m = [calls |-> l.calls, nextCall |-> l.nextCall, interval |-> l.interval, data |-> m.data]
  BY <1>1 DEF Logged, Logs
<1>4. /\ m.data \in Seq(Entries) /\ Len(m.data) = n + 1 /\ m.data[n + 1] = e
      /\ \A i \in 1 .. n : m.data[i] = l.data[i]
  BY <1>1, <1>2, <1>3
<1>5. m \in Logs  BY <1>1, <1>3, <1>4 DEF Logs
<1>6. Spaced(m)
  <2>. SUFFICES ASSUME NEW i \in 1 .. n + 1 PROVE m.data[i].call = (i - 1) * l.interval
    BY <1>3, <1>4 DEF Spaced
  <2>1. CASE i \in 1 .. n
    <3>1. i \in DOMAIN l.data  BY <2>1, <1>1
    <3>2. l.data[i].call = (i - 1) * l.interval  BY <3>1, Zenon DEF LogOK, Spaced
    <3>. QED BY <3>2, <2>1, <1>4, Zenon
  <2>2. CASE i = n + 1
    <3>1. l.calls = n * l.interval  BY DEF LogOK
    <3>2. i - 1 = n  BY <2>2, <1>1
    <3>. QED BY <3>1, <3>2, <2>2, <1>4
  <2>. QED BY <2>1, <2>2, <1>1
<1>7. Ascending(m)
  <2>. SUFFICES ASSUME NEW i \in 1 .. n
                PROVE  /\ m.data[i].cycle < m.data[i + 1].cycle
                       /\ m.data[i + 1].cycle <= m.data[i].cycle + l.interval * CollectionCycles
    <3>1. Len(m.data) - 1 = n  BY <1>1, <1>4
    <3>. QED BY <3>1, <1>3, Zenon DEF Ascending
  <2>1. CASE i \in 1 .. n - 1
    <3>1. m.data[i] = l.data[i] /\ m.data[i + 1] = l.data[i + 1]  BY <2>1, <1>1, <1>4
    <3>. QED BY <2>1, <3>1 DEF LogOK, Ascending
  <2>2. CASE i = n
    <3>1. l.data # <<>> /\ d = c + 1  BY <2>2, <1>1
    <3>2. m.data[i] = l.data[n] /\ m.data[i + 1].cycle = d  BY <2>2, <1>4
    <3>3. l.data[n] \in Entries  BY <2>2, <1>1
    <3>4. l.data[n].cycle \in Nat /\ l.data[n].call \in Nat  BY <3>3 DEF Entries
    <3>5. /\ l.data[n].cycle <= c
          /\ c < l.data[n].cycle + (l.calls - l.data[n].call) * CollectionCycles
      BY <3>1, Zenon DEF LogOK, Newest, Horizon
    <3>6. l.calls - l.data[n].call = l.interval
      <4>1. l.calls = n * l.interval /\ l.data[n].call = (n - 1) * l.interval
        BY <2>2, <1>1 DEF LogOK, Spaced
      <4>2. n * l.interval = (n - 1) * l.interval + l.interval
        <5>1. n - 1 \in Nat /\ (n - 1) + 1 = n  BY <2>2, <1>1
        <5>. QED BY <5>1, <1>1, OneMore
      <4>. QED BY <4>1, <4>2, <3>4, <1>1
    <3>7. l.interval * CollectionCycles \in Nat  BY <1>1, DataLogAssumption
    <3>8. c < l.data[n].cycle + l.interval * CollectionCycles  BY <3>5, <3>6, Zenon
    <3>9. d <= l.data[n].cycle + l.interval * CollectionCycles /\ l.data[n].cycle < d
      BY <3>1, <3>4, <3>5, <3>7, <3>8
    <3>. QED BY <3>2, <3>9
  <2>. QED BY <2>1, <2>2, <1>1
<1>. QED BY <1>3, <1>4, <1>5, <1>6, <1>7

\* The entry is pruned if it is one too many; the newest stays.
LEMMA EntryMade ==
  ASSUME NEW c \in Nat, NEW d \in Nat, NEW l, LogOK(l, c), l.data # <<>> => d = c + 1,
         l.calls = l.nextCall,
         NEW p, p = Pruned(Logged(l, d))
  PROVE  /\ p \in Logs /\ Spaced(p) /\ Ascending(p)
         /\ Len(p.data) \in 1 .. MaxDataCount
         /\ p.calls = l.calls
         /\ Newest(p) = [call |-> l.calls, cycle |-> d]
         /\ p.interval > 1 => 2 * Len(p.data) > MaxDataCount
<1>. DEFINE m == Logged(l, d)
<1>1. /\ m \in Logs
      /\ m.calls = l.calls /\ m.nextCall = l.nextCall /\ m.interval = l.interval
      /\ Len(m.data) = Len(l.data) + 1
      /\ m.data[Len(m.data)] = [call |-> l.calls, cycle |-> d]
      /\ Spaced(m)
      /\ Ascending(m)
  BY LoggedLog, Zenon
<1>2. /\ Len(l.data) \in Nat /\ Len(l.data) <= MaxDataCount
      /\ l.interval > 1 => 2 * Len(l.data) > MaxDataCount
      /\ l.interval \in Nat
  BY DEF LogOK, Logs
<1>. HIDE DEF m
<1>3. CASE Len(m.data) <= MaxDataCount
  <2>1. p = m  BY <1>3, Zenon DEF Pruned, m
  <2>2. Len(m.data) \in 1 .. MaxDataCount  BY <1>1, <1>2, <1>3, DataLogAssumption
  <2>3. m.interval > 1 => 2 * Len(m.data) > MaxDataCount  BY <1>1, <1>2, DataLogAssumption
  <2>. QED BY <1>1, <2>1, <2>2, <2>3, Zenon DEF Newest
<1>4. CASE ~(Len(m.data) <= MaxDataCount)
  <2>1. Len(m.data) = MaxDataCount + 1  BY <1>1, <1>2, <1>4, DataLogAssumption
  <2>2. p = Pruned(m)  BY DEF m
  <2>3. /\ p \in Logs
        /\ p.calls = m.calls /\ p.nextCall = m.nextCall /\ p.interval = 2 * m.interval
        /\ 2 * Len(p.data) = MaxDataCount + 2
        /\ p.data[Len(p.data)] = m.data[Len(m.data)]
        /\ Spaced(p)
        /\ Ascending(p)
    BY <1>1, <2>1, <2>2, PrunedLog, Zenon
  <2>4. Len(p.data) \in Nat  BY <2>3 DEF Logs
  <2>5. Len(p.data) \in 1 .. MaxDataCount /\ 2 * Len(p.data) > MaxDataCount
    BY <2>3, <2>4, DataLogAssumption
  <2>. QED BY <1>1, <2>3, <2>5, Zenon DEF Newest
<1>. QED BY <1>3, <1>4

\* A call leaves the log as good as it was, with the count of cycles starting anew.
LEMMA CollectedLog ==
  ASSUME NEW c \in Nat, NEW d \in Nat, NEW l, LogOK(l, c), l.data # <<>> => d = c + 1,
         NEW q, q = Collected(l, d)
  PROVE  LogOK(q, d) /\ q.data # <<>> /\ d + CollectionCycles <= Horizon(q)
<1>1. l \in Logs /\ l.data \in Seq(Entries) /\ l.interval \in Nat \ {0} /\ l.calls \in Nat
      /\ l.nextCall \in Nat
  BY DEF LogOK, Logs
<1>2. CASE l.calls = l.nextCall
  <2>. DEFINE p == Pruned(Logged(l, d))
  <2>1. /\ p \in Logs /\ Spaced(p) /\ Ascending(p)
        /\ Len(p.data) \in 1 .. MaxDataCount
        /\ p.calls = l.calls
        /\ Newest(p) = [call |-> l.calls, cycle |-> d]
        /\ p.interval > 1 => 2 * Len(p.data) > MaxDataCount
    BY <1>2, EntryMade, Zenon
  <2>2. q = [p EXCEPT !.nextCall = p.calls + p.interval, !.calls = p.calls + 1]
    BY <1>2, Zenon DEF Collected
  <2>. HIDE DEF p
  <2>3. p.interval \in Nat \ {0} /\ p.calls \in Nat /\ p.data \in Seq(Entries)
    BY <2>1 DEF Logs
  <2>4. /\ q.calls = p.calls + 1 /\ q.nextCall = p.calls + p.interval
        /\ q.interval = p.interval /\ q.data = p.data
        /\ q \in Logs
    <3>1. q = [calls |-> p.calls + 1, nextCall |-> p.calls + p.interval,
               interval |-> p.interval, data |-> p.data]
      <4>1. p \in Logs  BY <2>1
      <4>2. p = [calls |-> p.calls, nextCall |-> p.nextCall, interval |-> p.interval, data |-> p.data]
        BY <4>1 DEF Logs
      <4>. QED BY <2>2, <4>2
    <3>2. p.calls + 1 \in Nat /\ p.calls + p.interval \in Nat  BY <2>3
    <3>3. q \in Logs  BY <2>3, <3>1, <3>2 DEF Logs
    <3>. QED BY <3>1, <3>3
  <2>5. Spaced(q) /\ Ascending(q) /\ Newest(q) = Newest(p)
    BY <2>1, <2>4, Zenon DEF Spaced, Ascending, Newest
  <2>6. q.nextCall = Len(q.data) * q.interval /\ q.calls <= q.nextCall
    <3>1. Len(p.data) - 1 \in Nat /\ (Len(p.data) - 1) + 1 = Len(p.data)  BY <2>1
    <3>2. Len(p.data) \in DOMAIN p.data  BY <2>1, <2>3
    <3>3. p.calls = (Len(p.data) - 1) * p.interval  BY <2>1, <3>2 DEF Spaced, Newest
    <3>4. Len(p.data) * p.interval = (Len(p.data) - 1) * p.interval + p.interval
      BY <3>1, <2>3, OneMore
    <3>. QED BY <2>3, <2>4, <3>3, <3>4
  <2>7. q.data # <<>>  BY <2>1, <2>3, <2>4
  <2>8. Newest(q).cycle = d /\ q.calls - Newest(q).call = 1 /\ Newest(q).call < q.calls
    BY <2>1, <2>3, <2>4, <2>5
  <2>9. Horizon(q) = d + CollectionCycles  BY <2>8, DataLogAssumption DEF Horizon
  <2>10. d < Horizon(q) /\ Newest(q).cycle <= d /\ d + CollectionCycles <= Horizon(q)
    BY <2>8, <2>9, DataLogAssumption
  <2>11. Len(q.data) <= MaxDataCount /\ (q.interval > 1 => 2 * Len(q.data) > MaxDataCount)
    BY <2>1, <2>4
  <2>. QED BY <2>4, <2>5, <2>6, <2>7, <2>8, <2>10, <2>11, Zenon DEF LogOK
<1>3. CASE l.calls # l.nextCall
  <2>1. l.data # <<>>
    <3>1. l.data = <<>> => Len(l.data) * l.interval = 0  BY <1>1
    <3>. QED BY <1>3, <3>1 DEF LogOK
  <2>2. q = [l EXCEPT !.calls = l.calls + 1]  BY <1>3, Zenon DEF Collected
  <2>3. /\ q.calls = l.calls + 1 /\ q.nextCall = l.nextCall
        /\ q.interval = l.interval /\ q.data = l.data
        /\ q \in Logs
    BY <1>1, <2>2 DEF Logs
  <2>4. Spaced(q) /\ Ascending(q) /\ Newest(q) = Newest(l)
    BY <2>3, Zenon DEF LogOK, Spaced, Ascending, Newest
  <2>. DEFINE x == Newest(l).cycle
              k == l.calls - Newest(l).call
  <2>5. x \in Nat /\ Newest(l).call \in Nat
    <3>1. Newest(l) \in Entries  BY <1>1, <2>1 DEF Newest
    <3>. QED BY <3>1 DEF Entries
  <2>6. d = c + 1 /\ x <= c /\ Newest(l).call < l.calls /\ c < x + k * CollectionCycles
    BY <2>1, Zenon DEF LogOK, Horizon
  <2>7. k \in Nat /\ q.calls - Newest(l).call = k + 1  BY <1>1, <2>3, <2>5, <2>6
  <2>8. (k + 1) * CollectionCycles = k * CollectionCycles + CollectionCycles
    BY <2>7, OneMore, DataLogAssumption
  <2>9. Horizon(q) = x + (k * CollectionCycles + CollectionCycles)
    BY <2>4, <2>7, <2>8, Zenon DEF Horizon
  <2>10. k * CollectionCycles \in Nat  BY <2>7, DataLogAssumption
  <2>. HIDE DEF k, x
  <2>11. d < Horizon(q) /\ x <= d /\ d + CollectionCycles <= Horizon(q)
    BY <2>5, <2>6, <2>9, <2>10, DataLogAssumption
  <2>12. Newest(q).cycle <= d /\ Newest(q).call < q.calls
    BY <1>1, <2>3, <2>4, <2>5, <2>6, <2>11 DEF x
  <2>13. q.calls <= q.nextCall  BY <1>1, <1>3, <2>3 DEF LogOK
  <2>. QED BY <2>1, <2>3, <2>4, <2>11, <2>12, <2>13, Zenon DEF LogOK
<1>. QED BY <1>2, <1>3

LEMMA HorizonInt ==
  ASSUME NEW c, NEW l, LogOK(l, c), l.data # <<>>
  PROVE  Newest(l).cycle \in Nat /\ Newest(l).call \in Nat /\ Horizon(l) \in Int
<1>1. l \in Logs /\ l.data \in Seq(Entries) /\ l.calls \in Nat  BY DEF LogOK, Logs
<1>2. Newest(l) \in Entries  BY <1>1 DEF Newest
<1>3. Newest(l).cycle \in Nat /\ Newest(l).call \in Nat  BY <1>2 DEF Entries
<1>4. (l.calls - Newest(l).call) * CollectionCycles \in Int
  BY <1>1, <1>3, DataLogAssumption
<1>. QED BY <1>3, <1>4 DEF Horizon

\* At the end of a cycle, or before anything was executed.
LEMMA CollectAtStep ==
  ASSUME IInv, NEW d \in Nat, log.data # <<>> => d = cycle + 1, CollectAt(d)
  PROVE  LogOK(log', d) /\ next' \in Nat /\ (log'.data # <<>> => next' <= Horizon(log'))
<1>1. LogOK(log, cycle) /\ cycle \in Nat /\ next \in Nat  BY DEF IInv
<1>2. CASE d >= next
  <2>1. log' = Collected(log, d) /\ next' = d + CollectionCycles
    BY <1>2, Zenon DEF CollectAt
  <2>2. LogOK(log', d) /\ d + CollectionCycles <= Horizon(log')
    BY <1>1, <2>1, CollectedLog, Zenon
  <2>. QED BY <2>1, <2>2, DataLogAssumption
<1>3. CASE ~(d >= next)
  <2>1. log' = log /\ next' = next  BY <1>3, Zenon DEF CollectAt
  <2>2. log.data # <<>> =>
          Newest(log).cycle <= d /\ Newest(log).call < log.calls /\ d < Horizon(log)
    <3>. SUFFICES ASSUME log.data # <<>>
                  PROVE  Newest(log).cycle <= d /\ Newest(log).call < log.calls /\ d < Horizon(log)
      OBVIOUS
    <3>1. Newest(log).cycle <= cycle /\ Newest(log).call < log.calls
      BY <1>1, Zenon DEF LogOK
    <3>2. Newest(log).cycle \in Nat /\ Horizon(log) \in Int  BY <1>1, HorizonInt
    <3>3. next <= Horizon(log)  BY DEF IInv
    <3>. QED BY <1>1, <1>3, <3>1, <3>2, <3>3
  <2>3. LogOK(log, d)  BY <1>1, <2>2, Zenon DEF LogOK
  <2>. QED BY <1>1, <2>1, <2>3 DEF IInv
<1>. QED BY <1>2, <1>3

\* No entries, in any cycle.
LEMMA EmptyLogOK == \A c \in Nat : LogOK(EmptyLog, c)
<1>1. EmptyLog \in Logs /\ EmptyLog.data = <<>> /\ EmptyLog.calls = 0 /\ EmptyLog.nextCall = 0
      /\ EmptyLog.interval = 1
  BY DEF EmptyLog, Logs
<1>2. Len(EmptyLog.data) = 0 /\ 0 <= MaxDataCount  BY <1>1, DataLogAssumption
<1>3. Spaced(EmptyLog) /\ Ascending(EmptyLog)  BY <1>1, <1>2 DEF Spaced, Ascending
<1>. QED BY <1>1, <1>2, <1>3 DEF LogOK

-----------------------------------------------------------------------------
(* The invariant.                                                          *)

LEMMA IInvLemma == Spec => []IInv
<1>1. Init => IInv
  <2>. SUFFICES ASSUME Init PROVE IInv  OBVIOUS
  <2>1. LogOK(log, cycle)  BY EmptyLogOK DEF Init
  <2>2. log.data = <<>>  BY DEF Init, EmptyLog
  <2>. QED BY <2>1, <2>2 DEF Init, IInv
<1>2. IInv /\ [Next]_vars => IInv'
  <2>. SUFFICES ASSUME IInv, [Next]_vars PROVE IInv'  OBVIOUS
  <2>1. CASE FirstIterate
    <3>1. log.data = <<>> /\ cycle \in Nat  BY <2>1 DEF FirstIterate, IInv
    <3>2. CollectAt(cycle) /\ cycle' = cycle /\ executed' = TRUE  BY <2>1 DEF FirstIterate
    <3>3. LogOK(log', cycle) /\ next' \in Nat /\ (log'.data # <<>> => next' <= Horizon(log'))
      BY <3>1, <3>2, CollectAtStep
    <3>. QED BY <3>1, <3>2, <3>3 DEF IInv
  <2>2. CASE CycleEnds
    <3>1. CollectAt(cycle + 1) /\ cycle' = cycle + 1 /\ executed' = TRUE
      BY <2>2 DEF CycleEnds, IInv
    <3>2. cycle + 1 \in Nat  BY DEF IInv
    <3>3. LogOK(log', cycle + 1) /\ next' \in Nat /\ (log'.data # <<>> => next' <= Horizon(log'))
      BY <3>1, <3>2, CollectAtStep
    <3>. QED BY <3>1, <3>2, <3>3 DEF IInv
  <2>3. CASE Reload
    <3>1. next' = cycle /\ cycle' = cycle /\ executed' = executed /\ log' \in {log, EmptyLog}
      BY <2>3 DEF Reload, NextWhenLoaded
    <3>2. cycle \in Nat /\ LogOK(log, cycle) /\ executed \in BOOLEAN /\ (~executed => log.data = <<>>)
      BY DEF IInv
    <3>3. LogOK(log', cycle)  BY <3>1, <3>2, EmptyLogOK
    <3>4. ~executed => log'.data = <<>>  BY <3>1, <3>2 DEF EmptyLog
    <3>5. log'.data # <<>> => cycle <= Horizon(log')
      <4>. SUFFICES ASSUME log'.data # <<>> PROVE cycle <= Horizon(log')  OBVIOUS
      <4>1. cycle < Horizon(log')  BY <3>3, Zenon DEF LogOK
      <4>2. Horizon(log') \in Int  BY <3>3, HorizonInt
      <4>. QED BY <3>2, <4>1, <4>2
    <3>. QED BY <3>1, <3>2, <3>3, <3>4, <3>5 DEF IInv
  <2>4. CASE UNCHANGED vars
    BY <2>4 DEF vars, IInv
  <2>. QED BY <2>1, <2>2, <2>3, <2>4 DEF Next
<1>. QED BY <1>1, <1>2, PTL DEF Spec

\* DataLog, every state: the log is a log, and keeps its limit of entries.
THEOREM TypeCorrectness == Spec => []TypeOK
<1>1. IInv => TypeOK
  BY DEF IInv, TypeOK, LogOK, Logs
<1>. QED BY <1>1, IInvLemma, PTL

\* DataLog, pruneData: the entries are even however often the log was pruned.
THEOREM AlwaysEvenlySpaced == Spec => []EvenlySpaced
<1>1. IInv => EvenlySpaced
  BY DEF IInv, EvenlySpaced, LogOK, Spaced
<1>. QED BY <1>1, IInvLemma, PTL

\* DataLog, collectCyclicalData: no gap is longer than the interval allows, reloads
\* or not.
THEOREM GapsAlwaysBounded == Spec => []GapsBounded
<1>1. IInv => GapsBounded
  <2>. SUFFICES ASSUME IInv PROVE GapsBounded  OBVIOUS
  <2>1. LogOK(log, cycle) /\ log \in Logs /\ Ascending(log) /\ Spaced(log) /\ cycle \in Nat
    BY DEF IInv, LogOK
  <2>2. log.data \in Seq(Entries) /\ log.interval \in Nat \ {0} /\ log.calls \in Nat
    BY <2>1 DEF Logs
  <2>3. log.data # <<>> => cycle < log.data[Len(log.data)].cycle + MaxGap
    <3>. DEFINE n == Len(log.data)
    <3>. SUFFICES ASSUME log.data # <<>> PROVE cycle < log.data[n].cycle + MaxGap
      OBVIOUS
    <3>1. n \in Nat \ {0} /\ n \in DOMAIN log.data /\ log.data[n] \in Entries  BY <2>2
    <3>2. log.data[n].cycle \in Nat /\ log.data[n].call \in Nat  BY <3>1 DEF Entries
    <3>3. /\ log.data[n].call < log.calls /\ log.calls <= n * log.interval
          /\ cycle < log.data[n].cycle + (log.calls - log.data[n].call) * CollectionCycles
      BY <2>1 DEF LogOK, Newest, Horizon
    <3>4. log.data[n].call = (n - 1) * log.interval  BY <2>1, <3>1 DEF Spaced
    <3>5. n * log.interval = (n - 1) * log.interval + log.interval
      <4>1. n - 1 \in Nat /\ (n - 1) + 1 = n  BY <3>1
      <4>. QED BY <4>1, <2>2, OneMore
    <3>. DEFINE k == log.calls - log.data[n].call
    <3>6. k \in Nat /\ k <= log.interval  BY <2>2, <3>2, <3>3, <3>4, <3>5
    <3>7. k * CollectionCycles <= log.interval * CollectionCycles
      BY <3>6, <2>2, DataLogAssumption, TimesMonotone
    <3>8. k * CollectionCycles \in Nat /\ log.interval * CollectionCycles \in Nat
      BY <3>6, <2>2, DataLogAssumption
    <3>9. cycle < log.data[n].cycle + k * CollectionCycles  BY <3>3
    <3>. HIDE DEF k
    <3>10. cycle < log.data[n].cycle + log.interval * CollectionCycles
      BY <2>1, <3>2, <3>7, <3>8, <3>9
    <3>. QED BY <3>10 DEF MaxGap
  <2>. QED BY <2>1, <2>3 DEF GapsBounded, Ascending, MaxGap
<1>. QED BY <1>1, IInvLemma, PTL
=============================================================================
