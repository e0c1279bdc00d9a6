---------------------------- MODULE CellMapProofs ----------------------------
(***************************************************************************)
(* The cell map, for any number of creatures and any size of the soup.     *)
(*                                                                         *)
(* First what holds of CellRanges whatever calls it: what the binary       *)
(* searches find, what spaceAtAddress concludes from it, and what          *)
(* insertion and removal do.  Then that the map is the ownership of the    *)
(* soup's bytes after any insertions and removals, and that what a search  *)
(* for space finds is space, and that it finds none only where there is    *)
(* none.                                                                   *)
(***************************************************************************)
EXTENDS CellMap, SpaceSearch, FiniteSetTheorems, WellFoundedInduction,
        SequenceTheorems, TLAPS

Cells == [start : Addresses, length : 1 .. Size, owner : Creatures]

\* The order of the cells, of any two of them.
Ordered(list) ==
  /\ \A i, j \in 1 .. Len(list) : i < j => End(list[i]) <= list[j].start
  /\ list # <<>> => End(list[Len(list)]) <= list[1].start + Size

\* The maps there can be.
Maps == {list \in Seq(Cells) : Ordered(list)}

\* Cell c has byte a of the soup.
Has(c, a) == (c.start <= a /\ a < End(c)) \/ a + Size < End(c)

-----------------------------------------------------------------------------
(* Induction, on the elements of a set.                                    *)

\* A set with 0 and the successor of each of its numbers holds all numbers.
LEMMA SetInduction ==
  ASSUME NEW T, 0 \in T, \A n \in Nat : n \in T => n + 1 \in T
  PROVE  Nat \subseteq T
<1> DEFINE R == OpToRel(<, Nat)
           Others == Nat \ T
<1>1. IsWellFoundedOn(R, Nat)
  BY NatLessThanWellFounded, Zenon
<1>2. \A m, n \in Nat : <<m, n>> \in R <=> m < n
  BY DEF OpToRel
<1> SUFFICES ASSUME Others # {} PROVE FALSE
  OBVIOUS
<1> HIDE DEF R
<1>3. PICK n \in Others : \A m \in Others : ~ (<<m, n>> \in R)
  <2>1. Others \subseteq Nat
    OBVIOUS
  <2> QED BY <1>1, <2>1, WFMin
<1>4. n \in Nat /\ n # 0
  OBVIOUS
<1>5. n - 1 \in Nat /\ n - 1 < n
  BY <1>4
<1>6. n - 1 \in T
  BY <1>2, <1>3, <1>4, <1>5
<1> QED BY <1>4, <1>5, <1>6

-----------------------------------------------------------------------------
(* The binary searches.                                                    *)

\* The middle of a span is in it, and what is on either side is a span.
LEMMA MiddleLemma ==
  ASSUME NEW n \in Nat, NEW s \in Spans(n), s.low <= s.high
  PROVE  /\ (s.low + s.high) \div 2 \in s.low .. s.high
         /\ (s.low + s.high) \div 2 \in 1 .. n
<1>1. s.low \in 1 .. n + 1 /\ s.high \in 0 .. n
  BY DEF Spans
<1>2. PICK l \in Int, h \in Int : l = s.low /\ h = s.high /\ l <= h /\ 1 <= l /\ h <= n
  BY <1>1
<1>3. (l + h) \div 2 \in Int /\ l <= (l + h) \div 2 /\ (l + h) \div 2 <= h
  BY <1>2, Z3
<1> QED BY <1>2, <1>3

\* The spans the searches go on with.
LEMMA SpanLemma ==
  ASSUME NEW n \in Nat, NEW s \in Spans(n), NEW m \in s.low .. s.high
  PROVE  /\ [s EXCEPT !.high = m - 1] \in Spans(n)
         /\ [s EXCEPT !.high = m - 1].low = s.low /\ [s EXCEPT !.high = m - 1].high = m - 1
         /\ [s EXCEPT !.low = m + 1] \in Spans(n)
         /\ [s EXCEPT !.low = m + 1].low = m + 1 /\ [s EXCEPT !.low = m + 1].high = s.high
         /\ m \in 1 .. n
  BY DEF Spans

\* What each loop does in span s of n positions, going on as g says: low and high
\* are the positions from which it goes down and up, and e is what it returns at the
\* end of a span in which nothing is left.
Step(g, s, low, high, e) ==
  LET mid == (s.low + s.high) \div 2
  IN  IF s.low > s.high THEN e[s.high]
      ELSE IF mid \in low THEN g[[s EXCEPT !.high = mid - 1]]
      ELSE IF mid \in high THEN g[[s EXCEPT !.low = mid + 1]]
      ELSE mid

\* g is what the loop returns from each span.
Loop(g, n, low, high, e) == g = [s \in Spans(n) |-> Step(g, s, low, high, e)]

\* The loop ends: there is a function that goes on as it says itself.
LEMMA LoopLemma ==
  ASSUME NEW n \in Nat, NEW low, NEW high, NEW e
  PROVE  \E g : Loop(g, n, low, high, e)
<1> DEFINE Width(s) == s.high + 1 - s.low
           Upto(g, d) == \A s \in Spans(n) : Width(s) <= d => g[s] = Step(g, s, low, high, e)
           T == {d \in Nat : \E g : g = [s \in Spans(n) |-> g[s]] /\ Upto(g, d)}
<1>1. \A s \in Spans(n) : s.low \in 1 .. n + 1 /\ s.high \in 0 .. n
  BY DEF Spans
<1>2. 0 \in T
  <2> DEFINE g == [s \in Spans(n) |-> e[s.high]]
  <2>1. ASSUME NEW s \in Spans(n), Width(s) <= 0
        PROVE  g[s] = Step(g, s, low, high, e)
    <3>1. s.low > s.high
      BY <1>1, <2>1
    <3> QED BY <3>1 DEF Step
  <2>2. g = [s \in Spans(n) |-> g[s]]
    OBVIOUS
  <2> HIDE DEF g
  <2> QED BY <2>1, <2>2
<1>3. ASSUME NEW d \in Nat, d \in T
      PROVE  d + 1 \in T
  <2>1. PICK g : g = [s \in Spans(n) |-> g[s]] /\ Upto(g, d)
    BY <1>3
  <2> DEFINE h == [s \in Spans(n) |-> IF Width(s) <= d THEN g[s] ELSE Step(g, s, low, high, e)]
  <2>2. \A s \in Spans(n) : Width(s) <= d => h[s] = g[s]
    OBVIOUS
  <2>3. \A s \in Spans(n) : h[s] = Step(g, s, low, high, e)
    BY <2>1
  <2>4. h = [s \in Spans(n) |-> h[s]]
    OBVIOUS
  <2> HIDE DEF h
  <2>5. ASSUME NEW s \in Spans(n), Width(s) <= d + 1
        PROVE  Step(h, s, low, high, e) = Step(g, s, low, high, e)
    <3>1. CASE s.low > s.high
      BY <3>1 DEF Step
    <3>2. CASE ~ (s.low > s.high)
      <4> DEFINE mid == (s.low + s.high) \div 2
      <4>1. mid \in s.low .. s.high
        BY <1>1, <3>2, MiddleLemma
      <4>2. /\ [s EXCEPT !.high = mid - 1] \in Spans(n) /\ Width([s EXCEPT !.high = mid - 1]) <= d
            /\ [s EXCEPT !.low = mid + 1] \in Spans(n) /\ Width([s EXCEPT !.low = mid + 1]) <= d
        <5> HIDE DEF mid
        <5> QED BY <1>1, <2>5, <4>1, SpanLemma
      <4>3. /\ h[[s EXCEPT !.high = mid - 1]] = g[[s EXCEPT !.high = mid - 1]]
            /\ h[[s EXCEPT !.low = mid + 1]] = g[[s EXCEPT !.low = mid + 1]]
        BY <2>2, <4>2
      <4> QED BY <3>2, <4>3 DEF Step
    <3> QED BY <3>1, <3>2
  <2>6. Upto(h, d + 1)
    BY <2>3, <2>5
  <2> QED BY <2>4, <2>6
<1>4. n + 1 \in T
  <2> HIDE DEF T
  <2> QED BY <1>2, <1>3, SetInduction
<1>5. PICK g : g = [s \in Spans(n) |-> g[s]] /\ Upto(g, n + 1)
  BY <1>4
<1>6. \A s \in Spans(n) : g[s] = Step(g, s, low, high, e)
  <2> SUFFICES ASSUME NEW s \in Spans(n) PROVE Width(s) <= n + 1
    BY <1>5
  <2> QED BY <1>1
<1>7. g = [s \in Spans(n) |-> Step(g, s, low, high, e)]
  BY <1>5, <1>6
<1> QED BY <1>7 DEF Loop

\* What it returns: a position of the span from which it goes neither way, or e of
\* where those it goes up from end and those it goes down from begin.
LEMMA ReturnsLemma ==
  ASSUME NEW n \in Nat, NEW low, NEW high, NEW e, NEW g,
         Loop(g, n, low, high, e),
         \A i, j \in 1 .. n : i <= j => (i \in low => j \in low) /\ (j \in high => i \in high)
  PROVE  LET r == g[[low |-> 1, high |-> n]]
         IN  \/ r \in 1 .. n /\ r \notin low /\ r \notin high
             \/ \E k \in 0 .. n : /\ r = e[k]
                                  /\ \A i \in 1 .. k : i \in high
                                  /\ \A i \in k + 1 .. n : i \in low
<1> DEFINE Exact(s, r) == r \in s.low .. s.high /\ r \notin low /\ r \notin high
           Parted(s, r) == \E k \in s.low - 1 .. s.high : /\ r = e[k]
                                                          /\ \A i \in s.low .. k : i \in high
                                                          /\ \A i \in k + 1 .. s.high : i \in low
           Width(s) == s.high + 1 - s.low
           T == {d \in Nat : \A s \in Spans(n) :
                               0 <= Width(s) /\ Width(s) <= d => Exact(s, g[s]) \/ Parted(s, g[s])}
<1>0. g = [s \in Spans(n) |-> Step(g, s, low, high, e)]
  BY DEF Loop
<1>1. \A s \in Spans(n) : s.low \in 1 .. n + 1 /\ s.high \in 0 .. n
  BY DEF Spans
<1>2. ASSUME NEW s \in Spans(n), Width(s) = 0
      PROVE  Parted(s, g[s])
  <2>1. s.low > s.high /\ s.low - 1 = s.high
    BY <1>1, <1>2
  <2>2. g[s] = e[s.high]
    BY <1>0, <2>1 DEF Step
  <2> QED BY <1>1, <2>1, <2>2
<1>3. 0 \in T
  <2>1. ASSUME NEW s \in Spans(n), 0 <= Width(s), Width(s) <= 0
        PROVE  Exact(s, g[s]) \/ Parted(s, g[s])
    <3>1. Width(s) = 0
      BY <1>1, <2>1
    <3> HIDE DEF Width, Parted, Exact
    <3> QED BY <1>2, <3>1
  <2> QED BY <2>1
<1>4. ASSUME NEW d \in Nat, d \in T
      PROVE  d + 1 \in T
  <2> SUFFICES ASSUME NEW s \in Spans(n), 0 <= Width(s), Width(s) <= d + 1
               PROVE  Exact(s, g[s]) \/ Parted(s, g[s])
    OBVIOUS
  <2>1. CASE s.low > s.high
    <3>1. Width(s) = 0
      BY <1>1, <2>1
    <3> HIDE DEF Width, Parted, Exact
    <3> QED BY <1>2, <3>1
  <2>2. CASE ~ (s.low > s.high)
    <3>1. PICK mid \in s.low .. s.high : mid = (s.low + s.high) \div 2 /\ mid \in 1 .. n
      BY <1>1, <2>2, MiddleLemma
    <3> DEFINE down == [s EXCEPT !.high = mid - 1]
               up == [s EXCEPT !.low = mid + 1]
    <3>2. /\ down \in Spans(n) /\ down.low = s.low /\ down.high = mid - 1
          /\ up \in Spans(n) /\ up.low = mid + 1 /\ up.high = s.high
      BY <1>1, SpanLemma
    <3>3. g[s] = IF mid \in low THEN g[down] ELSE IF mid \in high THEN g[up] ELSE mid
      BY <1>0, <2>2, <3>1 DEF Step
    <3>4. /\ 0 <= Width(down) /\ Width(down) <= d
          /\ 0 <= Width(up) /\ Width(up) <= d
      BY <1>1, <3>2
    <3>5. /\ Exact(down, g[down]) \/ Parted(down, g[down])
          /\ Exact(up, g[up]) \/ Parted(up, g[up])
      <4> HIDE DEF Exact, Parted, Width, down, up
      <4> QED BY <1>4, <3>2, <3>4
    <3> HIDE DEF down, up
    <3>6. CASE mid \in low
      <4>1. g[s] = g[down]
        BY <3>3, <3>6
      <4>2. CASE Exact(down, g[down])
        BY <1>1, <3>2, <4>1, <4>2
      <4>3. CASE Parted(down, g[down])
        <5>1. PICK k \in s.low - 1 .. mid - 1 :
                /\ g[s] = e[k]
                /\ \A i \in s.low .. k : i \in high
                /\ \A i \in k + 1 .. mid - 1 : i \in low
          BY <3>2, <4>1, <4>3
        <5>2. \A i \in k + 1 .. s.high : i \in low
          BY <1>1, <3>1, <3>6, <5>1
        <5>3. k \in s.low - 1 .. s.high
          BY <1>1, <5>1
        <5> QED BY <5>1, <5>2, <5>3
      <4> QED BY <3>5, <4>2, <4>3
    <3>7. CASE mid \notin low /\ mid \in high
      <4>1. g[s] = g[up]
        BY <3>3, <3>7
      <4>2. CASE Exact(up, g[up])
        BY <1>1, <3>2, <4>1, <4>2
      <4>3. CASE Parted(up, g[up])
        <5>1. PICK k \in mid .. s.high :
                /\ g[s] = e[k]
                /\ \A i \in mid + 1 .. k : i \in high
                /\ \A i \in k + 1 .. s.high : i \in low
          BY <1>1, <3>2, <4>1, <4>3
        <5>2. \A i \in s.low .. k : i \in high
          BY <1>1, <3>1, <3>7, <5>1
        <5>3. k \in s.low - 1 .. s.high
          BY <1>1, <5>1
        <5> QED BY <5>1, <5>2, <5>3
      <4> QED BY <3>5, <4>2, <4>3
    <3>8. CASE mid \notin low /\ mid \notin high
      BY <3>1, <3>3, <3>8
    <3> QED BY <3>6, <3>7, <3>8
  <2> QED BY <2>1, <2>2
<1>5. n \in T
  <2> HIDE DEF T
  <2> QED BY <1>3, <1>4, SetInduction
<1> DEFINE all == [low |-> 1, high |-> n]
<1>6. all \in Spans(n) /\ all.low = 1 /\ all.high = n
  BY DEF Spans
<1>7. Exact(all, g[all]) \/ Parted(all, g[all])
  <2>1. 0 <= Width(all) /\ Width(all) <= n
    BY <1>6
  <2> HIDE DEF Exact, Parted, Width, all
  <2> QED BY <1>5, <1>6, <2>1
<1> QED BY <1>6, <1>7

\* The loop of indexOfCreatureAtAddress is one.
LEMMA SearchForLoop ==
  ASSUME NEW cs \in Seq(Cells), NEW a \in Addresses
  PROVE  Loop(SearchFor(cs, a), Len(cs), {m \in 1 .. Len(cs) : a < cs[m].start},
              {m \in 1 .. Len(cs) : a >= End(cs[m])}, [k \in 0 .. Len(cs) |-> 0])
<1> DEFINE n == Len(cs)
           low == {m \in 1 .. n : a < cs[m].start}
           high == {m \in 1 .. n : a >= End(cs[m])}
           e == [k \in 0 .. n |-> 0]
           Body(g, s) ==
             LET mid == (s.low + s.high) \div 2
             IN  IF s.low > s.high THEN 0
                 ELSE IF a < cs[mid].start THEN g[[s EXCEPT !.high = mid - 1]]
                 ELSE IF a >= End(cs[mid]) THEN g[[s EXCEPT !.low = mid + 1]]
                 ELSE mid
           P(g) == g = [s \in Spans(n) |-> Body(g, s)]
<1>1. n \in Nat
  OBVIOUS
<1>2. ASSUME NEW g, NEW s \in Spans(n)
      PROVE  Step(g, s, low, high, e) = Body(g, s)
  <2>1. CASE s.low > s.high
    <3>1. s.high \in 0 .. n
      BY DEF Spans
    <3>2. e[s.high] = 0
      BY <3>1
    <3> HIDE DEF e
    <3> QED BY <2>1, <3>2 DEF Step
  <2>2. CASE ~ (s.low > s.high)
    <3> DEFINE mid == (s.low + s.high) \div 2
    <3>1. mid \in 1 .. n
      <4>1. s.low <= s.high
        BY <2>2 DEF Spans
      <4> QED BY <1>1, <4>1, MiddleLemma
    <3>2. (mid \in low <=> a < cs[mid].start) /\ (mid \in high <=> a >= End(cs[mid]))
      BY <3>1
    <3>3. Step(g, s, low, high, e) =
            IF mid \in low THEN g[[s EXCEPT !.high = mid - 1]]
            ELSE IF mid \in high THEN g[[s EXCEPT !.low = mid + 1]]
            ELSE mid
      <4> HIDE DEF low, high, e
      <4> QED BY <2>2 DEF Step
    <3>4. Body(g, s) =
            IF a < cs[mid].start THEN g[[s EXCEPT !.high = mid - 1]]
            ELSE IF a >= End(cs[mid]) THEN g[[s EXCEPT !.low = mid + 1]]
            ELSE mid
      BY <2>2
    <3> HIDE DEF mid, low, high, Body
    <3> QED BY <3>2, <3>3, <3>4
  <2> QED BY <2>1, <2>2
<1>3. \E g : Loop(g, n, low, high, e)
  <2> HIDE DEF low, high, e, n
  <2> QED BY <1>1, LoopLemma
<1>4. \E g : P(g)
  <2> HIDE DEF Body, low, high, e, n
  <2> QED BY <1>2, <1>3 DEF Loop
<1>5. SearchFor(cs, a) = CHOOSE g : P(g)
  BY Zenon DEF SearchFor
<1>6. P(SearchFor(cs, a))
  <2> HIDE DEF P
  <2> QED BY <1>4, <1>5, Zenon
<1>7. SearchFor(cs, a) = [s \in Spans(n) |-> Step(SearchFor(cs, a), s, low, high, e)]
  <2> HIDE DEF Body, low, high, e, n
  <2> QED BY <1>2, <1>6
<1> QED BY <1>7 DEF Loop

\* So is that of indexAtOrBefore.
LEMMA SearchBeforeLoop ==
  ASSUME NEW cs \in Seq(Cells), NEW a \in Addresses
  PROVE  Loop(SearchBefore(cs, a), Len(cs), {m \in 1 .. Len(cs) : a < cs[m].start},
              {m \in 1 .. Len(cs) : a > cs[m].start}, [k \in 0 .. Len(cs) |-> k])
<1> DEFINE n == Len(cs)
           low == {m \in 1 .. n : a < cs[m].start}
           high == {m \in 1 .. n : a > cs[m].start}
           e == [k \in 0 .. n |-> k]
           Body(g, s) ==
             LET mid == (s.low + s.high) \div 2
             IN  IF s.low > s.high THEN s.high
                 ELSE IF a < cs[mid].start THEN g[[s EXCEPT !.high = mid - 1]]
                 ELSE IF a > cs[mid].start THEN g[[s EXCEPT !.low = mid + 1]]
                 ELSE mid
           P(g) == g = [s \in Spans(n) |-> Body(g, s)]
<1>1. n \in Nat
  OBVIOUS
<1>2. ASSUME NEW g, NEW s \in Spans(n)
      PROVE  Step(g, s, low, high, e) = Body(g, s)
  <2>1. CASE s.low > s.high
    <3>1. s.high \in 0 .. n
      BY DEF Spans
    <3>2. e[s.high] = s.high
      BY <3>1
    <3> HIDE DEF e
    <3> QED BY <2>1, <3>2 DEF Step
  <2>2. CASE ~ (s.low > s.high)
    <3> DEFINE mid == (s.low + s.high) \div 2
    <3>1. mid \in 1 .. n
      <4>1. s.low <= s.high
        BY <2>2 DEF Spans
      <4> QED BY <1>1, <4>1, MiddleLemma
    <3>2. (mid \in low <=> a < cs[mid].start) /\ (mid \in high <=> a > cs[mid].start)
      BY <3>1
    <3>3. Step(g, s, low, high, e) =
            IF mid \in low THEN g[[s EXCEPT !.high = mid - 1]]
            ELSE IF mid \in high THEN g[[s EXCEPT !.low = mid + 1]]
            ELSE mid
      <4> HIDE DEF low, high, e
      <4> QED BY <2>2 DEF Step
    <3>4. Body(g, s) =
            IF a < cs[mid].start THEN g[[s EXCEPT !.high = mid - 1]]
            ELSE IF a > cs[mid].start THEN g[[s EXCEPT !.low = mid + 1]]
            ELSE mid
      BY <2>2
    <3> HIDE DEF mid, low, high, Body
    <3> QED BY <3>2, <3>3, <3>4
  <2> QED BY <2>1, <2>2
<1>3. \E g : Loop(g, n, low, high, e)
  <2> HIDE DEF low, high, e, n
  <2> QED BY <1>1, LoopLemma
<1>4. \E g : P(g)
  <2> HIDE DEF Body, low, high, e, n
  <2> QED BY <1>2, <1>3 DEF Loop
<1>5. SearchBefore(cs, a) = CHOOSE g : P(g)
  BY Zenon DEF SearchBefore
<1>6. P(SearchBefore(cs, a))
  <2> HIDE DEF P
  <2> QED BY <1>4, <1>5, Zenon
<1>7. SearchBefore(cs, a) = [s \in Spans(n) |-> Step(SearchBefore(cs, a), s, low, high, e)]
  <2> HIDE DEF Body, low, high, e, n
  <2> QED BY <1>2, <1>6
<1> QED BY <1>7 DEF Loop

-----------------------------------------------------------------------------
(* Cells and their order.                                                  *)

\* The numbers of a cell.
LEMMA CellLemma ==
  ASSUME NEW c \in Cells
  PROVE  /\ Size \in Nat \ {0}
         /\ c.start \in 0 .. Size - 1 /\ c.length \in 1 .. Size /\ c.owner \in Creatures
         /\ End(c) \in Int /\ End(c) = c.start + c.length
  BY CellRangesAssumption DEF Cells, Addresses, End

\* The remainder of what is less than twice the size.
LEMMA AroundLemma ==
  ASSUME NEW b \in 0 .. (2 * Size) - 1
  PROVE  b % Size = IF b < Size THEN b ELSE b - Size
<1>1. Size \in Nat \ {0}
  BY CellRangesAssumption
<1>2. PICK q \in Int, r \in 0 .. Size - 1 : b = (Size * q) + r /\ r = b % Size
  <2>1. b \div Size \in Int /\ b % Size \in 0 .. Size - 1 /\ b = (Size * (b \div Size)) + (b % Size)
    BY <1>1, Z3
  <2> QED BY <2>1
<1>3. q >= 0 /\ q <= 1
  <2>1. CASE q >= 2
    <3>1. Size * q >= 2 * Size
      BY <1>1, <2>1, Z3
    <3> QED BY <1>1, <1>2, <3>1
  <2>2. CASE q <= -1
    <3>1. Size * q <= -Size
      BY <1>1, <2>2, Z3
    <3> QED BY <1>1, <1>2, <3>1
  <2> QED BY <2>1, <2>2
<1>4. CASE q = 0
  <2>1. Size * q = 0
    BY <1>1, <1>4, Z3
  <2> QED BY <1>1, <1>2, <2>1
<1>5. CASE q = 1
  <2>1. Size * q = Size
    BY <1>1, <1>5, Z3
  <2> QED BY <1>1, <1>2, <2>1
<1> QED BY <1>3, <1>4, <1>5

\* containsOffset says which bytes a cell has.
LEMMA ContainsLemma ==
  ASSUME NEW c \in Cells, NEW a \in Addresses
  PROVE  ContainsOffset(c, a) <=> Has(c, a)
<1>1. End(c) \in 0 .. (2 * Size) - 1 /\ a \in 0 .. Size - 1
  BY CellLemma DEF Addresses
<1>2. WrappedEnd(c) = IF End(c) < Size THEN End(c) ELSE End(c) - Size
  BY <1>1, AroundLemma DEF WrappedEnd
<1> QED BY <1>1, <1>2, CellLemma DEF ContainsOffset, Has

-----------------------------------------------------------------------------
(* The map as numbers: where each cell starts and where it ends.           *)

Starts(cs) == [i \in 1 .. Len(cs) |-> cs[i].start]
Ends(cs) == [i \in 1 .. Len(cs) |-> End(cs[i])]

\* n cells, of which i starts at st[i] and ends at en[i], are in order.
Layout(n, st, en) ==
  /\ n \in Nat
  /\ st \in [1 .. n -> Int]
  /\ en \in [1 .. n -> Int]
  /\ \A i \in 1 .. n : 0 <= st[i] /\ st[i] < Size /\ st[i] < en[i] /\ en[i] <= st[i] + Size
  /\ \A i, j \in 1 .. n : i < j => en[i] <= st[j]
  /\ n # 0 => en[n] <= st[1] + Size

\* Byte a is one of those from s up to e, around the end of the soup.
Within(s, e, a) == (s <= a /\ a < e) \/ a + Size < e

\* The order of the cells is one of these numbers.
LEMMA MapLayout ==
  ASSUME NEW cs \in Seq(Cells)
  PROVE  cs \in Maps <=> Layout(Len(cs), Starts(cs), Ends(cs))
<1>1. \A i \in 1 .. Len(cs) : cs[i] \in Cells
  OBVIOUS
<1>2. \A i \in 1 .. Len(cs) : cs[i].start \in Int /\ End(cs[i]) \in Int
  BY <1>1, CellLemma
<1>3. \A i \in 1 .. Len(cs) : /\ 0 <= cs[i].start /\ cs[i].start < Size
                              /\ cs[i].start < End(cs[i]) /\ End(cs[i]) <= cs[i].start + Size
  <2> SUFFICES ASSUME NEW c \in Cells
               PROVE  /\ 0 <= c.start /\ c.start < Size
                      /\ c.start < End(c) /\ End(c) <= c.start + Size
    BY <1>1
  <2> QED BY CellLemma
<1>4. Starts(cs) \in [1 .. Len(cs) -> Int] /\ Ends(cs) \in [1 .. Len(cs) -> Int]
  BY <1>2 DEF Starts, Ends
<1>5. \A i \in 1 .. Len(cs) : Starts(cs)[i] = cs[i].start /\ Ends(cs)[i] = End(cs[i])
  BY DEF Starts, Ends
<1>6. /\ Len(cs) \in Nat /\ (cs # <<>> <=> Len(cs) # 0)
      /\ Len(cs) # 0 => 1 \in 1 .. Len(cs) /\ Len(cs) \in 1 .. Len(cs)
  OBVIOUS
<1> QED BY <1>3, <1>4, <1>5, <1>6 DEF Maps, Ordered, Layout

\* What the cells of a map and those numbers have to do with each other.
LEMMA MapLemma ==
  ASSUME NEW cs \in Maps
  PROVE  /\ cs \in Seq(Cells) /\ Len(cs) \in Nat /\ (cs # <<>> <=> Len(cs) # 0)
         /\ Layout(Len(cs), Starts(cs), Ends(cs))
         /\ \A i \in 1 .. Len(cs) :
              cs[i] \in Cells /\ Starts(cs)[i] = cs[i].start /\ Ends(cs)[i] = End(cs[i])
         /\ cs # <<>> => Last(cs) = cs[Len(cs)]
<1>1. cs \in Seq(Cells)
  BY DEF Maps
<1> QED BY <1>1, MapLayout DEF Starts, Ends, Last

\* Cells start at different places, none but the last wraps, and all lie within a
\* soup's length of where the first starts.
LEMMA LayoutLemma ==
  ASSUME NEW n, NEW st, NEW en, Layout(n, st, en)
  PROVE  /\ \A i, j \in 1 .. n : i < j => st[i] < st[j]
         /\ \A i \in 1 .. n : i < n => en[i] < Size
         /\ \A i \in 1 .. n : en[i] <= st[1] + Size /\ st[1] <= st[i]
<1>0. Size \in Int
  BY CellRangesAssumption
<1>1. \A i, j \in 1 .. n : i < j => st[i] < st[j]
  BY <1>0 DEF Layout
<1>2. \A i \in 1 .. n : i < n => en[i] < Size
  BY <1>0 DEF Layout
<1>3. ASSUME NEW i \in 1 .. n
      PROVE  en[i] <= st[1] + Size /\ st[1] <= st[i]
  <2>1. 1 \in 1 .. n /\ n \in 1 .. n /\ n # 0
    BY DEF Layout
  <2>2. st[1] <= st[i]
    <3>1. i = 1 \/ 1 < i
      OBVIOUS
    <3> QED BY <1>1, <2>1, <3>1 DEF Layout
  <2>3. CASE i = n
    BY <2>1, <2>2, <2>3 DEF Layout
  <2>4. CASE i < n
    <3>1. en[i] < Size /\ 0 <= st[1]
      BY <1>2, <2>1, <2>4 DEF Layout
    <3> QED BY <1>0, <2>1, <2>2, <3>1 DEF Layout
  <2> QED BY <2>3, <2>4 DEF Layout
<1> QED BY <1>1, <1>2, <1>3

\* No byte is within two cells.
LEMMA OneOwnerLemma ==
  ASSUME NEW n, NEW st, NEW en, Layout(n, st, en), NEW a \in Addresses,
         NEW i \in 1 .. n, NEW j \in 1 .. n, Within(st[i], en[i], a), Within(st[j], en[j], a)
  PROVE  i = j
<1> SUFFICES ASSUME NEW k \in 1 .. n, NEW l \in 1 .. n, k < l,
                    Within(st[k], en[k], a), Within(st[l], en[l], a)
             PROVE  FALSE
  BY DEF Layout
<1>1. Size \in Int /\ a \in Int /\ 0 <= a
  BY CellRangesAssumption DEF Addresses
<1>2. /\ st[k] \in Int /\ en[k] \in Int /\ st[l] \in Int /\ en[l] \in Int /\ st[1] \in Int
      /\ en[k] <= st[l] /\ st[k] < en[k]
  BY DEF Layout
<1>3. k < n
  BY DEF Layout
<1>4. en[k] < Size /\ en[l] <= st[1] + Size /\ st[1] <= st[k]
  BY <1>3, LayoutLemma
<1> QED BY <1>1, <1>2, <1>4 DEF Within

\* So it is with the cells themselves.
LEMMA HasLemma ==
  ASSUME NEW cs \in Maps, NEW i \in 1 .. Len(cs), NEW a
  PROVE  Has(cs[i], a) <=> Within(Starts(cs)[i], Ends(cs)[i], a)
  BY MapLemma DEF Has, Within

-----------------------------------------------------------------------------
(* What the searches find.                                                 *)

\* indexOfCreatureAtAddress finds the cell that has the address, if one does.
LEMMA IndexOfLemma ==
  ASSUME NEW cs \in Maps, NEW a \in Addresses
  PROVE  LET r == IndexOf(cs, a)
         IN  /\ r \in 0 .. Len(cs)
             /\ r # 0 => Has(cs[r], a)
             /\ r = 0 => \A i \in 1 .. Len(cs) : ~ Has(cs[i], a)
<1> DEFINE n == Len(cs)
           st == Starts(cs)
           en == Ends(cs)
           low == {m \in 1 .. n : a < cs[m].start}
           high == {m \in 1 .. n : a >= End(cs[m])}
           e == [k \in 0 .. n |-> 0]
           g == SearchFor(cs, a)
           f == g[[low |-> 1, high |-> n]]
<1>1. /\ Layout(n, st, en) /\ n \in Nat /\ cs \in Seq(Cells)
      /\ \A i \in 1 .. n : cs[i] \in Cells /\ st[i] = cs[i].start /\ en[i] = End(cs[i])
      /\ \A i \in 1 .. n : Has(cs[i], a) <=> Within(st[i], en[i], a)
      /\ cs # <<>> <=> n # 0
      /\ cs # <<>> => Last(cs) = cs[n]
  BY MapLemma, HasLemma
<1>2. Size \in Int /\ a \in Int /\ 0 <= a /\ a < Size
  BY CellRangesAssumption DEF Addresses
<1>3. \A m \in 1 .. n : (m \in low <=> a < st[m]) /\ (m \in high <=> a >= en[m])
  BY <1>1
<1>4. Loop(g, n, low, high, e)
  BY <1>1, SearchForLoop
<1> HIDE DEF low, high, g, n, st, en
<1>5. \A i, j \in 1 .. n : i <= j => (i \in low => j \in low) /\ (j \in high => i \in high)
  <2> SUFFICES ASSUME NEW i \in 1 .. n, NEW j \in 1 .. n, i < j
               PROVE  (i \in low => j \in low) /\ (j \in high => i \in high)
    BY <1>1
  <2>1. st[i] < st[j] /\ en[i] <= st[j] /\ st[j] < en[j]
    BY <1>1, LayoutLemma DEF Layout
  <2>2. st[i] \in Int /\ st[j] \in Int /\ en[i] \in Int /\ en[j] \in Int
    BY <1>1 DEF Layout
  <2> QED BY <1>2, <1>3, <2>1, <2>2
<1>6. \/ f \in 1 .. n /\ f \notin low /\ f \notin high
      \/ \E k \in 0 .. n : /\ f = e[k]
                           /\ \A i \in 1 .. k : i \in high
                           /\ \A i \in k + 1 .. n : i \in low
  <2> HIDE DEF e
  <2> QED BY <1>1, <1>4, <1>5, ReturnsLemma
<1>7. IndexOf(cs, a) =
        IF f = 0 /\ cs # <<>> /\ a < cs[1].start /\ ContainsOffset(Last(cs), a) THEN n ELSE f
  BY DEF IndexOf, n, g
<1>8. n # 0 => (ContainsOffset(Last(cs), a) <=> Within(st[n], en[n], a)) /\ cs[1].start = st[1]
  BY <1>1, ContainsLemma
<1> HIDE DEF f
<1>9. CASE f \in 1 .. n /\ f \notin low /\ f \notin high
  <2>1. st[f] <= a /\ a < en[f]
    BY <1>1, <1>2, <1>3, <1>9 DEF Layout
  <2>2. Has(cs[f], a)
    BY <1>1, <1>9, <2>1 DEF Within
  <2>3. IndexOf(cs, a) = f
    BY <1>1, <1>7, <1>9
  <2> QED BY <1>9, <2>2, <2>3 DEF n
<1>10. ASSUME NEW k \in 0 .. n, f = e[k], \A i \in 1 .. k : i \in high, \A i \in k + 1 .. n : i \in low
       PROVE  /\ IndexOf(cs, a) \in 0 .. n
              /\ IndexOf(cs, a) # 0 => Has(cs[IndexOf(cs, a)], a)
              /\ IndexOf(cs, a) = 0 => \A i \in 1 .. n : ~ Has(cs[i], a)
  <2>1. f = 0
    BY <1>10
  <2>2. CASE n # 0 /\ a < st[1] /\ Within(st[n], en[n], a)
    <3>1. IndexOf(cs, a) = n
      BY <1>1, <1>7, <1>8, <2>1, <2>2
    <3> QED BY <1>1, <2>2, <3>1
  <2>3. CASE ~ (n # 0 /\ a < st[1] /\ Within(st[n], en[n], a))
    <3>1. IndexOf(cs, a) = 0
      BY <1>1, <1>7, <1>8, <2>1, <2>3
    <3>2. ASSUME NEW i \in 1 .. n, Within(st[i], en[i], a)
          PROVE  FALSE
      <4>1. st[i] \in Int /\ en[i] \in Int /\ st[1] \in Int /\ n # 0
        BY <1>1 DEF Layout
      <4>2. a < st[i] \/ a >= en[i]
        BY <1>1, <1>3, <1>10
      <4>3. a + Size < en[i]
        BY <1>2, <3>2, <4>1, <4>2 DEF Within
      <4>4. i = n
        <5>1. i < n => en[i] < Size
          BY <1>1, LayoutLemma
        <5> QED BY <1>1, <1>2, <4>1, <4>3, <5>1
      <4>5. en[i] <= st[1] + Size
        BY <1>1, LayoutLemma
      <4>6. a < st[1]
        BY <1>2, <4>1, <4>3, <4>5
      <4> QED BY <2>3, <3>2, <4>1, <4>4, <4>6
    <3> QED BY <1>1, <3>1, <3>2
  <2> QED BY <2>2, <2>3
<1> QED BY <1>6, <1>9, <1>10 DEF n

\* indexAtOrBefore finds the last cell that starts at or before the address, or the
\* first cell if none does; or the last cell, because it wraps around the address.
LEMMA IndexAtOrBeforeLemma ==
  ASSUME NEW cs \in Maps, cs # <<>>, NEW a \in Addresses
  PROVE  LET n == Len(cs)
             st == Starts(cs)
             r == IndexAtOrBefore(cs, a)
         IN  \/ r = n /\ a < st[1] /\ Has(cs[n], a)
             \/ \E k \in 0 .. n : /\ \A i \in 1 .. k : st[i] <= a
                                  /\ \A i \in k + 1 .. n : a < st[i]
                                  /\ r = IF k = 0 THEN 1 ELSE k
                                  /\ ~ (a < st[1] /\ Has(cs[n], a))
<1> DEFINE n == Len(cs)
           st == Starts(cs)
           low == {m \in 1 .. n : a < cs[m].start}
           high == {m \in 1 .. n : a > cs[m].start}
           e == [k \in 0 .. n |-> k]
           g == SearchBefore(cs, a)
           f == g[[low |-> 1, high |-> n]]
<1>1. /\ Layout(n, st, Ends(cs)) /\ n \in Nat \ {0} /\ cs \in Seq(Cells)
      /\ \A i \in 1 .. n : cs[i] \in Cells /\ st[i] = cs[i].start
      /\ Last(cs) = cs[n]
      /\ st \in [1 .. n -> Int]
  BY MapLemma DEF Layout
<1>2. a \in Int
  BY CellRangesAssumption DEF Addresses
<1>3. \A m \in 1 .. n : (m \in low <=> a < st[m]) /\ (m \in high <=> a > st[m])
  BY <1>1
<1>4. Loop(g, n, low, high, e)
  BY <1>1, SearchBeforeLoop
<1>5. \A i, j \in 1 .. n : i < j => st[i] < st[j]
  BY <1>1, LayoutLemma
<1>6. IndexAtOrBefore(cs, a) =
        IF a < cs[1].start /\ ContainsOffset(Last(cs), a) THEN n ELSE IF f = 0 THEN 1 ELSE f
  BY DEF IndexAtOrBefore
<1> HIDE DEF low, high, g, n, st
<1>7. \A i, j \in 1 .. n : i <= j => (i \in low => j \in low) /\ (j \in high => i \in high)
  BY <1>1, <1>2, <1>3, <1>5
<1>8. \/ f \in 1 .. n /\ f \notin low /\ f \notin high
      \/ \E k \in 0 .. n : /\ f = e[k]
                           /\ \A i \in 1 .. k : i \in high
                           /\ \A i \in k + 1 .. n : i \in low
  <2> HIDE DEF e
  <2> QED BY <1>1, <1>4, <1>7, ReturnsLemma
<1> HIDE DEF f
<1>9. \E k \in 0 .. n : /\ f = k
                        /\ \A i \in 1 .. k : st[i] <= a
                        /\ \A i \in k + 1 .. n : a < st[i]
  <2>1. CASE f \in 1 .. n /\ f \notin low /\ f \notin high
    <3>1. st[f] = a
      BY <1>1, <1>2, <1>3, <2>1
    <3>2. \A i \in 1 .. f : st[i] <= a
      BY <1>1, <1>2, <1>5, <2>1, <3>1
    <3>3. \A i \in f + 1 .. n : a < st[i]
      BY <1>1, <1>2, <1>5, <2>1, <3>1
    <3> QED BY <2>1, <3>2, <3>3
  <2>2. ASSUME NEW k \in 0 .. n, f = e[k], \A i \in 1 .. k : i \in high, \A i \in k + 1 .. n : i \in low
        PROVE  f = k /\ (\A i \in 1 .. k : st[i] <= a) /\ (\A i \in k + 1 .. n : a < st[i])
    BY <1>1, <1>2, <1>3, <2>2
  <2> QED BY <1>8, <2>1, <2>2
<1>10. cs[1].start = st[1] /\ (ContainsOffset(Last(cs), a) <=> Has(cs[n], a))
  BY <1>1, ContainsLemma
<1> QED BY <1>6, <1>9, <1>10 DEF n, st

-----------------------------------------------------------------------------
(* spaceAtAddress.                                                         *)

\* A cell from a up to z fits in front of cell r, of n cells.
Fits(n, st, en, r, a, z) ==
  /\ r \in 1 .. n + 1
  /\ \A i \in 1 .. n : i < r => en[i] <= a
  /\ \A i \in 1 .. n : i >= r => z <= st[i]
  /\ n # 0 /\ r = 1 => en[n] <= a + Size
  /\ n # 0 /\ r = n + 1 => z <= st[1] + Size

\* The numbers of a request, and of the map.
LEMMA RequestLemma ==
  ASSUME NEW a \in Addresses, NEW length \in 1 .. Size
  PROVE  /\ Size \in Int /\ a \in Int /\ a + length \in Int
         /\ 0 <= a /\ a < Size /\ a < a + length /\ a + length <= a + Size
  BY CellRangesAssumption DEF Addresses

\* A request that wraps fits behind the last cell, if what wraps ends where the first
\* cell starts or before; otherwise a cell has a byte that it asks for.
LEMMA IndexIfWrappingLemma ==
  ASSUME NEW cs \in Maps, cs # <<>>, NEW a \in Addresses, NEW length \in 1 .. Size,
         a + length > Size
  PROVE  LET r == IndexIfWrapping(cs, a, length)
         IN  /\ r # 0 => Fits(Len(cs), Starts(cs), Ends(cs), r, a, a + length)
             /\ r = 0 => \E b \in Addresses : /\ Within(a, a + length, b)
                                              /\ \E i \in 1 .. Len(cs) : Has(cs[i], b)
<1> DEFINE n == Len(cs)
           st == Starts(cs)
           en == Ends(cs)
           z == a + length
<1>1. /\ Layout(n, st, en) /\ n \in Nat \ {0}
      /\ \A i \in 1 .. n : st[i] = cs[i].start /\ en[i] = End(cs[i])
      /\ \A i \in 1 .. n, b \in Addresses : Has(cs[i], b) <=> Within(st[i], en[i], b)
      /\ Last(cs) = cs[n]
  BY MapLemma, HasLemma
<1>2. /\ Size \in Int /\ a \in Int /\ z \in Int
      /\ 0 <= a /\ a < Size /\ a < z /\ z <= a + Size /\ z > Size
  BY RequestLemma
<1>3. z % Size = IF z < Size THEN z ELSE z - Size
  <2>1. z \in 0 .. (2 * Size) - 1
    BY <1>2
  <2> HIDE DEF z
  <2> QED BY <2>1, AroundLemma
<1>4. 1 \in 1 .. n /\ n \in 1 .. n
  BY <1>1
<1>5. /\ st \in [1 .. n -> Int] /\ en \in [1 .. n -> Int]
      /\ 0 <= st[1] /\ st[1] < Size /\ st[1] < en[1]
      /\ st[n] < Size /\ st[n] < en[n] /\ 0 <= st[n] /\ en[n] <= st[n] + Size
  BY <1>1, <1>4 DEF Layout
<1>6. st[1] = cs[1].start /\ st[n] = cs[n].start /\ en[n] = End(cs[n])
  BY <1>1, <1>4
<1>7. IndexIfWrapping(cs, a, length) =
        IF en[n] <= Size /\ a >= en[n] /\ z - Size <= st[1] THEN n + 1 ELSE 0
  <2>1. ~ (en[n] > Size) <=> en[n] <= Size
    BY <1>2, <1>5, <1>4
  <2>2. z % Size = z - Size
    BY <1>2, <1>3
  <2> HIDE DEF st, en
  <2>3. IndexIfWrapping(cs, a, length) =
          IF ~ (en[n] > Size) /\ a >= en[n] /\ z % Size <= st[1] THEN n + 1 ELSE 0
    BY <1>1, <1>6 DEF IndexIfWrapping, Wraps
  <2> QED BY <2>1, <2>2, <2>3
<1> HIDE DEF n, st, en, z
<1>8. CASE en[n] <= Size /\ a >= en[n] /\ z - Size <= st[1]
  <2>1. ASSUME NEW i \in 1 .. n
        PROVE  en[i] <= a
    <3>1. i = n \/ (i < n /\ en[i] <= st[n])
      BY <1>1, <1>4 DEF Layout
    <3> QED BY <1>2, <1>4, <1>5, <1>8, <3>1
  <2>2. z <= st[1] + Size
    BY <1>2, <1>4, <1>5, <1>8
  <2>3. IndexIfWrapping(cs, a, length) = n + 1 /\ n + 1 # 0 /\ n + 1 \in 1 .. n + 1
    BY <1>1, <1>7, <1>8
  <2>4. Fits(n, st, en, n + 1, a, z)
    BY <1>1, <2>1, <2>2, <2>3 DEF Fits
  <2> QED BY <2>3, <2>4 DEF n, st, en, z
<1>9. CASE ~ (en[n] <= Size /\ a >= en[n] /\ z - Size <= st[1])
  <2> SUFFICES \E b \in Addresses : Within(a, z, b) /\ \E i \in 1 .. n : Within(st[i], en[i], b)
    <3>1. IndexIfWrapping(cs, a, length) = 0
      BY <1>7, <1>9
    <3> QED BY <1>1, <3>1 DEF n, z
  <2>1. CASE en[n] > Size
    <3>1. Size - 1 \in Addresses /\ Within(a, z, Size - 1) /\ Within(st[n], en[n], Size - 1)
      BY <1>2, <1>4, <1>5, <2>1 DEF Within, Addresses
    <3> QED BY <1>4, <3>1
  <2>2. CASE a < en[n] /\ st[n] <= a
    <3>1. Within(a, z, a) /\ Within(st[n], en[n], a)
      BY <1>2, <2>2 DEF Within
    <3> QED BY <1>4, <3>1
  <2>3. CASE a < st[n]
    <3>1. st[n] \in Addresses /\ Within(a, z, st[n]) /\ Within(st[n], en[n], st[n])
      BY <1>2, <1>4, <1>5, <2>3 DEF Within, Addresses
    <3> QED BY <1>4, <3>1
  <2>4. CASE z - Size > st[1]
    <3>1. st[1] \in Addresses /\ Within(a, z, st[1]) /\ Within(st[1], en[1], st[1])
      BY <1>2, <1>4, <1>5, <2>4 DEF Within, Addresses
    <3> QED BY <1>4, <3>1
  <2> QED BY <1>2, <1>4, <1>5, <1>9, <2>1, <2>2, <2>3, <2>4
<1> QED BY <1>8, <1>9

\* So does any request: the position that spaceAtAddress answers is one where the
\* cell fits, and when it answers none, a cell has a byte that is asked for.
LEMMA SpaceIndexLemma ==
  ASSUME NEW cs \in Maps, NEW a \in Addresses, NEW length \in 1 .. Size
  PROVE  LET r == SpaceIndex(cs, a, length)
         IN  /\ r # 0 => Fits(Len(cs), Starts(cs), Ends(cs), r, a, a + length)
             /\ r = 0 => \E b \in Addresses : /\ Within(a, a + length, b)
                                              /\ \E i \in 1 .. Len(cs) : Has(cs[i], b)
<1> DEFINE n == Len(cs)
           st == Starts(cs)
           en == Ends(cs)
           z == a + length
           index == IndexAtOrBefore(cs, a)
           r == SpaceIndex(cs, a, length)
           Taken == \E b \in Addresses : Within(a, z, b) /\ \E i \in 1 .. n : Within(st[i], en[i], b)
<1>1. /\ Layout(n, st, en) /\ n \in Nat
      /\ \A i \in 1 .. n : st[i] = cs[i].start /\ en[i] = End(cs[i]) /\ cs[i] \in Cells
      /\ \A i \in 1 .. n, b \in Addresses : Has(cs[i], b) <=> Within(st[i], en[i], b)
      /\ cs # <<>> <=> n # 0
      /\ cs # <<>> => Last(cs) = cs[n]
  BY MapLemma, HasLemma
<1>2. /\ Size \in Int /\ a \in Int /\ z \in Int
      /\ 0 <= a /\ a < Size /\ a < z /\ z <= a + Size
  BY RequestLemma
<1>3. CASE cs = <<>>
  <2>1. SpaceIndex(cs, a, length) = 1
    BY <1>3 DEF SpaceIndex
  <2>2. Fits(Len(cs), Starts(cs), Ends(cs), 1, a, z)
    <3>1. n = 0
      BY <1>1, <1>3
    <3> HIDE DEF n, st, en, z
    <3>2. Fits(n, st, en, 1, a, z)
      BY <3>1 DEF Fits
    <3> QED BY <3>2 DEF n, st, en
  <2> QED BY <2>1, <2>2
<1>4. CASE cs # <<>> /\ z > Size
  <2>1. SpaceIndex(cs, a, length) = IndexIfWrapping(cs, a, length)
    BY <1>4 DEF SpaceIndex
  <2> QED BY <1>4, <2>1, IndexIfWrappingLemma
<1>5. CASE cs # <<>> /\ ~ (z > Size)
  <2>1. 1 \in 1 .. n /\ n \in 1 .. n /\ n # 0
    BY <1>1, <1>5
  <2>2. /\ st \in [1 .. n -> Int] /\ en \in [1 .. n -> Int]
        /\ \A i \in 1 .. n : 0 <= st[i] /\ st[i] < Size /\ st[i] < en[i]
        /\ \A i, j \in 1 .. n : i < j => en[i] <= st[j] /\ st[i] < st[j]
        /\ \A i \in 1 .. n : st[1] <= st[i]
    BY <1>1, LayoutLemma DEF Layout
  <2>3. index \in 1 .. n
    BY <1>5, <2>1, IndexAtOrBeforeLemma
  <2>4. \A i \in 1 .. n : ContainsOffset(cs[i], a) <=> Within(st[i], en[i], a)
    BY <1>1, ContainsLemma
  <2>5. st[1] = cs[1].start /\ en[1] = End(cs[1]) /\ Last(cs) = cs[n]
    BY <1>1, <1>5, <2>1
  <2>6. n # 1 => 2 \in 1 .. n /\ st[2] = cs[2].start
    <3>1. n # 1 => 2 \in 1 .. n
      <4>1. n \in Nat /\ n # 0
        BY <1>1, <2>1
      <4> HIDE DEF n
      <4> QED BY <4>1
    <3> QED BY <1>1, <3>1
  <2>7. SpaceIndex(cs, a, length) =
          IF ContainsOffset(cs[index], a) THEN 0
          ELSE IF index = 1 THEN IndexIfFirst(cs, a, length)
          ELSE IF index < n /\ z > cs[index + 1].start THEN 0
          ELSE index + 1
    BY <1>5 DEF SpaceIndex
  <2>8. \/ index = n /\ Within(st[n], en[n], a)
        \/ \E k \in 0 .. n : /\ \A i \in 1 .. k : st[i] <= a
                             /\ \A i \in k + 1 .. n : a < st[i]
                             /\ index = IF k = 0 THEN 1 ELSE k
    BY <1>1, <1>5, <2>1, IndexAtOrBeforeLemma
  <2>9. IndexIfFirst(cs, a, length) =
          IF ContainsOffset(cs[n], a) THEN 0
          ELSE IF z <= st[1] THEN 1
          ELSE IF a >= en[1] /\ (n = 1 \/ z <= st[2]) THEN 2
          ELSE 0
    BY <2>5, <2>6 DEF IndexIfFirst
  <2>10. (r # 0 => Fits(n, st, en, r, a, z)) /\ (r = 0 => Taken)
    <3> HIDE DEF n, st, en, z, index
    <3>1. CASE Within(st[index], en[index], a)
      <4>1. Within(a, z, a)
        BY <1>2 DEF Within
      <4>2. r = 0 /\ Taken
        BY <2>3, <2>4, <2>7, <3>1, <4>1
      <4> QED BY <4>2
    <3>2. CASE ~ Within(st[index], en[index], a)
      <4> HIDE DEF r
      <4>1. PICK k \in 0 .. n : /\ \A i \in 1 .. k : st[i] <= a
                                /\ \A i \in k + 1 .. n : a < st[i]
                                /\ index = IF k = 0 THEN 1 ELSE k
        BY <2>8, <3>2
      <4>2. ASSUME NEW i \in 1 .. n, a < st[i], st[i] < z
            PROVE  Taken
        <5>1. st[i] \in Int /\ 0 <= st[i] /\ st[i] < Size /\ st[i] < en[i] /\ en[i] \in Int
          BY <2>2
        <5>2. st[i] \in Addresses /\ Within(a, z, st[i]) /\ Within(st[i], en[i], st[i])
          BY <1>2, <4>2, <5>1 DEF Within, Addresses
        <5> QED BY <5>2
      <4> HIDE DEF Taken
      <4>3. CASE index = 1
        <5>1. r = IF Within(st[n], en[n], a) THEN 0
                  ELSE IF z <= st[1] THEN 1
                  ELSE IF a >= en[1] /\ (n = 1 \/ z <= st[2]) THEN 2
                  ELSE 0
          BY <2>1, <2>3, <2>4, <2>7, <2>9, <3>2, <4>3 DEF r
        <5>2. CASE Within(st[n], en[n], a)
          <6>1. Within(a, z, a)
            BY <1>2 DEF Within
          <6> QED BY <2>1, <5>1, <5>2, <6>1 DEF Taken
        <5>3. CASE ~ Within(st[n], en[n], a) /\ z <= st[1]
          <6>1. \A i \in 1 .. n : z <= st[i]
            BY <1>2, <2>1, <2>2, <5>3
          <6>2. en[n] <= a + Size
            BY <1>2, <2>1, <2>2, <5>3 DEF Within
          <6>3. n # 0 /\ 1 = n + 1 => z <= st[1] + Size
            BY <1>1, <2>1
          <6>4. Fits(n, st, en, 1, a, z)
            BY <1>1, <2>1, <6>1, <6>2, <6>3 DEF Fits
          <6> QED BY <5>1, <5>3, <6>4
        <5>4. CASE /\ ~ Within(st[n], en[n], a) /\ ~ (z <= st[1])
                   /\ a >= en[1] /\ (n = 1 \/ z <= st[2])
          <6>1. \A i \in 1 .. n : i < 2 => en[i] <= a
            BY <1>2, <2>1, <2>2, <5>4
          <6>2. ASSUME NEW i \in 1 .. n, i >= 2
                PROVE  z <= st[i]
            <7>1. n # 1 /\ 2 \in 1 .. n
              BY <1>1, <6>2
            <7>2. i = 2 \/ 2 < i
              BY <6>2
            <7>3. st[2] <= st[i] /\ st[2] \in Int /\ st[i] \in Int
              BY <2>2, <7>1, <7>2
            <7> QED BY <1>2, <5>4, <7>1, <7>3
          <6>3. z <= st[1] + Size /\ 2 \in 1 .. n + 1
            BY <1>1, <1>2, <1>5, <2>1, <2>2
          <6>4. Fits(n, st, en, 2, a, z)
            BY <6>1, <6>2, <6>3 DEF Fits
          <6> QED BY <5>1, <5>4, <6>4
        <5>5. CASE /\ ~ Within(st[n], en[n], a) /\ ~ (z <= st[1])
                   /\ ~ (a >= en[1] /\ (n = 1 \/ z <= st[2]))
          <6>1. r = 0
            BY <5>1, <5>5
          <6>2. st[1] \in Int /\ en[1] \in Int
            BY <2>1, <2>2
          <6>3. CASE a < st[1]
            <7>1. st[1] < z
              BY <1>2, <5>5, <6>2
            <7> QED BY <2>1, <4>2, <6>1, <6>3, <7>1
          <6>4. CASE ~ (a < st[1])
            <7>1. a >= en[1]
              BY <1>2, <3>2, <4>3, <6>2, <6>4 DEF Within
            <7>2. n # 1 /\ ~ (z <= st[2]) /\ 2 \in 1 .. n /\ st[2] \in Int
              BY <2>2, <2>6, <5>5, <7>1
            <7>3. k = 1
              <8>1. k # 0
                BY <2>1, <4>1, <6>4
              <8> QED BY <4>1, <4>3, <8>1
            <7>4. a < st[2]
              BY <1>1, <4>1, <7>2, <7>3
            <7>5. st[2] < z
              BY <1>2, <7>2
            <7> QED BY <4>2, <6>1, <7>2, <7>4, <7>5
          <6> QED BY <6>3, <6>4
        <5> QED BY <5>2, <5>3, <5>4, <5>5
      <4>4. CASE index # 1
        <5>1. k = index /\ k > 1 /\ k \in 1 .. n
          BY <2>3, <4>1, <4>4
        <5>2. r = IF k < n /\ z > cs[k + 1].start THEN 0 ELSE k + 1
          BY <2>3, <2>4, <2>7, <3>2, <4>4, <5>1 DEF r
        <5>3. k < n => k + 1 \in 1 .. n /\ cs[k + 1].start = st[k + 1] /\ a < st[k + 1]
          <6>1. k < n => k + 1 \in 1 .. n /\ k + 1 \in k + 1 .. n
            BY <1>1, <5>1
          <6> QED BY <1>1, <4>1, <6>1
        <5>4. CASE k < n /\ z > st[k + 1]
          <6>1. st[k + 1] < z
            BY <1>2, <2>2, <5>3, <5>4
          <6> QED BY <4>2, <5>2, <5>3, <5>4, <6>1
        <5>5. CASE ~ (k < n /\ z > st[k + 1])
          <6>1. r = k + 1 /\ k + 1 # 0 /\ k + 1 # 1 /\ k + 1 \in 1 .. n + 1
            BY <1>1, <5>1, <5>2, <5>3, <5>5
          <6>2. en[k] <= a
            <7>1. st[k] <= a /\ st[k] \in Int /\ en[k] \in Int
              BY <2>2, <4>1, <5>1
            <7> QED BY <1>2, <3>2, <5>1, <7>1 DEF Within
          <6>3. ASSUME NEW i \in 1 .. n, i < k + 1
                PROVE  en[i] <= a
            <7>1. i = k \/ i < k
              BY <5>1, <6>3
            <7>2. i < k => en[i] <= st[k] /\ st[k] < en[k]
              BY <2>2, <5>1
            <7>3. en[i] \in Int /\ st[k] \in Int /\ en[k] \in Int
              BY <2>2, <5>1
            <7> QED BY <1>2, <6>2, <7>1, <7>2, <7>3
          <6>4. ASSUME NEW i \in 1 .. n, i >= k + 1
                PROVE  z <= st[i]
            <7>1. k < n
              BY <1>1, <5>1, <6>4
            <7>2. z <= st[k + 1]
              BY <1>2, <2>2, <5>3, <5>5, <7>1
            <7>3. i = k + 1 \/ k + 1 < i
              BY <5>1, <6>4
            <7>4. st[k + 1] <= st[i] /\ st[k + 1] \in Int /\ st[i] \in Int
              BY <2>2, <5>3, <7>1, <7>3
            <7> QED BY <1>2, <7>2, <7>4
          <6>5. z <= st[1] + Size
            BY <1>2, <1>5, <2>1, <2>2
          <6>6. Fits(n, st, en, k + 1, a, z)
            BY <6>1, <6>3, <6>4, <6>5 DEF Fits
          <6> QED BY <6>1, <6>6
        <5> QED BY <5>4, <5>5
      <4> QED BY <4>3, <4>4
    <3> QED BY <3>1, <3>2
  <2>11. Taken => \E b \in Addresses : Within(a, z, b) /\ \E i \in 1 .. n : Has(cs[i], b)
    BY <1>1
  <2> QED BY <2>10, <2>11
<1> QED BY <1>3, <1>4, <1>5

-----------------------------------------------------------------------------
(* Insertion and removal.                                                  *)

\* The element at each place of a list without the one at position p.
LEMMA RemoveAtLemma ==
  ASSUME NEW S, NEW list \in Seq(S), NEW p \in 1 .. Len(list)
  PROVE  /\ RemoveAt(list, p) \in Seq(S)
         /\ Len(RemoveAt(list, p)) = Len(list) - 1
         /\ \A i \in 1 .. Len(list) - 1 :
              RemoveAt(list, p)[i] = IF i < p THEN list[i] ELSE list[i + 1]
<1> DEFINE front == SubSeq(list, 1, p - 1)
           back == SubSeq(list, p + 1, Len(list))
<1>1. /\ front \in Seq(S)
      /\ Len(front) = p - 1
      /\ \A i \in 1 .. p - 1 : front[i] = list[i]
  OBVIOUS
<1>2. /\ back \in Seq(S)
      /\ Len(back) = Len(list) - p
      /\ \A i \in 1 .. Len(list) - p : back[i] = list[i + p]
  OBVIOUS
<1> DEFINE both == front \o back
<1>3. RemoveAt(list, p) = both
  BY DEF RemoveAt
<1> HIDE DEF front, back
<1>4. /\ both \in Seq(S)
      /\ Len(both) = Len(front) + Len(back)
      /\ \A i \in 1 .. Len(front) + Len(back) :
           both[i] = IF i <= Len(front) THEN front[i] ELSE back[i - Len(front)]
  BY <1>1, <1>2, ConcatProperties
<1> HIDE DEF both
<1>5. Len(list) \in Nat /\ Len(both) = Len(list) - 1
  BY <1>1, <1>2, <1>4
<1>6. ASSUME NEW i \in 1 .. Len(list) - 1
      PROVE  both[i] = IF i < p THEN list[i] ELSE list[i + 1]
  <2>1. CASE i < p
    <3>1. i \in 1 .. Len(front) + Len(back) /\ i <= Len(front) /\ i \in 1 .. p - 1
      BY <1>1, <1>2, <1>5, <2>1
    <3>2. both[i] = front[i]
      BY <1>4, <3>1
    <3> QED BY <1>1, <2>1, <3>1, <3>2
  <2>2. CASE i >= p
    <3>1. i - Len(front) \in 1 .. Len(list) - p /\ i - Len(front) + p = i + 1
      BY <1>1, <1>5, <2>2
    <3>2. both[i] = back[i - Len(front)]
      <4>1. i \in 1 .. Len(front) + Len(back) /\ ~(i <= Len(front))
        BY <1>1, <1>2, <1>5, <2>2
      <4> QED BY <1>4, <4>1
    <3>3. both[i] = list[i + 1]
      BY <1>2, <3>1, <3>2
    <3> QED BY <1>5, <2>2, <3>3
  <2> QED BY <1>5, <2>1, <2>2
<1> QED BY <1>3, <1>4, <1>5, <1>6


\* The element at each place of a list into which c was inserted at position p, which
\* may be the one behind the last.
LEMMA InsertAtLemma ==
  ASSUME NEW S, NEW list \in Seq(S), NEW p \in 1 .. Len(list) + 1, NEW c \in S
  PROVE  /\ InsertAt(list, p, c) \in Seq(S)
         /\ Len(InsertAt(list, p, c)) = Len(list) + 1
         /\ \A i \in 1 .. Len(list) + 1 :
              InsertAt(list, p, c)[i] = IF i < p THEN list[i]
                                        ELSE IF i = p THEN c ELSE list[i - 1]
<1> DEFINE front == SubSeq(list, 1, p - 1)
           back == SubSeq(list, p, Len(list))
           new == front \o <<c>>
<1>1. /\ front \in Seq(S)
      /\ Len(front) = p - 1
      /\ \A i \in 1 .. p - 1 : front[i] = list[i]
  OBVIOUS
<1>2. /\ back \in Seq(S)
      /\ Len(back) = Len(list) - p + 1
      /\ \A i \in 1 .. Len(list) - p + 1 : back[i] = list[i + p - 1]
  OBVIOUS
<1>3. <<c>> \in Seq(S) /\ Len(<<c>>) = 1 /\ <<c>>[1] = c
  OBVIOUS
<1> DEFINE all == new \o back
<1>4. InsertAt(list, p, c) = all
  BY DEF InsertAt
<1> HIDE DEF front, back
<1>5. /\ new \in Seq(S)
      /\ Len(new) = p
      /\ \A i \in 1 .. p : new[i] = IF i < p THEN list[i] ELSE c
  <2>1. /\ new \in Seq(S)
        /\ Len(new) = Len(front) + Len(<<c>>)
        /\ \A i \in 1 .. Len(front) + Len(<<c>>) :
             new[i] = IF i <= Len(front) THEN front[i] ELSE <<c>>[i - Len(front)]
    BY <1>1, <1>3, ConcatProperties
  <2> QED BY <1>1, <1>3, <2>1
<1> HIDE DEF new
<1>6. /\ all \in Seq(S)
      /\ Len(all) = Len(new) + Len(back)
      /\ \A i \in 1 .. Len(new) + Len(back) :
           all[i] = IF i <= Len(new) THEN new[i] ELSE back[i - Len(new)]
  BY <1>2, <1>5, ConcatProperties
<1> HIDE DEF all
<1>7. Len(list) \in Nat /\ Len(all) = Len(list) + 1
  BY <1>2, <1>5, <1>6
<1>8. ASSUME NEW i \in 1 .. Len(list) + 1
      PROVE  all[i] = IF i < p THEN list[i] ELSE IF i = p THEN c ELSE list[i - 1]
  <2>1. CASE i <= p
    BY <1>2, <1>5, <1>6, <1>7, <2>1
  <2>2. CASE i > p
    <3>1. i - Len(new) \in 1 .. Len(list) - p + 1 /\ i - Len(new) + p - 1 = i - 1
      BY <1>5, <1>7, <2>2
    <3>2. all[i] = back[i - Len(new)]
      BY <1>2, <1>5, <1>6, <1>7, <2>2
    <3>3. all[i] = list[i - 1]
      BY <1>2, <3>1, <3>2
    <3> QED BY <1>7, <2>2, <3>3
  <2> QED BY <1>7, <2>1, <2>2
<1> QED BY <1>4, <1>6, <1>7, <1>8

\* Cells without their order.
CellsOf(cs) == {cs[i] : i \in 1 .. Len(cs)}

\* The n numbers of f with x put in at position r, and without the one there.
WithAt(n, f, r, x) ==
  [i \in 1 .. n + 1 |-> IF i < r THEN f[i] ELSE IF i = r THEN x ELSE f[i - 1]]
WithoutAt(n, f, r) == [i \in 1 .. n - 1 |-> IF i < r THEN f[i] ELSE f[i + 1]]

\* A cell that fits leaves the map in order.
LEMMA InsertLayout ==
  ASSUME NEW n, NEW st, NEW en, Layout(n, st, en), NEW r,
         NEW a \in Int, NEW z \in Int, 0 <= a, a < Size, a < z, z <= a + Size,
         Fits(n, st, en, r, a, z)
  PROVE  Layout(n + 1, WithAt(n, st, r, a), WithAt(n, en, r, z))
<1> DEFINE s == WithAt(n, st, r, a)
           e == WithAt(n, en, r, z)
<1>1. n \in Nat /\ st \in [1 .. n -> Int] /\ en \in [1 .. n -> Int] /\ Size \in Int
  BY CellRangesAssumption DEF Layout
<1>2. r \in 1 .. n + 1
  BY DEF Fits
<1>3. \A i \in 1 .. n + 1 : (i < r => i \in 1 .. n) /\ (i > r => i - 1 \in 1 .. n)
  BY <1>1, <1>2
<1>4. s \in [1 .. n + 1 -> Int] /\ e \in [1 .. n + 1 -> Int]
  BY <1>1, <1>2, <1>3 DEF WithAt
<1>5. \A i \in 1 .. n + 1 :
        /\ s[i] = IF i < r THEN st[i] ELSE IF i = r THEN a ELSE st[i - 1]
        /\ e[i] = IF i < r THEN en[i] ELSE IF i = r THEN z ELSE en[i - 1]
  BY DEF WithAt
<1> HIDE DEF s, e
<1>6. \A i \in 1 .. n + 1 : 0 <= s[i] /\ s[i] < Size /\ s[i] < e[i] /\ e[i] <= s[i] + Size
  <2> TAKE i \in 1 .. n + 1
  <2>1. CASE i < r
    BY <1>1, <1>3, <1>5, <2>1 DEF Layout
  <2>2. CASE i = r
    BY <1>5, <2>2
  <2>3. CASE i > r
    BY <1>1, <1>2, <1>3, <1>5, <2>3 DEF Layout
  <2> QED BY <1>2, <2>1, <2>2, <2>3
<1>7. ASSUME NEW i \in 1 .. n + 1, NEW j \in 1 .. n + 1, i < j
      PROVE  e[i] <= s[j]
  <2>1. CASE j < r
    <3>1. i \in 1 .. n /\ j \in 1 .. n /\ e[i] = en[i] /\ s[j] = st[j]
      BY <1>2, <1>3, <1>5, <1>7, <2>1
    <3> QED BY <1>7, <3>1 DEF Layout
  <2>2. CASE j = r
    <3>1. i \in 1 .. n /\ i < r /\ e[i] = en[i] /\ s[j] = a
      BY <1>2, <1>3, <1>5, <1>7, <2>2
    <3> QED BY <3>1 DEF Fits
  <2>3. CASE j > r /\ i < r
    <3>1. /\ i \in 1 .. n /\ j - 1 \in 1 .. n
          /\ e[i] = en[i] /\ s[j] = st[j - 1]
      BY <1>2, <1>3, <1>5, <1>7, <2>3
    <3>2. i < j - 1
      BY <1>2, <2>3
    <3> QED BY <3>1, <3>2 DEF Layout
  <2>4. CASE j > r /\ i = r
    <3>1. j - 1 \in 1 .. n /\ j - 1 >= r /\ e[i] = z /\ s[j] = st[j - 1]
      BY <1>2, <1>3, <1>5, <2>4
    <3> QED BY <3>1 DEF Fits
  <2>5. CASE j > r /\ i > r
    <3>1. /\ i - 1 \in 1 .. n /\ j - 1 \in 1 .. n /\ i - 1 < j - 1
          /\ e[i] = en[i - 1] /\ s[j] = st[j - 1]
      BY <1>2, <1>3, <1>5, <1>7, <2>5
    <3> QED BY <3>1 DEF Layout
  <2> QED BY <1>2, <2>1, <2>2, <2>3, <2>4, <2>5
<1>8. e[n + 1] <= s[1] + Size
  <2>0. 1 \in 1 .. n + 1 /\ n + 1 \in 1 .. n + 1 /\ s[1] \in Int /\ e[n + 1] \in Int
    BY <1>1, <1>4
  <2>1. CASE n = 0
    <3>1. s[1] = a /\ e[n + 1] = z
      BY <1>2, <1>5, <2>0, <2>1
    <3> QED BY <3>1
  <2>2. CASE n # 0
    <3>1. 1 \in 1 .. n /\ n \in 1 .. n /\ st[1] \in Int /\ en[n] \in Int
      BY <1>1, <2>2
    <3>2. en[n] <= st[1] + Size
      BY <2>2 DEF Layout
    <3>3. CASE r = 1
      <4>1. s[1] = a /\ e[n + 1] = en[n]
        <5>1. ~ (n + 1 < r) /\ n + 1 # r /\ n + 1 - 1 = n
          BY <1>1, <2>2, <3>3
        <5>2. e[n + 1] = en[n + 1 - 1] /\ s[1] = a
          BY <1>1, <1>5, <2>0, <3>3, <5>1
        <5> QED BY <5>1, <5>2
      <4> QED BY <2>2, <3>3, <4>1 DEF Fits
    <3>4. CASE r = n + 1
      <4>1. s[1] = st[1] /\ e[n + 1] = z
        <5>1. 1 < r
          BY <1>1, <2>2, <3>4
        <5> QED BY <1>5, <2>0, <3>4, <5>1
      <4> QED BY <2>2, <3>4, <4>1 DEF Fits
    <3>5. CASE r # 1 /\ r # n + 1
      <4>1. 1 < r /\ ~ (n + 1 < r) /\ n + 1 # r /\ n + 1 - 1 = n
        BY <1>1, <1>2, <3>5
      <4>2. s[1] = st[1] /\ e[n + 1] = en[n]
        <5>1. e[n + 1] = en[n + 1 - 1] /\ s[1] = st[1]
          BY <1>1, <1>5, <2>0, <4>1
        <5> QED BY <4>1, <5>1
      <4> QED BY <3>2, <4>2
    <3> QED BY <3>3, <3>4, <3>5
  <2> QED BY <2>1, <2>2
<1>9. Layout(n + 1, s, e)
  BY <1>1, <1>4, <1>6, <1>7, <1>8 DEF Layout
<1> QED BY <1>9 DEF s, e

\* So does taking a cell out.
LEMMA RemoveLayout ==
  ASSUME NEW n, NEW st, NEW en, Layout(n, st, en), NEW r \in 1 .. n
  PROVE  Layout(n - 1, WithoutAt(n, st, r), WithoutAt(n, en, r))
<1> DEFINE s == WithoutAt(n, st, r)
           e == WithoutAt(n, en, r)
           old(i) == IF i < r THEN i ELSE i + 1
<1>1. n \in Nat /\ n # 0 /\ st \in [1 .. n -> Int] /\ en \in [1 .. n -> Int] /\ Size \in Int
  BY CellRangesAssumption DEF Layout
<1>2. \A i \in 1 .. n - 1 : old(i) \in 1 .. n /\ s[i] = st[old(i)] /\ e[i] = en[old(i)]
  BY <1>1 DEF WithoutAt
<1>3. \A i, j \in 1 .. n - 1 : i < j => old(i) < old(j)
  BY <1>1
<1>4. s \in [1 .. n - 1 -> Int] /\ e \in [1 .. n - 1 -> Int] /\ n - 1 \in Nat
  <2>1. n - 1 \in Nat
    BY <1>1
  <2> QED BY <1>1, <2>1 DEF WithoutAt
<1> HIDE DEF s, e, old
<1>5. \A i \in 1 .. n - 1 : 0 <= s[i] /\ s[i] < Size /\ s[i] < e[i] /\ e[i] <= s[i] + Size
  BY <1>2 DEF Layout
<1>6. \A i, j \in 1 .. n - 1 : i < j => e[i] <= s[j]
  BY <1>2, <1>3 DEF Layout
<1>7. ASSUME n - 1 # 0
      PROVE  e[n - 1] <= s[1] + Size
  <2>1. 1 \in 1 .. n - 1 /\ n - 1 \in 1 .. n - 1 /\ 1 \in 1 .. n
    BY <1>1, <1>7
  <2>2. /\ old(n - 1) \in 1 .. n /\ e[n - 1] = en[old(n - 1)] /\ en[old(n - 1)] \in Int
        /\ old(1) \in 1 .. n /\ s[1] = st[old(1)] /\ st[old(1)] \in Int
    BY <1>1, <1>2, <2>1
  <2>3. en[old(n - 1)] <= st[1] + Size /\ st[1] <= st[old(1)] /\ st[1] \in Int
    BY <1>1, <2>1, <2>2, LayoutLemma
  <2> QED BY <1>1, <2>2, <2>3
<1>8. Layout(n - 1, s, e)
  BY <1>4, <1>5, <1>6, <1>7 DEF Layout
<1> QED BY <1>8 DEF s, e

\* An insertion where spaceAtAddress says adds one cell to the map.
LEMMA InsertLemma ==
  ASSUME NEW cs \in Maps, NEW c \in Cells, NEW r,
         Fits(Len(cs), Starts(cs), Ends(cs), r, c.start, End(c))
  PROVE  /\ InsertAt(cs, r, c) \in Maps
         /\ CellsOf(InsertAt(cs, r, c)) = CellsOf(cs) \union {c}
<1> DEFINE n == Len(cs)
           new == InsertAt(cs, r, c)
           st == Starts(cs)
           en == Ends(cs)
<1>1. cs \in Seq(Cells) /\ n \in Nat /\ Layout(n, st, en)
  BY MapLemma
<1>2. r \in 1 .. n + 1
  BY DEF Fits
<1>3. /\ new \in Seq(Cells) /\ Len(new) = n + 1
      /\ \A i \in 1 .. n + 1 : new[i] = IF i < r THEN cs[i] ELSE IF i = r THEN c ELSE cs[i - 1]
  BY <1>1, <1>2, InsertAtLemma
<1> HIDE DEF new
<1>4. Starts(new) = WithAt(n, st, r, c.start)
  <2>1. ASSUME NEW i \in 1 .. n + 1
        PROVE  new[i].start = IF i < r THEN st[i] ELSE IF i = r THEN c.start ELSE st[i - 1]
    <3>1. (i < r => i \in 1 .. n) /\ (i # r /\ ~ (i < r) => i - 1 \in 1 .. n)
      BY <1>1, <1>2
    <3> QED BY <1>3, <3>1 DEF Starts
  <2> QED BY <1>3, <2>1 DEF Starts, WithAt
<1>5. Ends(new) = WithAt(n, en, r, End(c))
  <2>1. ASSUME NEW i \in 1 .. n + 1
        PROVE  End(new[i]) = IF i < r THEN en[i] ELSE IF i = r THEN End(c) ELSE en[i - 1]
    <3>1. (i < r => i \in 1 .. n) /\ (i # r /\ ~ (i < r) => i - 1 \in 1 .. n)
      BY <1>1, <1>2
    <3> QED BY <1>3, <3>1 DEF Ends
  <2> QED BY <1>3, <2>1 DEF Ends, WithAt
<1>6. /\ c.start \in Int /\ End(c) \in Int /\ 0 <= c.start /\ c.start < Size
      /\ c.start < End(c) /\ End(c) <= c.start + Size
  BY CellLemma
<1> HIDE DEF st, en, n
<1>7. Layout(Len(new), Starts(new), Ends(new))
  <2>1. Fits(n, st, en, r, c.start, End(c))
    BY DEF n, st, en
  <2>2. Layout(n + 1, WithAt(n, st, r, c.start), WithAt(n, en, r, End(c)))
    BY <1>1, <1>6, <2>1, InsertLayout
  <2> QED BY <1>3, <1>4, <1>5, <2>2
<1>8. new \in Maps
  BY <1>3, <1>7, MapLayout
<1>9. CellsOf(new) = CellsOf(cs) \union {c}
  <2>1. ASSUME NEW d, d \in CellsOf(new)
        PROVE  d \in CellsOf(cs) \union {c}
    <3>1. PICK i \in 1 .. n + 1 : d = new[i]
      BY <1>3, <2>1 DEF CellsOf
    <3>2. (i < r => i \in 1 .. n) /\ (i # r /\ ~ (i < r) => i - 1 \in 1 .. n)
      BY <1>1, <1>2
    <3> QED BY <1>3, <3>1, <3>2 DEF CellsOf, n
  <2>2. c \in CellsOf(new)
    BY <1>1, <1>2, <1>3 DEF CellsOf
  <2>3. ASSUME NEW i \in 1 .. n
        PROVE  cs[i] \in CellsOf(new)
    <3>1. CASE i < r
      <4>1. i \in 1 .. n + 1 /\ new[i] = cs[i]
        BY <1>1, <1>3, <3>1
      <4> QED BY <1>3, <4>1 DEF CellsOf
    <3>2. CASE ~ (i < r)
      <4>1. i + 1 \in 1 .. n + 1 /\ ~ (i + 1 < r) /\ i + 1 # r /\ i + 1 - 1 = i
        BY <1>1, <1>2, <3>2
      <4>2. new[i + 1] = cs[i + 1 - 1]
        BY <1>3, <4>1
      <4>3. new[i + 1] = cs[i]
        BY <4>1, <4>2
      <4> QED BY <1>3, <4>1, <4>3 DEF CellsOf
    <3> QED BY <3>1, <3>2
  <2> QED BY <2>1, <2>2, <2>3 DEF CellsOf, n
<1> QED BY <1>8, <1>9 DEF new

\* A removal takes one cell out of the map.
LEMMA RemoveLemma ==
  ASSUME NEW cs \in Maps, NEW r \in 1 .. Len(cs)
  PROVE  /\ RemoveAt(cs, r) \in Maps
         /\ CellsOf(RemoveAt(cs, r)) = CellsOf(cs) \ {cs[r]}
<1> DEFINE n == Len(cs)
           new == RemoveAt(cs, r)
           st == Starts(cs)
           en == Ends(cs)
<1>1. cs \in Seq(Cells) /\ n \in Nat /\ Layout(n, st, en)
  BY MapLemma
<1>2. r \in 1 .. n /\ n - 1 \in Nat
  BY <1>1
<1>3. /\ new \in Seq(Cells) /\ Len(new) = n - 1
      /\ \A i \in 1 .. n - 1 : new[i] = IF i < r THEN cs[i] ELSE cs[i + 1]
  BY <1>1, <1>2, RemoveAtLemma
<1> HIDE DEF new
<1>4. \A i \in 1 .. n - 1 : i \in 1 .. n /\ i + 1 \in 1 .. n
  BY <1>1
<1>5. Starts(new) = WithoutAt(n, st, r)
  <2>1. ASSUME NEW i \in 1 .. n - 1
        PROVE  new[i].start = IF i < r THEN st[i] ELSE st[i + 1]
    BY <1>3, <1>4 DEF Starts
  <2> QED BY <1>3, <2>1 DEF Starts, WithoutAt
<1>6. Ends(new) = WithoutAt(n, en, r)
  <2>1. ASSUME NEW i \in 1 .. n - 1
        PROVE  End(new[i]) = IF i < r THEN en[i] ELSE en[i + 1]
    BY <1>3, <1>4 DEF Ends
  <2> QED BY <1>3, <2>1 DEF Ends, WithoutAt
<1> HIDE DEF st, en, n
<1>7. Layout(Len(new), Starts(new), Ends(new))
  <2>1. Layout(n - 1, WithoutAt(n, st, r), WithoutAt(n, en, r))
    BY <1>1, <1>2, RemoveLayout
  <2> QED BY <1>3, <1>5, <1>6, <2>1
<1>8. new \in Maps
  BY <1>3, <1>7, MapLayout
<1>9. \A i \in 1 .. n : cs[i] = cs[r] => i = r
  <2>1. \A i, j \in 1 .. n : i < j => st[i] < st[j]
    BY <1>1, LayoutLemma
  <2>2. \A i \in 1 .. n : st[i] = cs[i].start /\ st[i] \in Int
    BY <1>1, MapLemma DEF st, n, Layout
  <2> SUFFICES ASSUME NEW i \in 1 .. n, cs[i] = cs[r], i # r
               PROVE  FALSE
    OBVIOUS
  <2>3. st[i] = st[r] /\ st[i] \in Int /\ (i < r \/ r < i)
    BY <1>1, <1>2, <2>2
  <2> QED BY <1>2, <2>1, <2>3
<1>10. CellsOf(new) = CellsOf(cs) \ {cs[r]}
  <2>1. ASSUME NEW i \in 1 .. n - 1
        PROVE  new[i] \in CellsOf(cs) \ {cs[r]}
    <3>1. CASE i < r
      BY <1>3, <1>4, <1>9, <3>1 DEF CellsOf, n
    <3>2. CASE ~ (i < r)
      <4>1. i + 1 # r /\ i + 1 \in 1 .. n
        BY <1>1, <1>2, <1>4, <3>2
      <4> QED BY <1>3, <1>9, <3>2, <4>1 DEF CellsOf, n
    <3> QED BY <3>1, <3>2
  <2>2. ASSUME NEW i \in 1 .. n, i # r
        PROVE  cs[i] \in CellsOf(new)
    <3>1. CASE i < r
      <4>1. i \in 1 .. n - 1 /\ new[i] = cs[i]
        BY <1>1, <1>2, <1>3, <3>1
      <4> QED BY <1>3, <4>1 DEF CellsOf
    <3>2. CASE ~ (i < r)
      <4>1. i - 1 \in 1 .. n - 1 /\ ~ (i - 1 < r) /\ i - 1 + 1 = i
        BY <1>1, <1>2, <2>2, <3>2
      <4>2. new[i - 1] = cs[i - 1 + 1]
        BY <1>3, <4>1
      <4>3. new[i - 1] = cs[i]
        BY <4>1, <4>2
      <4> QED BY <1>3, <4>1, <4>3 DEF CellsOf
    <3> QED BY <3>1, <3>2
  <2>3. \A d \in CellsOf(new) : \E i \in 1 .. n - 1 : d = new[i]
    BY <1>3 DEF CellsOf
  <2>4. \A d \in CellsOf(cs) \ {cs[r]} : \E i \in 1 .. n : i # r /\ d = cs[i]
    BY DEF CellsOf, n
  <2> QED BY <2>1, <2>2, <2>3, <2>4
<1> QED BY <1>8, <1>10 DEF new

-----------------------------------------------------------------------------
(* Who owns a byte, and how many are owned.                                *)

OwnedBytes(cs) == {b \in Addresses : \E c \in CellsOf(cs) : Has(c, b)}

BytesOf(c) == {b \in Addresses : Has(c, b)}

\* creatureAtAddress answers the owner of the cell that has the byte.
LEMMA CreatureAtLemma ==
  ASSUME NEW cs \in Maps, NEW b \in Addresses
  PROVE  /\ \A c \in CellsOf(cs) : Has(c, b) => CreatureAt(cs, b) = c.owner
         /\ b \notin OwnedBytes(cs) => CreatureAt(cs, b) = NoCreature
         /\ CreatureAt(cs, b) # NoCreature <=> b \in OwnedBytes(cs)
<1> DEFINE r == IndexOf(cs, b)
<1>1. /\ r \in 0 .. Len(cs)
      /\ r # 0 => Has(cs[r], b)
      /\ r = 0 => \A i \in 1 .. Len(cs) : ~ Has(cs[i], b)
  BY IndexOfLemma
<1>2. CreatureAt(cs, b) = IF r = 0 THEN NoCreature ELSE cs[r].owner
  BY DEF CreatureAt
<1> HIDE DEF r
<1>3. Len(cs) \in Nat /\ \A i \in 1 .. Len(cs) : cs[i] \in Cells
  BY MapLemma
<1>4. \A i, j \in 1 .. Len(cs) : Has(cs[i], b) /\ Has(cs[j], b) => i = j
  <2> SUFFICES ASSUME NEW i \in 1 .. Len(cs), NEW j \in 1 .. Len(cs), Has(cs[i], b), Has(cs[j], b)
               PROVE  i = j
    OBVIOUS
  <2>1. Within(Starts(cs)[i], Ends(cs)[i], b) /\ Within(Starts(cs)[j], Ends(cs)[j], b)
    BY HasLemma
  <2>2. Layout(Len(cs), Starts(cs), Ends(cs))
    BY MapLemma
  <2> QED BY <2>1, <2>2, OneOwnerLemma
<1>5. CASE r = 0
  BY <1>1, <1>2, <1>5 DEF CellsOf, OwnedBytes
<1>6. CASE r # 0
  <2>1. r \in 1 .. Len(cs) /\ Has(cs[r], b)
    BY <1>1, <1>3, <1>6
  <2>2. cs[r] \in CellsOf(cs) /\ b \in OwnedBytes(cs)
    BY <2>1 DEF CellsOf, OwnedBytes
  <2>3. cs[r].owner # NoCreature
    BY <1>3, <2>1, CellRangesAssumption DEF Cells
  <2>4. \A c \in CellsOf(cs) : Has(c, b) => c = cs[r]
    BY <1>4, <2>1 DEF CellsOf
  <2> QED BY <1>2, <1>6, <2>2, <2>3, <2>4
<1> QED BY <1>5, <1>6

\* A cell has as many bytes as it is long.
LEMMA BytesLemma ==
  ASSUME NEW c \in Cells
  PROVE  IsFiniteSet(BytesOf(c)) /\ Cardinality(BytesOf(c)) = c.length
<1> DEFINE L == c.length
           s == c.start
           f == [i \in 0 .. L - 1 |-> IF s + i < Size THEN s + i ELSE s + i - Size]
<1>1. /\ L \in Int /\ s \in Int /\ Size \in Int /\ End(c) = s + L
      /\ 0 <= s /\ s < Size /\ 1 <= L /\ L <= Size
  BY CellLemma
<1>2. \A b : b \in BytesOf(c) <=> b \in Int /\ 0 <= b /\ b < Size /\ ((s <= b /\ b < s + L) \/ b + Size < s + L)
  BY <1>1 DEF BytesOf, Has, Addresses
<1> HIDE DEF L, s
<1>3. f \in [0 .. L - 1 -> BytesOf(c)]
  BY <1>1, <1>2
<1>4. \A i, j \in 0 .. L - 1 : f[i] = f[j] => i = j
  BY <1>1
<1>5. ASSUME NEW b \in BytesOf(c)
      PROVE  \E i \in 0 .. L - 1 : f[i] = b
  <2>1. CASE s <= b
    <3>1. b - s \in 0 .. L - 1 /\ s + (b - s) = b
      BY <1>1, <1>2, <2>1
    <3>2. f[b - s] = b
      BY <1>1, <1>2, <3>1
    <3> QED BY <3>1, <3>2
  <2>2. CASE ~ (s <= b)
    <3>1. b + Size - s \in 0 .. L - 1 /\ s + (b + Size - s) = b + Size
      BY <1>1, <1>2, <2>2
    <3>2. f[b + Size - s] = b
      BY <1>1, <1>2, <3>1
    <3> QED BY <3>1, <3>2
  <2> QED BY <2>1, <2>2
<1> HIDE DEF f
<1>6. f \in Bijection(0 .. L - 1, BytesOf(c))
  BY <1>3, <1>4, <1>5 DEF Bijection, Injection, Surjection, IsInjective
<1>7. IsFiniteSet(0 .. L - 1) /\ Cardinality(0 .. L - 1) = L
  <2>1. 0 \in Int /\ L - 1 \in Int
    BY <1>1
  <2>2. IsFiniteSet(0 .. L - 1) /\ Cardinality(0 .. L - 1) = IF 0 > L - 1 THEN 0 ELSE L - 1 - 0 + 1
    BY <2>1, FS_Interval, Zenon
  <2> QED BY <1>1, <2>2
<1>8. ExistsBijection(0 .. L - 1, BytesOf(c))
  BY <1>6 DEF ExistsBijection
<1>9. IsFiniteSet(BytesOf(c)) /\ Cardinality(BytesOf(c)) = L
  BY <1>7, <1>8, FS_Bijection
<1> QED BY <1>9 DEF L

\* The bytes that are owned, without an order among the cells.
LEMMA OwnedLemma ==
  ASSUME NEW cs \in Maps
  PROVE  /\ IsFiniteSet(OwnedBytes(cs)) /\ OwnedBytes(cs) \subseteq Addresses
         /\ Cardinality(OwnedBytes(cs)) \in 0 .. Size
         /\ CellsOf(cs) \subseteq Cells
         /\ \A c, d \in CellsOf(cs), b \in Addresses : Has(c, b) /\ Has(d, b) => c = d
<1>1. OwnedBytes(cs) \subseteq Addresses
  BY DEF OwnedBytes
<1>2. IsFiniteSet(Addresses) /\ Cardinality(Addresses) = Size
  <2>1. 0 \in Int /\ Size - 1 \in Int /\ Size \in Nat \ {0}
    BY CellRangesAssumption
  <2>2. IsFiniteSet(Addresses) /\ Cardinality(Addresses) = IF 0 > Size - 1 THEN 0 ELSE Size - 1 - 0 + 1
    BY <2>1, FS_Interval, Zenon DEF Addresses
  <2> QED BY <2>1, <2>2
<1>3. IsFiniteSet(OwnedBytes(cs)) /\ Cardinality(OwnedBytes(cs)) <= Size
  BY <1>1, <1>2, FS_Subset
<1>4. Cardinality(OwnedBytes(cs)) \in Nat
  BY <1>3, FS_CardinalityType
<1>5. CellsOf(cs) \subseteq Cells
  BY MapLemma DEF CellsOf
<1>6. ASSUME NEW i \in 1 .. Len(cs), NEW j \in 1 .. Len(cs), NEW b \in Addresses,
             Has(cs[i], b), Has(cs[j], b)
      PROVE  i = j
  <2>1. Within(Starts(cs)[i], Ends(cs)[i], b) /\ Within(Starts(cs)[j], Ends(cs)[j], b)
    BY <1>6, HasLemma
  <2>2. Layout(Len(cs), Starts(cs), Ends(cs))
    BY MapLemma
  <2> QED BY <2>1, <2>2, OneOwnerLemma
<1>7. ASSUME NEW c \in CellsOf(cs), NEW d \in CellsOf(cs), NEW b \in Addresses, Has(c, b), Has(d, b)
      PROVE  c = d
  <2>1. PICK i \in 1 .. Len(cs), j \in 1 .. Len(cs) : c = cs[i] /\ d = cs[j]
    BY DEF CellsOf
  <2> QED BY <1>6, <1>7, <2>1
<1>8. Cardinality(OwnedBytes(cs)) \in 0 .. Size
  BY <1>3, <1>4, CellRangesAssumption
<1> QED BY <1>1, <1>3, <1>5, <1>7, <1>8

\* What an insertion of a cell, whose owner has none, does to the ownership: it
\* succeeds if and only if all its bytes are free, and its owner then owns these.
LEMMA InsertEffect ==
  ASSUME NEW cs \in Maps, NEW c \in Cells, \A d \in CellsOf(cs) : d.owner # c.owner
  PROVE  LET r == SpaceIndex(cs, c.start, c.length)
             new == InsertAt(cs, r, c)
         IN  /\ r # 0 <=> \A b \in BytesOf(c) : CreatureAt(cs, b) = NoCreature
             /\ r # 0 => /\ new \in Maps
                         /\ CellsOf(new) = CellsOf(cs) \union {c}
                         /\ \A b \in Addresses :
                              CreatureAt(new, b) = IF b \in BytesOf(c) THEN c.owner ELSE CreatureAt(cs, b)
                         /\ Cardinality(OwnedBytes(new)) = Cardinality(OwnedBytes(cs)) + c.length
<1> DEFINE r == SpaceIndex(cs, c.start, c.length)
           new == InsertAt(cs, r, c)
<1>1. /\ c.start \in Addresses /\ c.length \in 1 .. Size /\ End(c) = c.start + c.length
  BY CellLemma DEF Addresses
<1>2. /\ r # 0 => Fits(Len(cs), Starts(cs), Ends(cs), r, c.start, End(c))
      /\ r = 0 => \E b \in Addresses : /\ Within(c.start, End(c), b)
                                       /\ \E i \in 1 .. Len(cs) : Has(cs[i], b)
  BY <1>1, SpaceIndexLemma
<1> HIDE DEF r
<1>3. ASSUME r = 0
      PROVE  \E b \in BytesOf(c) : CreatureAt(cs, b) # NoCreature
  <2>1. PICK b \in Addresses : Within(c.start, End(c), b) /\ \E i \in 1 .. Len(cs) : Has(cs[i], b)
    BY <1>2, <1>3
  <2>2. b \in BytesOf(c)
    BY <2>1 DEF BytesOf, Has, Within
  <2>3. b \in OwnedBytes(cs)
    BY <2>1 DEF OwnedBytes, CellsOf
  <2> QED BY <2>2, <2>3, CreatureAtLemma
<1>4. ASSUME r # 0
      PROVE  /\ new \in Maps
             /\ CellsOf(new) = CellsOf(cs) \union {c}
             /\ \A b \in BytesOf(c) : CreatureAt(cs, b) = NoCreature
             /\ \A b \in Addresses :
                  CreatureAt(new, b) = IF b \in BytesOf(c) THEN c.owner ELSE CreatureAt(cs, b)
             /\ Cardinality(OwnedBytes(new)) = Cardinality(OwnedBytes(cs)) + c.length
  <2>1. new \in Maps /\ CellsOf(new) = CellsOf(cs) \union {c}
    BY <1>2, <1>4, InsertLemma
  <2> HIDE DEF new
  <2>2. \A d, f \in CellsOf(new), b \in Addresses : Has(d, b) /\ Has(f, b) => d = f
    BY <2>1, OwnedLemma
  <2>3. ASSUME NEW b \in BytesOf(c)
        PROVE  b \in Addresses /\ Has(c, b) /\ b \notin OwnedBytes(cs)
    <3>1. b \in Addresses /\ Has(c, b)
      BY DEF BytesOf
    <3>2. \A d \in CellsOf(cs) : ~ Has(d, b)
      BY <2>1, <2>2, <3>1
    <3> QED BY <3>1, <3>2 DEF OwnedBytes
  <2>4. \A b \in BytesOf(c) : CreatureAt(cs, b) = NoCreature
    BY <2>3, CreatureAtLemma
  <2>5. ASSUME NEW b \in Addresses
        PROVE  CreatureAt(new, b) = IF b \in BytesOf(c) THEN c.owner ELSE CreatureAt(cs, b)
    <3>1. CASE b \in BytesOf(c)
      BY <2>1, <2>3, <3>1, CreatureAtLemma
    <3>2. CASE b \notin BytesOf(c) /\ b \in OwnedBytes(cs)
      <4>1. PICK d \in CellsOf(cs) : Has(d, b)
        BY <3>2 DEF OwnedBytes
      <4>2. CreatureAt(new, b) = d.owner
        BY <2>1, <4>1, CreatureAtLemma
      <4>3. CreatureAt(cs, b) = d.owner
        BY <4>1, CreatureAtLemma
      <4> QED BY <3>2, <4>2, <4>3
    <3>3. CASE b \notin BytesOf(c) /\ b \notin OwnedBytes(cs)
      <4>1. b \notin OwnedBytes(new)
        BY <2>1, <3>3 DEF OwnedBytes, BytesOf
      <4>2. CreatureAt(new, b) = NoCreature
        BY <2>1, <4>1, CreatureAtLemma
      <4>3. CreatureAt(cs, b) = NoCreature
        BY <3>3, CreatureAtLemma
      <4> QED BY <3>3, <4>2, <4>3
    <3> QED BY <3>1, <3>2, <3>3
  <2>6. Cardinality(OwnedBytes(new)) = Cardinality(OwnedBytes(cs)) + c.length
    <3>1. OwnedBytes(new) = OwnedBytes(cs) \union BytesOf(c)
      BY <2>1 DEF OwnedBytes, BytesOf
    <3>2. OwnedBytes(cs) \intersect BytesOf(c) = {}
      BY <2>3
    <3>3. IsFiniteSet(OwnedBytes(cs)) /\ Cardinality(OwnedBytes(cs)) \in Int
      BY OwnedLemma
    <3>4. IsFiniteSet(BytesOf(c)) /\ Cardinality(BytesOf(c)) = c.length
      BY BytesLemma
    <3>5. Cardinality(OwnedBytes(new)) =
            Cardinality(OwnedBytes(cs)) + Cardinality(BytesOf(c)) - Cardinality({})
      BY <3>1, <3>2, <3>3, <3>4, FS_Union
    <3>6. Cardinality({}) = 0
      BY FS_EmptySet
    <3> QED BY <1>1, <3>3, <3>4, <3>5, <3>6
  <2> QED BY <2>1, <2>4, <2>5, <2>6
<1> QED BY <1>3, <1>4 DEF r

\* What a removal of the only cell of its owner does to the ownership: the bytes of
\* that owner are free, and no others.
LEMMA RemoveEffect ==
  ASSUME NEW cs \in Maps, NEW r \in 1 .. Len(cs),
         \A d \in CellsOf(cs) : d.owner = cs[r].owner => d = cs[r]
  PROVE  LET new == RemoveAt(cs, r)
         IN  /\ new \in Maps
             /\ CellsOf(new) = CellsOf(cs) \ {cs[r]}
             /\ \A b \in Addresses :
                  CreatureAt(new, b) = IF CreatureAt(cs, b) = cs[r].owner THEN NoCreature
                                                                          ELSE CreatureAt(cs, b)
             /\ Cardinality(OwnedBytes(new)) = Cardinality(OwnedBytes(cs)) - cs[r].length
<1> DEFINE new == RemoveAt(cs, r)
           c == cs[r]
<1>1. new \in Maps /\ CellsOf(new) = CellsOf(cs) \ {c}
  BY RemoveLemma
<1> HIDE DEF new
<1>2. /\ c \in CellsOf(cs) /\ c \in Cells /\ c.owner # NoCreature /\ c.length \in Int
  BY MapLemma, CellLemma, CellRangesAssumption DEF CellsOf
<1> HIDE DEF c
<1>3. \A d, f \in CellsOf(cs), b \in Addresses : Has(d, b) /\ Has(f, b) => d = f
  BY OwnedLemma
<1>4. \A d \in CellsOf(cs) : d.owner = c.owner => d = c
  BY DEF c
<1>5. ASSUME NEW b \in Addresses
      PROVE  CreatureAt(new, b) = IF CreatureAt(cs, b) = c.owner THEN NoCreature ELSE CreatureAt(cs, b)
  <2>1. CASE b \in OwnedBytes(new)
    <3>1. PICK d \in CellsOf(cs) : d # c /\ Has(d, b) /\ d \in CellsOf(new)
      BY <1>1, <2>1 DEF OwnedBytes
    <3>2. CreatureAt(new, b) = d.owner /\ CreatureAt(cs, b) = d.owner
      BY <1>1, <3>1, CreatureAtLemma
    <3> QED BY <1>4, <3>1, <3>2
  <2>2. CASE b \notin OwnedBytes(new) /\ b \in OwnedBytes(cs)
    <3>1. PICK d \in CellsOf(cs) : Has(d, b)
      BY <2>2 DEF OwnedBytes
    <3>2. d = c
      BY <1>1, <2>2, <3>1 DEF OwnedBytes
    <3>3. CreatureAt(new, b) = NoCreature /\ CreatureAt(cs, b) = c.owner
      BY <1>1, <2>2, <3>1, <3>2, CreatureAtLemma
    <3> QED BY <3>3
  <2>3. CASE b \notin OwnedBytes(new) /\ b \notin OwnedBytes(cs)
    <3>1. CreatureAt(new, b) = NoCreature /\ CreatureAt(cs, b) = NoCreature
      BY <1>1, <2>3, CreatureAtLemma
    <3> QED BY <3>1
  <2> QED BY <2>1, <2>2, <2>3
<1>6. Cardinality(OwnedBytes(new)) = Cardinality(OwnedBytes(cs)) - c.length
  <2>1. OwnedBytes(new) = OwnedBytes(cs) \ BytesOf(c)
    BY <1>1, <1>2, <1>3 DEF OwnedBytes, BytesOf
  <2>2. OwnedBytes(cs) \intersect BytesOf(c) = BytesOf(c)
    BY <1>2 DEF OwnedBytes, BytesOf
  <2>3. IsFiniteSet(OwnedBytes(cs))
    BY OwnedLemma
  <2>4. Cardinality(BytesOf(c)) = c.length
    BY <1>2, BytesLemma
  <2>5. Cardinality(OwnedBytes(cs) \ BytesOf(c)) =
          Cardinality(OwnedBytes(cs)) - Cardinality(OwnedBytes(cs) \intersect BytesOf(c))
    BY <2>3, FS_Difference, Zenon
  <2> QED BY <2>1, <2>2, <2>4, <2>5
<1> QED BY <1>1, <1>5, <1>6 DEF new, c

-----------------------------------------------------------------------------
(* The gaps between cells.                                                 *)

\* Where the gap after cell i ends, counted on past the end of the soup.
GapEnd(n, st, i) == IF i = n THEN st[1] + Size ELSE st[i + 1]

Previous(n, i) == IF i = 1 THEN n ELSE i - 1

\* gapAfterIndex and gapBeforeIndex measure the gaps of the layout.
LEMMA GapLemma ==
  ASSUME NEW cs \in Maps, cs # <<>>, NEW i \in 1 .. Len(cs)
  PROVE  /\ GapAfter(cs, i) = GapEnd(Len(cs), Starts(cs), i) - Ends(cs)[i]
         /\ Previous(Len(cs), i) \in 1 .. Len(cs)
         /\ GapBefore(cs, i) = GapAfter(cs, Previous(Len(cs), i))
<1> DEFINE n == Len(cs)
           st == Starts(cs)
           en == Ends(cs)
<1>1. /\ Layout(n, st, en) /\ n \in Nat \ {0}
      /\ \A j \in 1 .. n : cs[j] \in Cells /\ st[j] = cs[j].start /\ en[j] = End(cs[j])
      /\ Last(cs) = cs[n]
  BY MapLemma
<1>2. 1 \in 1 .. n /\ n \in 1 .. n
  BY <1>1
<1>3. /\ st \in [1 .. n -> Int] /\ en \in [1 .. n -> Int]
      /\ 0 <= st[n] /\ st[n] < en[n] /\ en[n] <= st[n] + Size /\ st[n] < Size
  BY <1>1, <1>2 DEF Layout
<1>4. Size \in Int /\ n \in Int
  BY <1>1, CellRangesAssumption
<1>5. /\ st[1] = cs[1].start /\ st[n] = cs[n].start /\ en[n] = End(cs[n])
      /\ cs[1].length \in Int /\ End(cs[1]) = cs[1].start + cs[1].length
  BY <1>1, <1>2, CellLemma
<1> HIDE DEF n, st, en
<1>6. GapAround(cs) = (st[1] + Size) - en[n]
  <2>1. st[1] \in Int /\ st[n] \in Int /\ en[n] \in Int
    BY <1>2, <1>3
  <2>2. en[n] \in 0 .. (2 * Size) - 1
    BY <1>3, <1>4, <2>1
  <2>3. en[n] % Size = IF en[n] < Size THEN en[n] ELSE en[n] - Size
    BY <2>2, AroundLemma
  <2>4. GapAround(cs) = IF en[n] > Size THEN st[1] - (en[n] % Size) ELSE st[1] + Size - en[n]
    BY <1>1, <1>5 DEF GapAround, Wraps, WrappedEnd
  <2>5. CASE en[n] > Size
    <3>1. en[n] % Size = en[n] - Size
      BY <1>4, <2>1, <2>3, <2>5
    <3> QED BY <1>4, <2>1, <2>4, <2>5, <3>1
  <2>6. CASE ~ (en[n] > Size)
    BY <1>4, <2>1, <2>4, <2>6
  <2> QED BY <2>5, <2>6
<1>7. n = 1 => Size - cs[1].length = (st[1] + Size) - en[1]
  BY <1>2, <1>3, <1>4, <1>5
<1>8. ASSUME NEW j \in 1 .. n
      PROVE  GapAfter(cs, j) = GapEnd(n, st, j) - en[j]
  <2>1. CASE n = 1
    <3>1. j = 1
      BY <2>1
    <3>2. GapAfter(cs, j) = Size - cs[1].length
      BY <2>1 DEF GapAfter, n
    <3>3. GapEnd(n, st, j) = st[1] + Size /\ en[j] = en[1]
      BY <2>1, <3>1 DEF GapEnd
    <3> QED BY <1>7, <2>1, <3>2, <3>3, Zenon
  <2>2. CASE n # 1 /\ j = n
    <3>1. GapAfter(cs, j) = GapAround(cs)
      BY <2>2 DEF GapAfter, n
    <3>2. GapEnd(n, st, j) = st[1] + Size /\ en[j] = en[n]
      BY <2>2 DEF GapEnd
    <3> QED BY <1>6, <3>1, <3>2, Zenon
  <2>3. CASE n # 1 /\ j # n
    <3>1. j + 1 \in 1 .. n
      BY <1>4, <2>3
    <3>2. GapAfter(cs, j) = cs[j + 1].start - End(cs[j])
      BY <2>3 DEF GapAfter, n
    <3> QED BY <1>1, <2>3, <3>1, <3>2 DEF GapEnd
  <2> QED BY <2>1, <2>2, <2>3
<1>9. Previous(n, i) \in 1 .. n
  BY <1>2, <1>4 DEF Previous, n
<1>10. GapBefore(cs, i) = GapAfter(cs, Previous(n, i))
  <2>1. CASE n = 1
    BY <2>1 DEF GapBefore, GapAfter, Previous, n
  <2>2. CASE n # 1 /\ i = 1
    BY <2>2 DEF GapBefore, GapAfter, Previous, n
  <2>3. CASE n # 1 /\ i # 1
    <3>1. i \in Int /\ i - 1 # n /\ i - 1 + 1 = i
      BY <1>4 DEF n
    <3>2. GapBefore(cs, i) = cs[i].start - End(cs[i - 1])
      BY <2>3 DEF GapBefore, n
    <3>3. GapAfter(cs, i - 1) = cs[i - 1 + 1].start - End(cs[i - 1])
      BY <2>3, <3>1 DEF GapAfter, n
    <3> QED BY <2>3, <3>1, <3>2, <3>3 DEF Previous
  <2> QED BY <2>1, <2>2, <2>3
<1> QED BY <1>8, <1>9, <1>10 DEF n, st, en

\* A request that lies in the gap from the byte at end to the byte at next has no
\* byte in common with a cell that ends before the gap or starts after it.
LEMMA ApartLemma ==
  ASSUME NEW p \in Int, NEW length \in Int, NEW k \in {0, Size}, NEW b \in Int,
         NEW first \in Int, NEW end \in Int, NEW next \in Int, NEW s \in Int, NEW e \in Int,
         0 <= b, b < Size, 0 <= p, p < Size, 0 <= s, s < Size, first <= s, first < Size,
         first < end, e <= first + Size, end <= p + k, p + k + length <= next,
         \/ next = first + Size /\ e <= end
         \/ next < Size /\ k = 0 /\ (e <= end \/ next <= s),
         Within(p, p + length, b), Within(s, e, b)
  PROVE  FALSE
<1>1. Size \in Int
  BY CellRangesAssumption
<1>2. CASE k = 0 
  BY <1>1, <1>2 DEF Within
<1>3. CASE k = Size
  BY <1>1, <1>3 DEF Within
<1> QED BY <1>2, <1>3

\* A request that lies between the end of cell i and where its gap ends is accepted,
\* wherever the end of the soup is: k soups on.
LEMMA FreeLemma ==
  ASSUME NEW cs \in Maps, cs # <<>>, NEW i \in 1 .. Len(cs),
         NEW p \in Addresses, NEW length \in 1 .. Size, NEW k \in {0, Size},
         Ends(cs)[i] <= p + k, p + k + length <= GapEnd(Len(cs), Starts(cs), i)
  PROVE  SpaceIndex(cs, p, length) # 0
<1> DEFINE n == Len(cs)
           st == Starts(cs)
           en == Ends(cs)
<1> SUFFICES ASSUME NEW b \in Addresses, Within(p, p + length, b),
                    NEW j \in 1 .. n, Within(st[j], en[j], b)
             PROVE  FALSE
  BY SpaceIndexLemma, HasLemma
<1>1. Layout(n, st, en) /\ n \in Nat \ {0}
  BY MapLemma
<1>2. /\ Size \in Int /\ Size > 0 /\ b \in Int /\ p \in Int /\ k \in Int /\ length \in Int
      /\ 0 <= b /\ b < Size /\ 0 <= p /\ p < Size
  BY CellRangesAssumption DEF Addresses
<1>3. 1 \in 1 .. n /\ n \in 1 .. n /\ i \in 1 .. n
  BY <1>1
<1>4. /\ st \in [1 .. n -> Int] /\ en \in [1 .. n -> Int]
      /\ \A x \in 1 .. n : 0 <= st[x] /\ st[x] < Size /\ st[x] < en[x]
      /\ \A x \in 1 .. n : st[1] <= st[x] /\ en[x] <= st[1] + Size
      /\ \A x, y \in 1 .. n : x < y => en[x] <= st[y]
  BY <1>1, LayoutLemma DEF Layout
<1>5. en[i] <= p + k /\ p + k + length <= GapEnd(n, st, i)
  OBVIOUS
<1> HIDE DEF n, st, en
<1>6. /\ st[1] \in Int /\ st[i] \in Int /\ en[i] \in Int /\ st[j] \in Int /\ en[j] \in Int
      /\ st[j] < Size /\ st[i] < en[i] /\ 0 <= st[j] /\ st[1] <= st[i] /\ st[1] <= st[j]
      /\ en[j] <= st[1] + Size /\ st[1] < Size /\ st[j] < en[j]
  BY <1>3, <1>4
<1>7. en[j] <= en[i] \/ (i # n /\ i + 1 \in 1 .. n /\ st[i + 1] <= st[j])
  <2>1. CASE j <= i
    <3>1. j = i \/ j < i
      BY <2>1
    <3>2. j < i => en[j] <= st[i]
      BY <1>3, <1>4
    <3> QED BY <1>6, <3>1, <3>2
  <2>2. CASE i < j
    <3>1. i # n /\ i + 1 \in 1 .. n
      BY <1>1, <1>3, <2>2
    <3>2. i + 1 = j \/ i + 1 < j
      BY <1>3, <2>2
    <3>3. i + 1 < j => en[i + 1] <= st[j] /\ st[i + 1] < en[i + 1] /\ st[i + 1] \in Int /\ en[i + 1] \in Int
      BY <1>4, <3>1
    <3>4. i + 1 = j => st[i + 1] = st[j]
      OBVIOUS
    <3> QED BY <1>6, <3>1, <3>2, <3>3, <3>4
  <2> QED BY <1>3, <2>1, <2>2
<1>8. CASE i = n
  <2>1. p + k + length <= st[1] + Size
    BY <1>5, <1>8 DEF GapEnd
  <2>2. en[j] <= en[i]
    BY <1>7, <1>8
  <2>3. PICK first, next, end, s, e \in Int :
          first = st[1] /\ next = first + Size /\ end = en[i] /\ s = st[j] /\ e = en[j]
    <3>1. \E next \in Int : next = st[1] + Size
      BY <1>2, <1>6
    <3> QED BY <1>6, <3>1
  <2>4. /\ first <= s /\ 0 <= s /\ s < Size /\ first < Size /\ first < end /\ e <= first + Size
        /\ end <= p + k /\ p + k + length <= next /\ next = first + Size /\ e <= end
        /\ Within(s, e, b)
    <3>1. Within(s, e, b)
      BY <2>3, Zenon
    <3>2. first <= s /\ 0 <= s /\ s < Size /\ first < Size /\ e <= first + Size
      BY <1>6, <2>3, Zenon
    <3>3. first < end
      BY <1>6, <2>3
    <3>4. end <= p + k /\ p + k + length <= next /\ next = first + Size /\ e <= end
      BY <1>5, <2>1, <2>2, <2>3, Zenon
    <3> QED BY <3>1, <3>2, <3>3, <3>4
  <2>5. Within(p, p + length, b)
    OBVIOUS
  <2> QED BY <1>2, <2>4, <2>5, ApartLemma
<1>9. CASE i # n
  <2>1. i + 1 \in 1 .. n
    BY <1>1, <1>3, <1>9
  <2>2. st[i + 1] \in Int /\ st[i + 1] < Size /\ p + k + length <= st[i + 1]
    BY <1>4, <1>5, <1>9, <2>1 DEF GapEnd
  <2>3. k = 0
    <3>1. k # Size
      BY <1>2, <2>2
    <3> QED BY <3>1
  <2>4. en[i] <= p + k /\ p + k + length <= st[i + 1]
    BY <1>5, <1>9 DEF GapEnd
  <2>5. PICK first, next, end, s, e \in Int :
          first = st[1] /\ next = st[i + 1] /\ end = en[i] /\ s = st[j] /\ e = en[j]
    BY <1>6, <2>2
  <2>6. /\ first <= s /\ 0 <= s /\ s < Size /\ first < Size /\ first < end /\ e <= first + Size
        /\ end <= p + k /\ p + k + length <= next /\ next < Size /\ (e <= end \/ next <= s)
        /\ Within(s, e, b)
    <3>1. Within(s, e, b)
      BY <2>5, Zenon
    <3>2. first <= s /\ 0 <= s /\ s < Size /\ first < Size /\ e <= first + Size
      BY <1>6, <2>5, Zenon
    <3>3. first < end
      BY <1>6, <2>5
    <3>4. end <= p + k /\ p + k + length <= next /\ next < Size /\ (e <= end \/ next <= s)
      BY <1>7, <2>2, <2>4, <2>5, Zenon
    <3> QED BY <3>1, <3>2, <3>3, <3>4
  <2>7. Within(p, p + length, b)
    OBVIOUS
  <2> QED BY <1>2, <2>3, <2>6, <2>7, ApartLemma
<1> QED BY <1>8, <1>9

\* If the gap after a cell is long enough, the request fits right behind that cell.
LEMMA FitsBehindLemma ==
  ASSUME NEW cs \in Maps, cs # <<>>, NEW i \in 1 .. Len(cs), NEW length \in 1 .. Size,
         GapAfter(cs, i) >= length
  PROVE  WrappedEnd(cs[i]) \in Addresses /\ SpaceIndex(cs, WrappedEnd(cs[i]), length) # 0
<1> DEFINE e == Ends(cs)[i]
           z == GapEnd(Len(cs), Starts(cs), i)
<1>1. e = End(cs[i]) /\ GapAfter(cs, i) = z - e /\ cs[i] \in Cells
  BY MapLemma, GapLemma
<1>2. /\ e \in 0 .. (2 * Size) - 1 /\ e \in Int /\ e >= 0 /\ e < 2 * Size
      /\ Size \in Int /\ Size > 0 /\ length \in Int
  BY <1>1, CellLemma
<1>3. z \in Int
  <2>1. Layout(Len(cs), Starts(cs), Ends(cs)) /\ Len(cs) \in Nat \ {0}
    BY MapLemma
  <2>2. 1 \in 1 .. Len(cs) /\ (i # Len(cs) => i + 1 \in 1 .. Len(cs))
    BY <2>1
  <2>3. \A j \in 1 .. Len(cs) : Starts(cs)[j] \in Int
    BY <2>1 DEF Layout
  <2> QED BY <1>2, <2>2, <2>3 DEF GapEnd
<1> HIDE DEF e, z
<1>4. WrappedEnd(cs[i]) = IF e < Size THEN e ELSE e - Size
  BY <1>1, <1>2, AroundLemma DEF WrappedEnd
<1>5. e + length <= z
  BY <1>1, <1>2, <1>3
<1>6. CASE e < Size
  <2>1. e \in Addresses /\ WrappedEnd(cs[i]) = e
    BY <1>2, <1>4, <1>6 DEF Addresses
  <2>2. e <= e + 0 /\ e + 0 + length <= z /\ 0 \in {0, Size}
    BY <1>2, <1>5
  <2>3. SpaceIndex(cs, e, length) # 0
    BY <2>1, <2>2, FreeLemma DEF e, z
  <2> QED BY <2>1, <2>3
<1>7. CASE ~ (e < Size)
  <2>1. PICK p \in Int : p = e - Size
    BY <1>2
  <2>2. p \in Addresses /\ WrappedEnd(cs[i]) = p
    BY <1>2, <1>4, <1>7, <2>1 DEF Addresses
  <2>3. e <= p + Size /\ p + Size + length <= z /\ Size \in {0, Size}
    BY <1>2, <1>5, <2>1
  <2>4. SpaceIndex(cs, p, length) # 0
    BY <2>2, <2>3, FreeLemma DEF e, z
  <2> QED BY <2>2, <2>4
<1> QED BY <1>6, <1>7

\* If the gap before a cell is long enough, the request fits right before that cell.
LEMMA FitsBeforeLemma ==
  ASSUME NEW cs \in Maps, cs # <<>>, NEW i \in 1 .. Len(cs), NEW length \in 1 .. Size,
         GapBefore(cs, i) >= length
  PROVE  LET p == (cs[i].start - length + Size) % Size
         IN  p \in Addresses /\ SpaceIndex(cs, p, length) # 0
<1> DEFINE n == Len(cs)
           st == Starts(cs)
           h == Previous(n, i)
           e == Ends(cs)[h]
           z == GapEnd(n, st, h)
           p == (cs[i].start - length + Size) % Size
<1>1. /\ h \in 1 .. n /\ n \in Nat /\ GapAfter(cs, h) = z - e /\ GapBefore(cs, i) = z - e
      /\ st[i] = cs[i].start /\ cs[i] \in Cells
  BY MapLemma, GapLemma
<1>2. /\ Size \in Int /\ Size > 0 /\ length \in Int /\ 1 <= length /\ length <= Size
      /\ st[i] \in Int /\ 0 <= st[i] /\ st[i] < Size
  BY <1>1, CellLemma
<1>3. e \in Int /\ e >= 0
  <2>1. Ends(cs)[h] = End(cs[h]) /\ cs[h] \in Cells
    BY <1>1, MapLemma
  <2> HIDE DEF h
  <2> QED BY <2>1, CellLemma
<1>4. z = IF i = 1 THEN st[i] + Size ELSE st[i]
  <2>1. CASE i = 1
    BY <2>1 DEF Previous, GapEnd
  <2>2. CASE i # 1
    <3>1. i - 1 # n /\ i - 1 + 1 = i
      BY <1>1
    <3> QED BY <2>2, <3>1 DEF Previous, GapEnd
  <2> QED BY <2>1, <2>2
<1>5. p = IF st[i] >= length THEN st[i] - length ELSE st[i] - length + Size
  <2>1. PICK b \in 0 .. (2 * Size) - 1 : b = st[i] - length + Size
    BY <1>2
  <2>2. b % Size = IF b < Size THEN b ELSE b - Size
    BY AroundLemma
  <2>3. p = b % Size
    BY <1>1, <2>1
  <2> HIDE DEF p, st
  <2>4. b < Size <=> ~ (st[i] >= length)
    BY <1>2, <2>1
  <2>5. b - Size = st[i] - length
    BY <1>2, <2>1
  <2> QED BY <2>1, <2>2, <2>3, <2>4, <2>5
<1> HIDE DEF h, e, z, p, st, n
<1>6. e + length <= z
  BY <1>1, <1>2, <1>3, <1>4
<1>7. /\ p \in Addresses /\ p \in Int
      /\ \E k \in {0, Size} : e <= p + k /\ p + k + length <= z
  <2>1. CASE i = 1 /\ st[i] >= length
    <3>1. p = st[i] - length /\ z = st[i] + Size
      BY <1>4, <1>5, <2>1
    <3>2. p \in Addresses /\ e <= p + Size /\ p + Size + length <= z
      BY <1>2, <1>3, <1>6, <2>1, <3>1 DEF Addresses
    <3> QED BY <1>2, <3>1, <3>2
  <2>2. CASE i = 1 /\ ~ (st[i] >= length)
    <3>1. p = st[i] - length + Size /\ z = st[i] + Size
      BY <1>4, <1>5, <2>2
    <3>2. p \in Addresses /\ e <= p + 0 /\ p + 0 + length <= z
      BY <1>2, <1>3, <1>6, <2>2, <3>1 DEF Addresses
    <3> QED BY <1>2, <3>1, <3>2
  <2>3. CASE i # 1
    <3>1. z = st[i]
      BY <1>4, <2>3
    <3>2. st[i] >= length
      BY <1>2, <1>3, <1>6, <3>1
    <3>3. p = st[i] - length
      BY <1>5, <3>2
    <3>4. p \in Addresses /\ e <= p + 0 /\ p + 0 + length <= z
      BY <1>2, <1>3, <1>6, <3>1, <3>2, <3>3 DEF Addresses
    <3> QED BY <1>2, <3>3, <3>4
  <2> QED BY <2>1, <2>2, <2>3
<1>8. PICK k \in {0, Size} : e <= p + k /\ p + k + length <= z
  BY <1>7
<1>9. SpaceIndex(cs, p, length) # 0
  <2>1. h \in 1 .. Len(cs) /\ Ends(cs)[h] <= p + k /\ p + k + length <= GapEnd(Len(cs), Starts(cs), h)
    BY <1>1, <1>8 DEF e, z, n, st
  <2> QED BY <1>7, <2>1, FreeLemma
<1> QED BY <1>7, <1>9 DEF p

\* If every gap is too short, the request is accepted nowhere.
LEMMA NoSpaceLemma ==
  ASSUME NEW cs \in Maps, cs # <<>>, NEW length \in 1 .. Size,
         \A i \in 1 .. Len(cs) : ~ (GapAfter(cs, i) >= length),
         NEW a \in Addresses
  PROVE  SpaceIndex(cs, a, length) = 0
<1> DEFINE n == Len(cs)
           st == Starts(cs)
           en == Ends(cs)
           r == SpaceIndex(cs, a, length)
<1> SUFFICES ASSUME r # 0 PROVE FALSE
  OBVIOUS
<1>1. Layout(n, st, en) /\ n \in Nat \ {0}
  BY MapLemma
<1>2. Fits(n, st, en, r, a, a + length)
  BY SpaceIndexLemma
<1>3. \A i \in 1 .. n : GapAfter(cs, i) = GapEnd(n, st, i) - en[i]
  BY GapLemma
<1>4. Size \in Int /\ a \in Int /\ length \in Int
  BY CellRangesAssumption DEF Addresses
<1>5. st \in [1 .. n -> Int] /\ en \in [1 .. n -> Int] /\ 1 \in 1 .. n /\ n \in 1 .. n
  BY <1>1 DEF Layout
<1>6. \A i \in 1 .. n : ~ (GapAfter(cs, i) >= length)
  OBVIOUS
<1> HIDE DEF n, st, en, r
<1>7. r \in 1 .. n + 1
  BY <1>2 DEF Fits
<1>8. CASE r = 1 \/ r = n + 1
  <2>1. st[1] \in Int /\ en[n] \in Int
    BY <1>5
  <2>2. (st[1] + Size) - en[n] >= length
    <3>1. CASE r = 1
      <4>1. a + length <= st[1] /\ en[n] <= a + Size
        BY <1>1, <1>2, <1>5, <3>1 DEF Fits
      <4> QED BY <1>4, <2>1, <4>1
    <3>2. CASE r = n + 1
      <4>1. a + length <= st[1] + Size /\ en[n] <= a
        BY <1>1, <1>2, <1>5, <3>2 DEF Fits
      <4> QED BY <1>4, <2>1, <4>1
    <3> QED BY <1>8, <3>1, <3>2
  <2>3. GapEnd(n, st, n) = st[1] + Size
    BY DEF GapEnd
  <2>4. GapAfter(cs, n) = (st[1] + Size) - en[n]
    BY <1>3, <1>5, <2>3, Zenon
  <2> QED BY <1>5, <1>6, <2>2, <2>4
<1>9. CASE r # 1 /\ r # n + 1
  <2>1. r \in 1 .. n /\ r - 1 \in 1 .. n /\ r - 1 # n /\ r - 1 + 1 = r /\ r - 1 < r
    BY <1>1, <1>7, <1>9
  <2>2. a + length <= st[r] /\ en[r - 1] <= a /\ st[r] \in Int /\ en[r - 1] \in Int
    BY <1>2, <1>5, <2>1 DEF Fits
  <2>3. GapAfter(cs, r - 1) = st[r - 1 + 1] - en[r - 1]
    BY <1>3, <2>1 DEF GapEnd
  <2>4. GapAfter(cs, r - 1) >= length
    BY <1>4, <2>1, <2>2, <2>3
  <2> QED BY <1>6, <2>1, <2>4
<1> QED BY <1>8, <1>9

-----------------------------------------------------------------------------
(* What every call preserves.                                              *)

\* The cells are in order, mSpaceUsed counts their bytes, and each is where its owner
\* was put, so that removeCreature looks for it at the right place.
IInv ==
  /\ cells \in Maps
  /\ used = Cardinality(OwnedBytes(cells))
  /\ place \in [Creatures -> Places \union {NoPlace}]
  /\ inserted \in BOOLEAN
  /\ \A c \in CellsOf(cells) : place[c.owner] = [start |-> c.start, length |-> c.length]

\* The bytes of a range are those a cell of that place would have.
LEMMA CoveredLemma ==
  ASSUME NEW a \in Addresses, NEW length \in 1 .. Size, NEW x \in Creatures
  PROVE  /\ Cell(a, length, x) \in Cells
         /\ Cell(a, length, x).start = a /\ Cell(a, length, x).length = length
         /\ Cell(a, length, x).owner = x
         /\ Ownership!Covered(a, length) = BytesOf(Cell(a, length, x))
<1>1. /\ Cell(a, length, x) \in Cells
      /\ Cell(a, length, x).start = a /\ Cell(a, length, x).length = length
      /\ Cell(a, length, x).owner = x
      /\ End(Cell(a, length, x)) = a + length
  BY DEF Cell, Cells, End
<1>2. /\ a \in Int /\ length \in Int /\ Size \in Int
      /\ 0 <= a /\ a < Size /\ 1 <= length /\ length <= Size
  BY CellRangesAssumption DEF Addresses
<1>3. \A b : b \in BytesOf(Cell(a, length, x)) <=>
               b \in Int /\ 0 <= b /\ b < Size /\ ((a <= b /\ b < a + length) \/ b + Size < a + length)
  BY <1>1, <1>2 DEF BytesOf, Has, Addresses
<1>4. \A i \in 0 .. length - 1 : (a + i) % Size = IF a + i < Size THEN a + i ELSE a + i - Size
  <2> SUFFICES ASSUME NEW i \in 0 .. length - 1
               PROVE  (a + i) % Size = IF a + i < Size THEN a + i ELSE a + i - Size
    OBVIOUS
  <2>1. PICK b \in 0 .. (2 * Size) - 1 : b = a + i
    BY <1>2
  <2>2. b % Size = IF b < Size THEN b ELSE b - Size
    BY AroundLemma
  <2>3. b = a + i
    BY <2>1
  <2> QED BY <1>2, <2>2, <2>3
<1>5. \A b : b \in Ownership!Covered(a, length) <=> \E i \in 0 .. length - 1 : b = (a + i) % Size
  BY DEF Ownership!Covered
<1>6. ASSUME NEW i \in 0 .. length - 1
      PROVE  (a + i) % Size \in BytesOf(Cell(a, length, x))
  <2>1. (a + i) % Size = IF a + i < Size THEN a + i ELSE a + i - Size
    BY <1>4
  <2>2. CASE a + i < Size
    <3>1. (a + i) % Size = a + i
      BY <2>1, <2>2
    <3>2. a + i \in Int /\ 0 <= a + i /\ a <= a + i /\ a + i < a + length
      BY <1>2
    <3> QED BY <1>3, <2>2, <3>1, <3>2
  <2>3. CASE ~ (a + i < Size)
    <3>1. (a + i) % Size = a + i - Size
      BY <2>1, <2>3
    <3>2. /\ a + i - Size \in Int /\ 0 <= a + i - Size /\ a + i - Size < Size
          /\ a + i - Size + Size < a + length
      BY <1>2, <2>3
    <3> QED BY <1>3, <3>1, <3>2
  <2> QED BY <2>2, <2>3
<1>7. ASSUME NEW b \in BytesOf(Cell(a, length, x))
      PROVE  \E i \in 0 .. length - 1 : b = (a + i) % Size
  <2>0. b \in Int /\ 0 <= b /\ b < Size /\ ((a <= b /\ b < a + length) \/ b + Size < a + length)
    BY <1>3
  <2>1. CASE a <= b
    <3>1. b - a \in 0 .. length - 1 /\ a + (b - a) = b
      BY <1>2, <2>0, <2>1
    <3>2. (a + (b - a)) % Size = b
      BY <1>4, <2>0, <3>1
    <3> QED BY <3>1, <3>2
  <2>2. CASE ~ (a <= b)
    <3>1. b + Size - a \in 0 .. length - 1 /\ a + (b + Size - a) = b + Size
      BY <1>2, <2>0, <2>2
    <3>2. (a + (b + Size - a)) % Size = b
      BY <1>2, <1>4, <2>0, <3>1
    <3> QED BY <3>1, <3>2
  <2> QED BY <2>1, <2>2
<1>8. Ownership!Covered(a, length) = BytesOf(Cell(a, length, x))
  BY <1>5, <1>6, <1>7
<1> QED BY <1>1, <1>8

\* insertCreature keeps the invariant and does what the ownership says.
LEMMA InsertStep ==
  ASSUME IInv, NEW x \in Creatures, NEW a \in Addresses, NEW length \in 1 .. Size,
         InsertCreature(x, a, length)
  PROVE  /\ IInv' /\ Ownership!Insert(x, a, length)
         /\ \/ cells' = cells /\ used' = used
            \/ /\ CellsOf(cells') = CellsOf(cells) \union {Cell(a, length, x)}
               /\ used' = used + length
         /\ \A d \in CellsOf(cells) : d.owner # x
<1> DEFINE c == Cell(a, length, x)
           r == SpaceIndex(cells, a, length)
           new == InsertAt(cells, r, c)
<1>1. /\ c \in Cells /\ c.start = a /\ c.length = length /\ c.owner = x
      /\ Ownership!Covered(a, length) = BytesOf(c)
  BY CoveredLemma
<1>2. /\ x \notin Made
      /\ place' = [place EXCEPT ![x] = [start |-> a, length |-> length]]
      /\ inserted' = (r # 0)
      /\ r # 0 => cells' = new /\ used' = used + length
      /\ r = 0 => cells' = cells /\ used' = used
  BY DEF InsertCreature
<1>3. cells \in Maps /\ CellsOf(cells) \subseteq Cells
  BY OwnedLemma DEF IInv
<1>4. \A d \in CellsOf(cells) : d.owner # x
  <2> SUFFICES ASSUME NEW d \in CellsOf(cells), d.owner = x
               PROVE  FALSE
    OBVIOUS
  <2>1. place[x] = NoPlace
    BY <1>2 DEF Made
  <2>2. place[x] = [start |-> d.start, length |-> d.length]
    BY DEF IInv
  <2>3. d.length \in 1 .. Size /\ d.length = 0
    BY <1>3, <2>1, <2>2 DEF Cells, NoPlace
  <2> QED BY <2>3
<1> HIDE DEF c, r
<1>5. /\ r # 0 <=> \A b \in BytesOf(c) : CreatureAt(cells, b) = NoCreature
      /\ r # 0 => /\ new \in Maps
                  /\ CellsOf(new) = CellsOf(cells) \union {c}
                  /\ \A b \in Addresses :
                       CreatureAt(new, b) = IF b \in BytesOf(c) THEN x ELSE CreatureAt(cells, b)
                  /\ Cardinality(OwnedBytes(new)) = Cardinality(OwnedBytes(cells)) + length
  <2>1. r = SpaceIndex(cells, c.start, c.length)
    BY <1>1 DEF r
  <2> QED BY <1>1, <1>3, <1>4, <2>1, InsertEffect
<1> HIDE DEF new
<1>6. BytesOf(c) \subseteq Addresses
  BY DEF BytesOf
<1>7. /\ OwnerOf = [b \in Addresses |-> CreatureAt(cells, b)]
      /\ OwnerOf' = [b \in Addresses |-> CreatureAt(cells', b)]
  BY DEF OwnerOf
<1>8. place \in [Creatures -> Places \union {NoPlace}] /\ used = Cardinality(OwnedBytes(cells))
  BY DEF IInv
<1>9. /\ place' \in [Creatures -> Places \union {NoPlace}]
      /\ place'[x] = [start |-> a, length |-> length] /\ place'[x] # NoPlace
      /\ \A y \in Creatures : y # x => place'[y] = place[y]
  <2>1. [start |-> a, length |-> length] \in Places /\ [start |-> a, length |-> length] # NoPlace
    BY DEF Places, NoPlace
  <2> QED BY <1>2, <1>8, <2>1
<1>10. Made' = Made \union {x}
  BY <1>9 DEF Made
<1>11. CASE r # 0
  <2>1. cells' = new /\ used' = used + length /\ inserted' = TRUE
    BY <1>2, <1>11
  <2>2. \A d \in CellsOf(cells') : place'[d.owner] = [start |-> d.start, length |-> d.length]
    <3>1. \A d \in CellsOf(cells) : d.owner \in Creatures /\ place[d.owner] = [start |-> d.start, length |-> d.length]
      BY <1>3 DEF IInv, Cells
    <3>2. CellsOf(cells') = CellsOf(cells) \union {c}
      BY <1>5, <1>11, <2>1
    <3> QED BY <1>1, <1>4, <1>9, <3>1, <3>2
  <2>3. IInv'
    BY <1>5, <1>8, <1>9, <1>11, <2>1, <2>2 DEF IInv
  <2>4. OwnerOf' = [b \in Addresses |-> IF b \in BytesOf(c) THEN x ELSE OwnerOf[b]]
    BY <1>5, <1>7, <1>11, <2>1
  <2>5. \A b \in BytesOf(c) : OwnerOf[b] = NoCreature
    BY <1>5, <1>6, <1>7, <1>11
  <2>6. Ownership!Insert(x, a, length)
    BY <1>1, <1>2, <1>10, <2>1, <2>4, <2>5 DEF Ownership!Insert, Ownership!Addresses, Addresses
  <2> QED BY <1>4, <1>5, <1>11, <2>1, <2>3, <2>6 DEF c
<1>12. CASE r = 0
  <2>1. cells' = cells /\ used' = used /\ inserted' = FALSE
    BY <1>2, <1>12
  <2>2. \A d \in CellsOf(cells') : place'[d.owner] = [start |-> d.start, length |-> d.length]
    <3>1. \A d \in CellsOf(cells) : d.owner \in Creatures /\ place[d.owner] = [start |-> d.start, length |-> d.length]
      BY <1>3 DEF IInv, Cells
    <3> QED BY <1>4, <1>9, <2>1, <3>1
  <2>3. IInv'
    BY <1>3, <1>8, <1>9, <2>1, <2>2 DEF IInv
  <2>4. OwnerOf' = OwnerOf
    BY <1>7, <2>1
  <2>5. ~ \A b \in BytesOf(c) : OwnerOf[b] = NoCreature
    BY <1>5, <1>6, <1>7, <1>12
  <2>6. Ownership!Insert(x, a, length)
    BY <1>1, <1>2, <1>10, <2>1, <2>4, <2>5 DEF Ownership!Insert
  <2> QED BY <1>4, <2>1, <2>3, <2>6
<1> QED BY <1>11, <1>12

\* So does removeCreature.
LEMMA RemoveStep ==
  ASSUME IInv, NEW x \in Creatures, RemoveCreature(x)
  PROVE  /\ IInv' /\ Ownership!Remove(x)
         /\ \/ /\ \A d \in CellsOf(cells) : d.owner # x
               /\ cells' = cells /\ used' = used
            \/ /\ \E d \in CellsOf(cells) : d.owner = x
               /\ CellsOf(cells') = {d \in CellsOf(cells) : d.owner # x}
               /\ used' = used - place[x].length
<1> DEFINE at == IndexOf(cells, place[x].start)
           r == CellToRemove(x)
           new == RemoveAt(cells, r)
<1>1. /\ x \in Made /\ place[x] # NoPlace
      /\ place' = [place EXCEPT ![x] = NoPlace]
      /\ inserted' = inserted
      /\ r # 0 => cells' = new /\ used' = used - place[x].length
      /\ r = 0 => cells' = cells /\ used' = used
  BY DEF RemoveCreature, Made, SpaceGivenBack
<1>2. /\ cells \in Maps /\ CellsOf(cells) \subseteq Cells
      /\ \A c, d \in CellsOf(cells), b \in Addresses : Has(c, b) /\ Has(d, b) => c = d
  BY OwnedLemma DEF IInv
<1>3. /\ place \in [Creatures -> Places \union {NoPlace}] /\ used = Cardinality(OwnedBytes(cells))
      /\ inserted \in BOOLEAN
      /\ \A d \in CellsOf(cells) : place[d.owner] = [start |-> d.start, length |-> d.length]
  BY DEF IInv
<1>4. place[x] \in Places /\ place[x].start \in Addresses
  BY <1>1, <1>3 DEF Places
<1>5. /\ at \in 0 .. Len(cells)
      /\ at # 0 => Has(cells[at], place[x].start)
      /\ at = 0 => \A i \in 1 .. Len(cells) : ~ Has(cells[i], place[x].start)
  BY <1>2, <1>4, IndexOfLemma
<1>6. r = IF at # 0 /\ cells[at].owner = x THEN at ELSE 0
  BY DEF CellToRemove
<1> HIDE DEF at, r
<1>7. ASSUME NEW d \in CellsOf(cells), d.owner = x
      PROVE  r # 0 /\ d = cells[r]
  <2>1. place[x].start = d.start
    <3>1. place[x] = [start |-> d.start, length |-> d.length]
      BY <1>3, <1>7, Zenon
    <3> QED BY <3>1
  <2>2. Has(d, d.start)
    <3>1. d.start \in Int /\ End(d) \in Int /\ d.start < End(d)
      BY <1>2, CellLemma
    <3> QED BY <3>1 DEF Has
  <2>3. at # 0
    BY <1>5, <2>1, <2>2 DEF CellsOf
  <2>4. at \in 1 .. Len(cells) /\ cells[at] \in CellsOf(cells)
    BY <1>2, <1>5, <2>3, MapLemma DEF CellsOf
  <2>5. d = cells[at]
    BY <1>2, <1>4, <1>5, <2>1, <2>2, <2>3, <2>4
  <2> QED BY <1>6, <1>7, <2>3, <2>5
<1>8. /\ OwnerOf = [b \in Addresses |-> CreatureAt(cells, b)]
      /\ OwnerOf' = [b \in Addresses |-> CreatureAt(cells', b)]
  BY DEF OwnerOf
<1>9. /\ place' \in [Creatures -> Places \union {NoPlace}]
      /\ place'[x] = NoPlace
      /\ \A y \in Creatures : y # x => place'[y] = place[y]
  BY <1>1, <1>3
<1>10. Made' = Made \ {x}
  BY <1>9 DEF Made
<1>11. \A d \in CellsOf(cells) : d.owner \in Creatures
  BY <1>2 DEF Cells
<1>12. CASE r # 0
  <2>1. r = at /\ r \in 1 .. Len(cells) /\ cells[r].owner = x
    BY <1>2, <1>5, <1>6, <1>12, MapLemma
  <2>2. cells[r] \in CellsOf(cells) /\ cells[r].length = place[x].length
    <3>1. cells[r] \in CellsOf(cells)
      BY <2>1 DEF CellsOf
    <3>2. place[x] = [start |-> cells[r].start, length |-> cells[r].length]
      BY <1>3, <2>1, <3>1, Zenon
    <3> QED BY <3>1, <3>2
  <2>3. /\ new \in Maps
        /\ CellsOf(new) = CellsOf(cells) \ {cells[r]}
        /\ \A b \in Addresses :
             CreatureAt(new, b) = IF CreatureAt(cells, b) = x THEN NoCreature ELSE CreatureAt(cells, b)
        /\ Cardinality(OwnedBytes(new)) = Cardinality(OwnedBytes(cells)) - cells[r].length
    BY <1>2, <1>7, <2>1, RemoveEffect
  <2> HIDE DEF new
  <2>4. cells' = new /\ used' = used - place[x].length
    BY <1>1, <1>12
  <2>5. \A d \in CellsOf(cells') : place'[d.owner] = [start |-> d.start, length |-> d.length]
    <3>1. \A d \in CellsOf(cells') : d \in CellsOf(cells) /\ d.owner # x
      BY <1>7, <2>3, <2>4
    <3> QED BY <1>3, <1>9, <1>11, <3>1
  <2>6. IInv'
    BY <1>1, <1>3, <1>9, <2>2, <2>3, <2>4, <2>5 DEF IInv
  <2>7. OwnerOf' = [b \in Addresses |-> IF OwnerOf[b] = x THEN NoCreature ELSE OwnerOf[b]]
    BY <1>8, <2>3, <2>4
  <2>8. Ownership!Remove(x)
    BY <1>1, <1>10, <2>7 DEF Ownership!Remove, Ownership!Addresses, Addresses
  <2>9. CellsOf(cells') = {d \in CellsOf(cells) : d.owner # x}
    BY <1>7, <2>1, <2>3, <2>4
  <2> QED BY <2>1, <2>2, <2>4, <2>6, <2>8, <2>9
<1>13. CASE r = 0
  <2>1. cells' = cells /\ used' = used
    BY <1>1, <1>13
  <2>2. \A d \in CellsOf(cells) : d.owner # x
    BY <1>7, <1>13
  <2>3. \A d \in CellsOf(cells') : place'[d.owner] = [start |-> d.start, length |-> d.length]
    BY <1>3, <1>9, <1>11, <2>1, <2>2
  <2>4. IInv'
    BY <1>1, <1>2, <1>3, <1>9, <2>1, <2>3 DEF IInv
  <2>5. \A b \in Addresses : CreatureAt(cells, b) # x
    <3> SUFFICES ASSUME NEW b \in Addresses, CreatureAt(cells, b) = x
                 PROVE  FALSE
      OBVIOUS
    <3>1. b \in OwnedBytes(cells)
      BY <1>2, CreatureAtLemma, CellRangesAssumption
    <3>2. PICK d \in CellsOf(cells) : Has(d, b)
      BY <3>1 DEF OwnedBytes
    <3> QED BY <1>2, <2>2, <3>2, CreatureAtLemma
  <2>6. OwnerOf' = [b \in Addresses |-> IF OwnerOf[b] = x THEN NoCreature ELSE OwnerOf[b]]
    BY <1>8, <2>1, <2>5
  <2>7. Ownership!Remove(x)
    BY <1>1, <1>10, <2>6 DEF Ownership!Remove, Ownership!Addresses, Addresses
  <2> QED BY <2>1, <2>2, <2>4, <2>7
<1> QED BY <1>12, <1>13

\* In the beginning the map is empty and no byte is owned.
LEMMA InitLemma ==
  ASSUME Init
  PROVE  IInv /\ Ownership!Init
<1>1. /\ cells = <<>> /\ used = 0 /\ inserted = FALSE
      /\ place = [c \in Creatures |-> NoPlace]
  BY DEF Init
<1>2. <<>> \in Maps /\ CellsOf(<<>>) = {}
  BY DEF Maps, Ordered, CellsOf
<1>3. OwnedBytes(<<>>) = {}
  BY <1>2 DEF OwnedBytes
<1>4. IInv
  BY <1>1, <1>2, <1>3, FS_EmptySet DEF IInv
<1>5. \A b \in Addresses : CreatureAt(<<>>, b) = NoCreature
  BY <1>2, <1>3, CreatureAtLemma
<1>6. Made = {} /\ OwnerOf = [b \in Addresses |-> NoCreature]
  BY <1>1, <1>5 DEF Made, OwnerOf
<1> QED BY <1>1, <1>4, <1>6 DEF Ownership!Init, Ownership!Addresses, Addresses

\* Every step keeps the invariant, and is one of the ownership or changes nothing of it.
LEMMA NextLemma ==
  ASSUME IInv, [Next]_vars
  PROVE  IInv' /\ [Ownership!Next]_Ownership!vars
<1>1. CASE Next
  <2>1. PICK x \in Creatures :
          \/ \E a \in Addresses, length \in 1 .. Size : InsertCreature(x, a, length)
          \/ RemoveCreature(x)
    BY <1>1 DEF Next
  <2>2. ASSUME NEW a \in Addresses, NEW length \in 1 .. Size, InsertCreature(x, a, length)
        PROVE  IInv' /\ Ownership!Next
    <3>1. IInv' /\ Ownership!Insert(x, a, length)
      BY <2>2, InsertStep
    <3> QED BY <3>1 DEF Ownership!Next, Ownership!Addresses, Addresses
  <2>3. ASSUME RemoveCreature(x)
        PROVE  IInv' /\ Ownership!Next
    <3>1. IInv' /\ Ownership!Remove(x)
      BY <2>3, RemoveStep
    <3> QED BY <3>1 DEF Ownership!Next
  <2> QED BY <2>1, <2>2, <2>3
<1>2. CASE UNCHANGED vars
  <2>1. cells' = cells /\ used' = used /\ place' = place /\ inserted' = inserted
    BY <1>2 DEF vars
  <2>2. IInv'
    BY <2>1 DEF IInv
  <2>3. Made' = Made /\ OwnerOf' = OwnerOf
    BY <2>1 DEF Made, OwnerOf
  <2> QED BY <2>1, <2>2, <2>3 DEF Ownership!vars
<1> QED BY <1>1, <1>2

\* The invariant always holds.
LEMMA InvariantLemma == Spec => []IInv
<1>1. Init => IInv
  BY InitLemma
<1>2. IInv /\ [Next]_vars => IInv'
  BY NextLemma
<1> QED BY <1>1, <1>2, PTL DEF Spec

-----------------------------------------------------------------------------
(* What follows.                                                           *)

\* The types hold, and no creature ever has two cells.
THEOREM TypeCorrectness == Spec => []TypeOK
<1>1. IInv => TypeOK
  <2> SUFFICES ASSUME IInv PROVE TypeOK
    OBVIOUS
  <2>1. cells \in Maps /\ cells \in Seq([start : Addresses, length : 1 .. Size, owner : Creatures])
    BY MapLemma DEF IInv, Cells
  <2>2. used \in 0 .. Size
    BY <2>1, OwnedLemma DEF IInv
  <2>3. DOMAIN cells = 1 .. Len(cells)
    BY <2>1
  <2>4. ASSUME NEW i \in 1 .. Len(cells), NEW j \in 1 .. Len(cells), cells[i].owner = cells[j].owner
        PROVE  i = j
    <3>1. cells[i] \in CellsOf(cells) /\ cells[j] \in CellsOf(cells)
      BY DEF CellsOf
    <3>2. /\ place[cells[i].owner] = [start |-> cells[i].start, length |-> cells[i].length]
          /\ place[cells[j].owner] = [start |-> cells[j].start, length |-> cells[j].length]
      BY <3>1 DEF IInv
    <3>3. cells[i].start = cells[j].start
      BY <2>4, <3>2
    <3>4. /\ \A k, l \in 1 .. Len(cells) : k < l => Starts(cells)[k] < Starts(cells)[l]
          /\ Starts(cells) \in [1 .. Len(cells) -> Int]
      BY <2>1, MapLemma, LayoutLemma DEF Layout
    <3>5. Starts(cells)[i] = Starts(cells)[j]
      BY <3>3 DEF Starts
    <3> QED BY <3>4, <3>5
  <2>5. place \in [Creatures -> Places \union {NoPlace}] /\ inserted \in BOOLEAN
    BY DEF IInv
  <2> QED BY <2>1, <2>2, <2>3, <2>4, <2>5 DEF TypeOK
<1> QED BY <1>1, InvariantLemma, PTL

\* What the binary searches rely on always holds: the cells ascend, do not overlap, and
\* only the last wraps.
THEOREM CellsAlwaysInOrder == Spec => []CellsInOrder
<1>1. IInv => CellsInOrder
  <2> SUFFICES ASSUME cells \in Maps PROVE CellsInOrder
    BY DEF IInv
  <2>1. Len(cells) \in Nat /\ Ordered(cells) /\ (cells # <<>> => Last(cells) = cells[Len(cells)])
    BY MapLemma DEF Maps
  <2>2. \A i \in 1 .. Len(cells) - 1 : i \in 1 .. Len(cells) /\ i + 1 \in 1 .. Len(cells) /\ i < i + 1
    BY <2>1
  <2> QED BY <2>1, <2>2 DEF Ordered, CellsInOrder
<1> QED BY <1>1, InvariantLemma, PTL

\* mSpaceUsed is always the number of bytes that a lookup finds an owner for.
THEOREM UsedIsAlwaysOwned == Spec => []UsedIsOwned
<1>1. IInv => UsedIsOwned
  <2> SUFFICES ASSUME IInv PROVE UsedIsOwned
    OBVIOUS
  <2>1. {a \in Addresses : OwnerOf[a] # NoCreature} = OwnedBytes(cells)
    <3>1. \A a \in Addresses : OwnerOf[a] # NoCreature <=> a \in OwnedBytes(cells)
      BY CreatureAtLemma DEF IInv, OwnerOf
    <3> QED BY <3>1 DEF OwnedBytes
  <2> QED BY <2>1 DEF IInv, UsedIsOwned
<1> QED BY <1>1, InvariantLemma, PTL

\* The sorted cells and their binary searches implement the ownership of bytes: an
\* insertion succeeds exactly where every byte is free, and a removal frees the bytes of
\* that creature and no others.
THEOREM ImplementsOwnershipAlways == Spec => ImplementsOwnership
<1>1. Init => Ownership!Init
  BY InitLemma
<1>2. IInv /\ [Next]_vars => [Ownership!Next]_Ownership!vars
  BY NextLemma
<1> QED BY <1>1, <1>2, InvariantLemma, PTL DEF Spec, ImplementsOwnership, Ownership!Spec

-----------------------------------------------------------------------------
(* What the world takes the map for.                                       *)

LEMMA OwnersLemma ==
  ASSUME NEW cs \in Maps
  PROVE  {cs[i].owner : i \in DOMAIN cs} = {d.owner : d \in CellsOf(cs)}
<1>1. DOMAIN cs = 1 .. Len(cs)
  BY DEF Maps
<1> QED BY <1>1 DEF CellsOf

LEMMA SpaceStepLemma ==
  ASSUME IInv, Next, SpaceOf' # SpaceOf
  PROVE  SpaceStep
<1>1. PICK x \in Creatures :
        \/ \E a \in Addresses, length \in 1 .. Size : InsertCreature(x, a, length)
        \/ RemoveCreature(x)
  BY DEF Next
<1>2. ~ (cells' = cells /\ used' = used)
  BY DEF SpaceOf
<1>3. place \in [Creatures -> Places \union {NoPlace}]
  BY DEF IInv
<1>4. /\ SpaceOf.owners = {d.owner : d \in CellsOf(cells)} /\ SpaceOf.used = used
      /\ SpaceOf = [owners |-> SpaceOf.owners, used |-> used]
  <2>1. cells \in Maps
    BY DEF IInv
  <2> QED BY <2>1, OwnersLemma DEF SpaceOf
<1>5. ASSUME IInv'
      PROVE  SpaceOf' = [owners |-> {d.owner : d \in CellsOf(cells')}, used |-> used']
  <2>1. cells' \in Maps
    BY <1>5 DEF IInv
  <2> QED BY <2>1, OwnersLemma DEF SpaceOf
<1>6. ASSUME NEW a \in Addresses, NEW length \in 1 .. Size, InsertCreature(x, a, length)
      PROVE  SpaceStep
  <2> DEFINE c == Cell(a, length, x)
  <2>1. /\ IInv'
        /\ CellsOf(cells') = CellsOf(cells) \union {c} /\ used' = used + length
        /\ \A d \in CellsOf(cells) : d.owner # x
    BY <1>2, <1>6, InsertStep
  <2>2. c.owner = x
    BY CoveredLemma
  <2>3. place'[x] = [start |-> a, length |-> length]
    BY <1>3, <1>6 DEF InsertCreature
  <2>4. place'[x].length = length
    BY <2>3
  <2> HIDE DEF c
  <2>5. {d.owner : d \in CellsOf(cells')} = {d.owner : d \in CellsOf(cells)} \union {x}
    BY <2>1, <2>2
  <2>6. used + length <= Size
    <3>1. cells' \in Maps /\ used' = Cardinality(OwnedBytes(cells'))
      BY <2>1 DEF IInv
    <3>2. used' \in 0 .. Size
      BY <3>1, OwnedLemma
    <3> QED BY <2>1, <3>2
  <2>7. x \notin SpaceOf.owners /\ SpaceOf.used = used
    BY <1>4, <2>1
  <2>8. SpaceOf' = SpaceInsert(SpaceOf, x, length)
    BY <1>4, <1>5, <2>1, <2>5 DEF SpaceInsert
  <2> QED BY <2>4, <2>6, <2>7, <2>8 DEF SpaceStep
<1>7. ASSUME RemoveCreature(x)
      PROVE  SpaceStep
  <2>1. /\ IInv'
        /\ \E d \in CellsOf(cells) : d.owner = x
        /\ CellsOf(cells') = {d \in CellsOf(cells) : d.owner # x}
        /\ used' = used - place[x].length
    BY <1>2, <1>7, RemoveStep
  <2>2. {d.owner : d \in CellsOf(cells')} = {d.owner : d \in CellsOf(cells)} \ {x}
    BY <2>1
  <2>3. x \in SpaceOf.owners
    BY <1>4, <2>1
  <2>4. SpaceOf' = SpaceRemove(SpaceOf, x, place[x].length)
    BY <1>4, <1>5, <2>1, <2>2, <2>3 DEF SpaceRemove
  <2> QED BY <2>4 DEF SpaceStep
<1> QED BY <1>1, <1>6, <1>7

\* The cell map is what World takes it for (CellSpace): an insertion gives space to
\* a creature that had none, never more than is left in all, and adds its length to
\* mSpaceUsed; a removal subtracts the length of a creature that had space and
\* changes nothing for one that had none.
THEOREM ImplementsCellSpaceAlways == Spec => ImplementsCellSpace
<1>1. Init => SpaceOf = EmptySpace
  <2> SUFFICES ASSUME Init PROVE SpaceOf = EmptySpace
    OBVIOUS
  <2>1. cells = <<>> /\ used = 0
    BY DEF Init
  <2>2. {cells[i].owner : i \in DOMAIN cells} = {}
    BY <2>1
  <2> QED BY <2>1, <2>2 DEF SpaceOf, EmptySpace
<1>2. IInv /\ [Next]_vars => [SpaceStep]_SpaceOf
  <2>1. UNCHANGED vars => UNCHANGED SpaceOf
    BY DEF vars, SpaceOf
  <2> QED BY <2>1, SpaceStepLemma
<1> QED BY <1>1, <1>2, InvariantLemma, PTL DEF Spec, ImplementsCellSpace

-----------------------------------------------------------------------------
(* The search for space: what every step of it preserves.                  *)

RunningSearches ==
  [pc : {"running"}, startAddress : Addresses, length : 1 .. Size,
   startIndex : 1 .. Len(map), forwardIndex : 1 .. Len(map), backIndex : 1 .. Len(map),
   forwardWrapped : BOOLEAN, backwardsWrapped : BOOLEAN]
FoundSearches == [pc : {"found"}, location : Addresses, length : 1 .. Size]
FailedSearches == [pc : {"failed"}, length : 1 .. Size]

\* The cells of n that the forward index has left behind.
Passed(n, s) ==
  IF s.forwardWrapped THEN 1 .. n
  ELSE IF s.forwardIndex >= s.startIndex THEN s.startIndex .. s.forwardIndex - 1
  ELSE (s.startIndex .. n) \union (1 .. s.forwardIndex - 1)

\* The gaps behind the cells that were passed are all too short, so that all gaps are
\* when the forward side is done.
PassedAreShort(s) == \A i \in Passed(Len(map), s) : ~ (GapAfter(map, i) >= s.length)

\* A search that runs, one that has found space, and one that has failed.
RunningOK(s) == s \in RunningSearches /\ map # <<>> /\ PassedAreShort(s)
FoundOK(s) == s \in FoundSearches /\ SpaceIndex(map, s.location, s.length) # 0
FailedOK(s) == s \in FailedSearches /\ (MaxRange >= Size => ~HasSpace(s.length))

SearchOK(s) == s = Idle \/ RunningOK(s) \/ FoundOK(s) \/ FailedOK(s)

SearchInv == map \in Maps /\ SearchOK(search)

-----------------------------------------------------------------------------
(* One pass of the loop.                                                   *)

\* Both places that a pass looks at are addresses, at less than a soup's length.
LEMMA OffsetLemma ==
  ASSUME map \in Maps, NEW s \in RunningSearches
  PROVE  /\ PlaceAfter(s) \in Addresses /\ PlaceBefore(s) \in Addresses
         /\ MaxRange >= Size => ~OutOfRange(s)
<1>1. /\ map[s.forwardIndex] \in Cells /\ map[s.backIndex] \in Cells
      /\ s.length \in 1 .. Size /\ s.startAddress \in Addresses
  BY MapLemma DEF RunningSearches
<1>2. Size \in Int /\ Size > 0 /\ MaxRange \in Int
  BY CellRangesAssumption, SearchAssumption
<1>3. PlaceAfter(s) \in Addresses
  <2>1. PICK b \in 0 .. (2 * Size) - 1 : b = End(map[s.forwardIndex])
    BY <1>1, <1>2, CellLemma
  <2>2. b % Size = IF b < Size THEN b ELSE b - Size
    BY AroundLemma
  <2>3. PlaceAfter(s) = b % Size
    BY <2>1 DEF PlaceAfter, WrappedEnd
  <2> QED BY <1>2, <2>2, <2>3 DEF Addresses
<1>4. PlaceBefore(s) \in Addresses
  <2>1. PICK b \in 0 .. (2 * Size) - 1 : b = map[s.backIndex].start - s.length + Size
    BY <1>1, <1>2, CellLemma
  <2>2. b % Size = IF b < Size THEN b ELSE b - Size
    BY AroundLemma
  <2>3. PlaceBefore(s) = b % Size
    BY <2>1 DEF PlaceBefore
  <2> QED BY <1>2, <2>2, <2>3 DEF Addresses
<1>5. ForwardOffset(s) < Size /\ ForwardOffset(s) \in Int
  <2>1. PICK from, to \in Addresses : from = s.startAddress /\ to = PlaceAfter(s)
    BY <1>1, <1>3
  <2>2. ForwardDelta(from, to) < Size /\ ForwardDelta(from, to) \in Int
    BY <1>2 DEF ForwardDelta, Addresses
  <2> QED BY <2>1, <2>2 DEF ForwardOffset
<1>6. MaxRange >= Size => ~OutOfRange(s)
  BY <1>2, <1>5 DEF OutOfRange
<1> QED BY <1>3, <1>4, <1>6

\* A look forward finds space or passes one more cell.
LEMMA ForwardLemma ==
  ASSUME map \in Maps, NEW s, RunningOK(s), ~ s.forwardWrapped
  PROVE  RunningOK(LookForward(s)) \/ FoundOK(LookForward(s))
<1> DEFINE n == Len(map)
           f == s.forwardIndex
           first == s.startIndex
           next == IF f = n THEN 1 ELSE f + 1
           t == [s EXCEPT !.forwardIndex = next, !.forwardWrapped = (next = first)]
<1>1. /\ s \in RunningSearches /\ map # <<>>
      /\ n \in Nat /\ n # 0 /\ f \in 1 .. n /\ first \in 1 .. n /\ s.length \in 1 .. Size
  BY MapLemma DEF RunningOK, RunningSearches
<1>2. CASE FitsAfter(s)
  <2>1. GapAfter(map, f) >= s.length
    BY <1>2 DEF FitsAfter
  <2>2. PlaceAfter(s) \in Addresses /\ SpaceIndex(map, PlaceAfter(s), s.length) # 0
    BY <1>1, <2>1, FitsBehindLemma DEF PlaceAfter
  <2>3. LookForward(s) = [pc |-> "found", location |-> PlaceAfter(s), length |-> s.length]
    BY <1>2 DEF LookForward, Found
  <2> QED BY <1>1, <2>2, <2>3 DEF FoundOK, FoundSearches
<1>3. CASE ~FitsAfter(s)
  <2>1. LookForward(s) = t
    BY <1>3 DEF LookForward
  <2>2. next \in 1 .. n
    BY <1>1
  <2>3. t \in RunningSearches
    BY <1>1, <2>2 DEF RunningSearches
  <2>4. /\ t.forwardIndex = next /\ t.startIndex = first /\ t.length = s.length
        /\ t.forwardWrapped = (next = first)
    BY <1>1 DEF RunningSearches
  <2>5. ~ (GapAfter(map, f) >= s.length)
    BY <1>3 DEF FitsAfter
  <2>6. Passed(n, t) \subseteq Passed(n, s) \union {f}
    <3>1. Passed(n, s) = IF f >= first THEN first .. f - 1 ELSE (first .. n) \union (1 .. f - 1)
      BY DEF Passed
    <3>2. Passed(n, t) = IF next = first THEN 1 .. n
                         ELSE IF next >= first THEN first .. next - 1
                         ELSE (first .. n) \union (1 .. next - 1)
      BY <2>4 DEF Passed
    <3> HIDE DEF t
    <3> SUFFICES ASSUME NEW i \in Passed(n, t), i # f PROVE i \in Passed(n, s)
      OBVIOUS
    <3>3. i \in Int /\ 1 <= i /\ i <= n
      BY <1>1, <2>2, <3>2
    <3>4. CASE f = n
      <4>1. next = 1
        BY <3>4
      <4>2. Passed(n, s) = first .. n - 1
        BY <1>1, <3>1, <3>4
      <4>3. first <= i
        BY <1>1, <3>2, <3>3, <4>1
      <4> QED BY <1>1, <3>3, <3>4, <4>2, <4>3
    <3>5. CASE f # n
      <4>1. next = f + 1
        BY <3>5
      <4>2. CASE f >= first
        <5>1. Passed(n, t) = first .. f
          BY <1>1, <3>2, <4>1, <4>2
        <5> QED BY <1>1, <3>1, <3>3, <4>2, <5>1
      <4>3. CASE ~ (f >= first)
        <5>1. i \in first .. n \/ i \in 1 .. f
          BY <1>1, <3>2, <3>3, <4>1, <4>3
        <5> QED BY <1>1, <3>1, <3>3, <4>3, <5>1
      <4> QED BY <4>2, <4>3
    <3> QED BY <3>4, <3>5
  <2>7. PassedAreShort(t)
    <3> HIDE DEF t
    <3> QED BY <2>4, <2>5, <2>6 DEF RunningOK, PassedAreShort
  <2> QED BY <1>1, <2>1, <2>3, <2>7 DEF RunningOK
<1> QED BY <1>2, <1>3

\* A look backward finds space or passes no cell.
LEMMA BackwardLemma ==
  ASSUME map \in Maps, NEW s, RunningOK(s)
  PROVE  RunningOK(LookBackward(s)) \/ FoundOK(LookBackward(s))
<1> DEFINE n == Len(map)
           b == s.backIndex
           next == IF b = 1 THEN n ELSE b - 1
           t == [s EXCEPT !.backIndex = next, !.backwardsWrapped = (next = s.startIndex)]
<1>1. /\ s \in RunningSearches /\ map # <<>>
      /\ n \in Nat /\ n # 0 /\ b \in 1 .. n /\ s.length \in 1 .. Size
  BY MapLemma DEF RunningOK, RunningSearches
<1>2. CASE FitsBefore(s)
  <2>1. GapBefore(map, b) >= s.length
    BY <1>2 DEF FitsBefore
  <2>2. PlaceBefore(s) \in Addresses /\ SpaceIndex(map, PlaceBefore(s), s.length) # 0
    BY <1>1, <2>1, FitsBeforeLemma DEF PlaceBefore
  <2>3. LookBackward(s) = [pc |-> "found", location |-> PlaceBefore(s), length |-> s.length]
    BY <1>2 DEF LookBackward, Found
  <2> QED BY <1>1, <2>2, <2>3 DEF FoundOK, FoundSearches
<1>3. CASE ~FitsBefore(s)
  <2>1. LookBackward(s) = t
    BY <1>3 DEF LookBackward
  <2>2. next \in 1 .. n
    BY <1>1
  <2>3. t \in RunningSearches
    BY <1>1, <2>2 DEF RunningSearches
  <2>4. /\ t.forwardIndex = s.forwardIndex /\ t.startIndex = s.startIndex
        /\ t.length = s.length /\ t.forwardWrapped = s.forwardWrapped
    BY <1>1 DEF RunningSearches
  <2>5. PassedAreShort(t)
    <3> HIDE DEF t
    <3> QED BY <2>4 DEF RunningOK, PassedAreShort, Passed
  <2> QED BY <1>1, <2>1, <2>3, <2>5 DEF RunningOK
<1> QED BY <1>2, <1>3

\* A pass leaves a search that runs, or the truth about the space there is.
LEMMA PassLemma ==
  ASSUME map \in Maps, NEW s, RunningOK(s)
  PROVE  SearchOK(Pass(s))
<1> DEFINE looked == Look(s)
<1>1. RunningOK(looked) \/ FoundOK(looked)
  <2>1. CASE looked = LookForward(s) /\ ~ s.forwardWrapped
    BY <2>1, ForwardLemma
  <2>2. CASE looked = LookBackward(s)
    BY <2>2, BackwardLemma
  <2>3. CASE looked = s
    BY <2>3
  <2> QED BY <2>1, <2>2, <2>3 DEF Look
<1>2. looked.length = s.length /\ s.length \in 1 .. Size /\ s \in RunningSearches
  <2>1. s \in RunningSearches
    BY DEF RunningOK
  <2>2. LookForward(s).length = s.length /\ LookBackward(s).length = s.length
    BY <2>1 DEF LookForward, LookBackward, Found, RunningSearches
  <2> QED BY <2>1, <2>2 DEF Look, RunningSearches
<1> HIDE DEF looked
<1>3. CASE /\ looked.pc = "running"
           /\ (looked.forwardWrapped /\ looked.backwardsWrapped) \/ OutOfRange(s)
  <2>1. Pass(s) = [pc |-> "failed", length |-> s.length]
    BY <1>3 DEF Pass, looked, Failed
  <2>2. RunningOK(looked)
    BY <1>1, <1>3 DEF FoundOK, FoundSearches
  <2>3. ASSUME MaxRange >= Size PROVE ~HasSpace(s.length)
    <3>1. looked.forwardWrapped
      BY <1>2, <1>3, <2>3, OffsetLemma
    <3>2. \A i \in 1 .. Len(map) : ~ (GapAfter(map, i) >= s.length)
      BY <1>2, <2>2, <3>1 DEF RunningOK, PassedAreShort, Passed
    <3>3. map # <<>>
      BY DEF RunningOK
    <3> QED BY <1>2, <3>2, <3>3, NoSpaceLemma DEF HasSpace
  <2>4. Pass(s).length = s.length /\ Pass(s) \in FailedSearches
    BY <1>2, <2>1 DEF FailedSearches
  <2> QED BY <2>3, <2>4 DEF SearchOK, FailedOK
<1>4. CASE ~ /\ looked.pc = "running"
             /\ (looked.forwardWrapped /\ looked.backwardsWrapped) \/ OutOfRange(s)
  <2>1. Pass(s) = looked
    BY <1>4 DEF Pass, looked
  <2> QED BY <1>1, <2>1 DEF SearchOK
<1> QED BY <1>3, <1>4

-----------------------------------------------------------------------------
(* The other steps of the search.                                          *)

\* Some creature has no cell, as long as there are fewer cells than creatures.
LEMMA OwnerLemma ==
  ASSUME map \in Maps, Len(map) < Cardinality(Creatures)
  PROVE  \E c \in Creatures : \A i \in DOMAIN map : map[i].owner # c
<1> DEFINE n == Len(map)
           owners == {map[i].owner : i \in 1 .. n}
           ownerOf == [i \in 1 .. n |-> map[i].owner]
<1> SUFFICES ASSUME \A c \in Creatures : \E i \in DOMAIN map : map[i].owner = c
             PROVE  FALSE
  OBVIOUS
<1>1. n \in Nat /\ DOMAIN map = 1 .. n /\ \A i \in 1 .. n : map[i].owner \in Creatures
  BY MapLemma, CellLemma
<1>2. owners = Creatures
  BY <1>1
<1>3. ownerOf \in Surjection(1 .. n, Creatures)
  BY <1>1, <1>2 DEF Surjection
<1>4. IsFiniteSet(1 .. n) /\ Cardinality(1 .. n) = n
  BY <1>1, FS_Interval
<1> HIDE DEF ownerOf
<1>5. Cardinality(Creatures) <= n
  <2>1. Cardinality(Creatures) <= Cardinality(1 .. n)
    BY <1>3, <1>4, FS_Surjection
  <2> QED BY <1>4, <2>1
<1>6. Cardinality(Creatures) \in Nat
  BY SearchAssumption, FS_CardinalityType
<1> QED BY <1>1, <1>5, <1>6

\* A creature goes where there is space.
LEMMA AddCellStep ==
  ASSUME SearchInv, NEW a \in Addresses, NEW length \in 1 .. Size, AddCell(a, length)
  PROVE  SearchInv'
<1> DEFINE index == SpaceIndex(map, a, length)
           owner == CHOOSE c \in Creatures : \A i \in DOMAIN map : map[i].owner # c
           cell == Cell(a, length, owner)
<1>1. /\ map \in Maps /\ search = Idle /\ search' = Idle /\ index # 0
      /\ map' = InsertAt(map, index, cell)
      /\ Len(map) < Cardinality(Creatures)
  BY DEF SearchInv, AddCell
<1>2. owner \in Creatures
  BY <1>1, OwnerLemma
<1> HIDE DEF owner
<1>3. cell \in Cells /\ cell.start = a /\ End(cell) = a + length
  BY <1>2 DEF Cell, Cells, End
<1>4. Fits(Len(map), Starts(map), Ends(map), index, cell.start, End(cell))
  BY <1>1, <1>3, SpaceIndexLemma
<1>5. map' \in Maps
  BY <1>1, <1>3, <1>4, InsertLemma
<1> QED BY <1>1, <1>5 DEF SearchInv, SearchOK, Idle

\* A search starts with no cell passed.
LEMMA SearchForSpaceStep ==
  ASSUME SearchInv, NEW a \in Addresses, NEW length \in 1 .. Size, SearchForSpace(a, length)
  PROVE  SearchOK(search')
<1>1. map \in Maps
  BY DEF SearchInv
<1>2. CASE map = <<>>
  <2>1. search' = [pc |-> "found", location |-> a, length |-> length]
    BY <1>2 DEF SearchForSpace
  <2>2. SpaceIndex(map, a, length) = 1
    BY <1>2 DEF SpaceIndex
  <2> QED BY <2>1, <2>2 DEF SearchOK, FoundOK, FoundSearches
<1>3. CASE map # <<>>
  <2> DEFINE index == IndexAtOrBefore(map, a)
             s == [pc |-> "running", startAddress |-> a, length |-> length,
                   startIndex |-> index, forwardIndex |-> index, backIndex |-> index,
                   forwardWrapped |-> FALSE, backwardsWrapped |-> FALSE]
  <2>1. search' = s
    BY <1>3 DEF SearchForSpace
  <2>2. index \in 1 .. Len(map)
    <3>1. Len(map) \in Nat \ {0}
      BY <1>1, <1>3, MapLemma
    <3> QED BY <1>1, <1>3, <3>1, IndexAtOrBeforeLemma
  <2> HIDE DEF index
  <2>3. s \in RunningSearches
    BY <2>2 DEF RunningSearches
  <2>4. Passed(Len(map), s) = {}
    BY <2>2 DEF Passed
  <2> QED BY <1>3, <2>1, <2>3, <2>4 DEF SearchOK, RunningOK, PassedAreShort
<1> QED BY <1>2, <1>3

LEMMA SearchInitInv == SearchInit => SearchInv
  <1> SUFFICES ASSUME SearchInit PROVE SearchInv
    OBVIOUS
  <1>1. map = <<>> /\ search = Idle
    BY DEF SearchInit
  <1>2. <<>> \in Maps
    BY DEF Maps, Ordered
  <1> QED BY <1>1, <1>2 DEF SearchInv, SearchOK

\* Of two states with the same cells, the search is as right in one as in the other.
LEMMA SameMap ==
  ASSUME map' = map, map \in Maps, SearchOK(search')
  PROVE  SearchInv'
BY DEF SearchInv, SearchOK, RunningOK, FoundOK, FailedOK, RunningSearches, FoundSearches,
       FailedSearches, PassedAreShort, HasSpace, Idle

LEMMA SearchNextInv == SearchInv /\ [SearchNext]_searchVars => SearchInv'
<1> SUFFICES ASSUME SearchInv, [SearchNext]_searchVars PROVE SearchInv'
  OBVIOUS
<1>1. map \in Maps /\ SearchOK(search)
  BY DEF SearchInv
<1>2. ASSUME NEW a \in Addresses, NEW length \in 1 .. Size, AddCell(a, length)
      PROVE  SearchInv'
  BY <1>2, AddCellStep
<1>3. ASSUME NEW a \in Addresses, NEW length \in 1 .. Size, SearchForSpace(a, length)
      PROVE  SearchInv'
  <2>1. map' = map
    BY <1>3 DEF SearchForSpace
  <2>2. SearchOK(search')
    BY <1>3, SearchForSpaceStep
  <2> QED BY <1>1, <2>1, <2>2, SameMap
<1>4. CASE SearchPass
  <2>1. search.pc = "running" /\ search' = Pass(search) /\ map' = map
    BY <1>4 DEF SearchPass, Running
  <2>2. RunningOK(search)
    BY <1>1, <2>1 DEF SearchOK, Idle, FoundOK, FoundSearches, FailedOK, FailedSearches
  <2>3. SearchOK(search')
    BY <1>1, <2>1, <2>2, PassLemma
  <2> QED BY <1>1, <2>1, <2>3, SameMap
<1>5. CASE SearchReturns
  <2>1. search' = Idle /\ map' = map
    BY <1>5 DEF SearchReturns
  <2> QED BY <1>1, <2>1, SameMap DEF SearchOK
<1>6. CASE UNCHANGED searchVars
  <2>1. search' = search /\ map' = map
    BY <1>6 DEF searchVars
  <2> QED BY <1>1, <2>1, SameMap
<1> QED BY <1>2, <1>3, <1>4, <1>5, <1>6 DEF SearchNext

-----------------------------------------------------------------------------
(* The theorems about the search.                                          *)

\* SearchInv holds in every state.
THEOREM SearchInvHolds == SearchSpec => []SearchInv
<1> QED BY SearchInitInv, SearchNextInv, PTL DEF SearchSpec

\* BOOST_ASSERT(added) of allocateSpaceForOffspring never fails: where searchForSpace
\* says there is space, spaceAtAddress accepts a cell of that length.
THEOREM FoundSpaceIsAlwaysFree == SearchSpec => []FoundSpaceIsFree
<1>1. SearchInv => FoundSpaceIsFree
  BY DEF SearchInv, SearchOK, Idle, RunningOK, RunningSearches, FoundOK, FailedOK, FailedSearches,
         FoundSpaceIsFree
<1> QED BY <1>1, SearchInvHolds, PTL

\* searchForSpace gives up only when spaceAtAddress accepts a cell of that length
\* nowhere in the soup, unless the range it may look at is shorter than the soup.
THEOREM AlwaysFailsOnlyWhenFull == SearchSpec => []FailsOnlyWhenFull
<1>1. SearchInv => FailsOnlyWhenFull
  BY DEF SearchInv, SearchOK, Idle, RunningOK, RunningSearches, FoundOK, FoundSearches, FailedOK,
         FailsOnlyWhenFull
<1> QED BY <1>1, SearchInvHolds, PTL
=============================================================================
