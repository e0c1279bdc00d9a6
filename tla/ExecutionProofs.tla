--------------------------- MODULE ExecutionProofs ---------------------------
(***************************************************************************)
(* The instruction pointer and the ring of the stack, for any size of the  *)
(* soup, of the stack and of a word.                                       *)
(***************************************************************************)
EXTENDS Execution, TLAPS

-----------------------------------------------------------------------------
(* Remainders.                                                             *)

\* The remainder is the only number in its range that differs by a multiple.
LEMMA RemainderUnique ==
  ASSUME NEW n \in Nat \ {0}, NEW a \in Int, NEW q \in Int, NEW r \in 0 .. n - 1,
         a = (n * q) + r
  PROVE  a % n = r
<1> DEFINE p == a \div n
<1>1. p \in Int /\ a % n \in 0 .. n - 1 /\ a = (n * p) + (a % n)
  BY Z3
<1> HIDE DEF p
<1>2. n * (p - q) = r - (a % n)
  BY <1>1, Z3
<1>3. CASE p - q >= 1
  <2>1. n * (p - q) >= n
    BY <1>1, <1>3, Z3
  <2> QED BY <1>1, <1>2, <2>1
<1>4. CASE p - q <= -1
  <2>1. n * (p - q) <= -n
    BY <1>1, <1>4, Z3
  <2> QED BY <1>1, <1>2, <2>1
<1>5. CASE p - q = 0
  BY <1>1, <1>2, <1>5, Z3
<1> QED BY <1>1, <1>3, <1>4, <1>5

\* Of a number below twice the divisor.
LEMMA RemainderBelowTwice ==
  ASSUME NEW n \in Nat \ {0}, NEW a \in 0 .. (2 * n) - 1
  PROVE  a % n = IF a < n THEN a ELSE a - n
<1>1. CASE a < n
  <2>1. a = (n * 0) + a /\ a \in 0 .. n - 1
    BY <1>1
  <2> QED BY <1>1, <2>1, RemainderUnique
<1>2. CASE ~(a < n)
  <2>1. a = (n * 1) + (a - n) /\ a - n \in 0 .. n - 1
    BY <1>2
  <2> QED BY <1>2, <2>1, RemainderUnique
<1> QED BY <1>1, <1>2

\* A summand may be reduced first.
LEMMA RemainderOfSum ==
  ASSUME NEW n \in Nat \ {0}, NEW a \in Int, NEW b \in Int
  PROVE  ((a % n) + b) % n = (a + b) % n
<1> DEFINE p == a \div n
           q == ((a % n) + b) \div n
           r == ((a % n) + b) % n
<1>1. p \in Int /\ a % n \in Int /\ a = (n * p) + (a % n)
  BY Z3
<1>2. q \in Int /\ r \in 0 .. n - 1 /\ (a % n) + b = (n * q) + r
  BY <1>1, Z3
<1> HIDE DEF p, q, r
<1>3. a + b = (n * (p + q)) + r
  BY <1>1, <1>2, Z3
<1>4. a + b \in Int /\ p + q \in Int
  BY <1>1, <1>2
<1>5. (a + b) % n = r
  BY <1>2, <1>3, <1>4, RemainderUnique
<1> QED BY <1>5 DEF r

-----------------------------------------------------------------------------
(* The ring.                                                               *)

Places == 0 .. StackSize - 1
Entries == [value : Int, address : Int]

\* The i-th entry below place sp.
Below(sp, i) == (sp + StackSize - i) % StackSize

\* The newest entries of a ring are those of a list of values.
RingHolds(stack, sp, list) ==
  \A i \in 1 .. Len(list) : stack[Below(sp, i)] = list[(Len(list) + 1) - i].value

\* Going down from one place to the next.
LEMMA BelowLemma ==
  ASSUME NEW sp \in Places, NEW i \in 1 .. StackSize
  PROVE  /\ Below(sp, i) \in Places
         /\ Below(sp, i) = IF i <= sp THEN sp - i ELSE (sp - i) + StackSize
<1>1. StackSize \in Nat \ {0}
  BY ExecutionAssumption
<1>2. sp + StackSize - i \in 0 .. (2 * StackSize) - 1
  BY <1>1 DEF Places
<1>3. Below(sp, i) = IF sp + StackSize - i < StackSize THEN sp + StackSize - i
                                                      ELSE (sp + StackSize - i) - StackSize
  BY <1>1, <1>2, RemainderBelowTwice DEF Below
<1> QED BY <1>1, <1>3 DEF Places

\* A place up and back.
LEMMA AboveLemma ==
  ASSUME NEW sp \in Places
  PROVE  \E up \in Places :
           /\ up = (sp + 1) % StackSize
           /\ Below(up, 1) = sp
           /\ \A i \in 2 .. StackSize : Below(up, i) = Below(sp, i - 1) /\ Below(up, i) # sp
<1>1. StackSize \in Nat \ {0} /\ sp \in 0 .. StackSize - 1
  BY ExecutionAssumption DEF Places
<1>2. PICK up : up = (sp + 1) % StackSize
  OBVIOUS
<1>3. up = IF sp = StackSize - 1 THEN 0 ELSE sp + 1
  <2>1. PICK next \in 0 .. (2 * StackSize) - 1 : next = sp + 1
    BY <1>1
  <2>2. next % StackSize = IF next < StackSize THEN next ELSE next - StackSize
    BY <1>1, RemainderBelowTwice
  <2> QED BY <1>1, <1>2, <2>1, <2>2
<1>4. up \in Places
  BY <1>1, <1>3 DEF Places
<1>5. Below(up, 1) = sp
  <2>1. Below(up, 1) = IF 1 <= up THEN up - 1 ELSE (up - 1) + StackSize
    BY <1>1, <1>4, BelowLemma
  <2> QED BY <1>1, <1>3, <2>1
<1>6. ASSUME NEW i \in 2 .. StackSize
      PROVE  Below(up, i) = Below(sp, i - 1) /\ Below(up, i) # sp
  <2>1. i \in 1 .. StackSize /\ i - 1 \in 1 .. StackSize
    BY <1>1
  <2>2. Below(up, i) = IF i <= up THEN up - i ELSE (up - i) + StackSize
    BY <1>4, <2>1, BelowLemma
  <2>3. PICK k : k = i - 1
    OBVIOUS
  <2>4. Below(sp, k) = IF k <= sp THEN sp - k ELSE (sp - k) + StackSize
    BY <2>1, <2>3, BelowLemma
  <2> QED BY <1>1, <1>3, <2>1, <2>2, <2>3, <2>4
<1> QED BY <1>2, <1>4, <1>5, <1>6

\* Further down from the place below.
LEMMA FurtherLemma ==
  ASSUME NEW sp \in Places, NEW i \in 1 .. StackSize - 1
  PROVE  Below(Below(sp, 1), i) = Below(sp, i + 1)
<1>1. StackSize \in Nat \ {0} /\ sp \in 0 .. StackSize - 1
  BY ExecutionAssumption DEF Places
<1>2. 1 \in 1 .. StackSize /\ i \in 1 .. StackSize /\ i + 1 \in 1 .. StackSize
  BY <1>1
<1>3. PICK down \in Places : down = Below(sp, 1)
                             /\ down = IF 1 <= sp THEN sp - 1 ELSE (sp - 1) + StackSize
  BY <1>2, BelowLemma
<1>4. Below(down, i) = IF i <= down THEN down - i ELSE (down - i) + StackSize
  BY <1>2, BelowLemma
<1>5. PICK k : k = i + 1
  OBVIOUS
<1>6. Below(sp, k) = IF k <= sp THEN sp - k ELSE (sp - k) + StackSize
  BY <1>2, <1>5, BelowLemma
<1>7. Below(down, i) = Below(sp, k)
  BY <1>1, <1>2, <1>3, <1>4, <1>5, <1>6
<1> QED BY <1>3, <1>5, <1>7

\* The newest StackSize members of a list that has one more, as NotePush keeps them.
LEMMA NotePushLemma ==
  ASSUME pending \in Seq(Entries), Len(pending) <= StackSize,
         NEW entry \in Entries, NotePush(entry)
  PROVE  /\ pending' \in Seq(Entries)
         /\ Len(pending') = IF Len(pending) = StackSize THEN StackSize ELSE Len(pending) + 1
         /\ pending'[Len(pending')] = entry
         /\ \A i \in 2 .. Len(pending') :
              pending'[(Len(pending') + 1) - i] = pending[(Len(pending) + 2) - i]
         /\ \A k \in 1 .. Len(pending') :
              pending'[k] = entry \/ \E j \in 1 .. Len(pending) : pending'[k] = pending[j]
<1>1. StackSize \in Nat \ {0}
  BY ExecutionAssumption
<1>2. PICK n \in Nat : n = Len(pending) /\ n <= StackSize
  OBVIOUS
<1>3. PICK all \in Seq(Entries) :
        /\ all = Append(pending, entry)
        /\ Len(all) = n + 1
        /\ all[n + 1] = entry
        /\ \A i \in 1 .. n : all[i] = pending[i]
  <2>1. /\ Append(pending, entry) \in Seq(Entries)
        /\ Len(Append(pending, entry)) = n + 1
        /\ Append(pending, entry)[n + 1] = entry
        /\ \A i \in 1 .. n : Append(pending, entry)[i] = pending[i]
    BY <1>2
  <2> QED BY <2>1
<1>4. Min({n + 1, StackSize}) = IF n = StackSize THEN n ELSE n + 1
  <2> DEFINE least == IF n = StackSize THEN n ELSE n + 1
  <2>1. /\ least \in {n + 1, StackSize}
        /\ \A y \in {n + 1, StackSize} : least <= y
        /\ \A x \in {n + 1, StackSize} :
             (\A y \in {n + 1, StackSize} : x <= y) => x = least
    BY <1>1, <1>2
  <2> HIDE DEF least
  <2>2. Min({n + 1, StackSize}) = least
    BY <2>1 DEF Min
  <2> QED BY <2>2 DEF least
<1>5. PICK first \in 1 .. 2 : first = IF n = StackSize THEN 2 ELSE 1
  OBVIOUS
<1>6. pending' = SubSeq(all, first, n + 1)
  <2>1. pending' = SubSeq(all, (Len(all) - Min({Len(all), StackSize})) + 1, Len(all))
    BY <1>3 DEF NotePush
  <2>2. pending' = SubSeq(all, ((n + 1) - Min({n + 1, StackSize})) + 1, n + 1)
    BY <1>3, <2>1
  <2>3. ((n + 1) - Min({n + 1, StackSize})) + 1 = first
    BY <1>2, <1>4, <1>5
  <2> QED BY <2>2, <2>3
<1>7. first \in 1 .. (n + 1)
  BY <1>1, <1>2, <1>5
<1>8. PICK kept \in Seq(Entries) :
        /\ kept = pending'
        /\ Len(kept) = (n + 2) - first
        /\ \A i \in 1 .. ((n + 2) - first) : kept[i] = all[(i + first) - 1]
  <2>1. /\ SubSeq(all, first, n + 1) \in Seq(Entries)
        /\ Len(SubSeq(all, first, n + 1)) = (n + 2) - first
        /\ \A i \in 1 .. ((n + 2) - first) :
             SubSeq(all, first, n + 1)[i] = all[(i + first) - 1]
    BY <1>3, <1>7
  <2> QED BY <1>6, <2>1
<1>9. Len(kept) = IF n = StackSize THEN StackSize ELSE n + 1
  BY <1>2, <1>5, <1>8
<1>10. kept[Len(kept)] = entry
  BY <1>2, <1>3, <1>7, <1>8
<1>11. \A i \in 2 .. Len(kept) : kept[(Len(kept) + 1) - i] = pending[(n + 2) - i]
  <2> TAKE i \in 2 .. Len(kept)
  <2>1. PICK k : k = (Len(kept) + 1) - i
    OBVIOUS
  <2>2. k \in 1 .. ((n + 2) - first) /\ (k + first) - 1 = (n + 2) - i
    BY <1>2, <1>7, <1>8, <2>1
  <2>3. kept[k] = all[(n + 2) - i]
    BY <1>8, <2>2
  <2>4. (n + 2) - i \in 1 .. n
    BY <1>2, <1>7, <1>8
  <2> QED BY <1>3, <2>1, <2>3, <2>4
<1>12. \A k \in 1 .. Len(kept) : kept[k] = entry \/ \E j \in 1 .. n : kept[k] = pending[j]
  <2> TAKE k \in 1 .. Len(kept)
  <2>1. PICK j \in 1 .. (n + 1) : j = (k + first) - 1
    BY <1>2, <1>7, <1>8
  <2>2. kept[k] = all[j]
    BY <1>8, <2>1
  <2>3. j = n + 1 \/ j \in 1 .. n
    BY <1>2
  <2> QED BY <1>3, <2>2, <2>3
<1> QED BY <1>2, <1>8, <1>9, <1>10, <1>11, <1>12

\* A push onto a ring that holds the newest values of a list.
LEMMA PushRing ==
  ASSUME NEW stack \in [Places -> Int], NEW sp \in Places,
         pending \in Seq(Entries), Len(pending) <= StackSize,
         RingHolds(stack, sp, pending),
         NEW entry \in Entries, NotePush(entry)
  PROVE  RingHolds([stack EXCEPT ![sp] = entry.value], (sp + 1) % StackSize, pending')
<1>1. StackSize \in Nat \ {0}
  BY ExecutionAssumption
<1>2. PICK n \in Nat : n = Len(pending) /\ n <= StackSize
  OBVIOUS
<1>3. PICK up \in Places :
        /\ up = (sp + 1) % StackSize
        /\ Below(up, 1) = sp
        /\ \A i \in 2 .. StackSize : Below(up, i) = Below(sp, i - 1) /\ Below(up, i) # sp
  BY AboveLemma
<1>4. PICK m \in Nat : m = Len(pending') /\ m <= n + 1 /\ m <= StackSize
  BY <1>1, <1>2, NotePushLemma
<1>5. PICK new \in [Places -> Int] : new = [stack EXCEPT ![sp] = entry.value]
  BY DEF Entries
<1>6. ASSUME NEW i \in 1 .. m
      PROVE  new[Below(up, i)] = pending'[(m + 1) - i].value
  <2>1. CASE i = 1
    <3>1. pending'[(m + 1) - i] = entry
      BY <1>4, <2>1, NotePushLemma
    <3> QED BY <1>3, <1>5, <2>1, <3>1
  <2>2. CASE i # 1
    <3>1. i \in 2 .. StackSize /\ i \in 2 .. m
      BY <1>1, <1>4, <2>2
    <3>2. PICK k \in 1 .. n : k = i - 1 /\ k \in 1 .. StackSize
      BY <1>1, <1>2, <1>4, <3>1
    <3>3. Below(up, i) = Below(sp, k) /\ Below(up, i) # sp /\ Below(sp, k) \in Places
      BY <1>3, <3>1, <3>2, BelowLemma
    <3>4. stack[Below(sp, k)] = pending[(n + 1) - k].value
      BY <1>2, <3>2 DEF RingHolds
    <3>5. pending'[(m + 1) - i] = pending[(n + 2) - i]
      BY <1>2, <1>4, <3>1, NotePushLemma
    <3>6. (n + 1) - k = (n + 2) - i
      BY <1>2, <3>2
    <3> QED BY <1>5, <3>3, <3>4, <3>5, <3>6
  <2> QED BY <2>1, <2>2
<1> QED BY <1>3, <1>4, <1>5, <1>6 DEF RingHolds

\* A pop.
LEMMA PopRing ==
  ASSUME NEW stack \in [Places -> Int], NEW sp \in Places,
         pending \in Seq(Entries), Len(pending) <= StackSize,
         RingHolds(stack, sp, pending), NotePop
  PROVE  /\ RingHolds(stack, Below(sp, 1), pending')
         /\ pending' \in Seq(Entries) /\ Len(pending') <= StackSize
         /\ \A i \in 1 .. Len(pending') : i \in 1 .. Len(pending) /\ pending'[i] = pending[i]
<1>1. StackSize \in Nat \ {0}
  BY ExecutionAssumption
<1>2. PICK n \in Nat : n = Len(pending) /\ n <= StackSize
  OBVIOUS
<1>3. CASE pending = <<>>
  BY <1>3 DEF NotePop, RingHolds
<1>4. CASE pending # <<>>
  <2>1. n > 0
    BY <1>2, <1>4
  <2>2. PICK rest \in Seq(Entries) : /\ rest = pending'
                                     /\ Len(rest) = n - 1
                                     /\ \A i \in 1 .. (n - 1) : rest[i] = pending[i]
    <3>1. pending' = SubSeq(pending, 1, n - 1)
      BY <1>2, <1>4 DEF NotePop, Front
    <3>2. /\ SubSeq(pending, 1, n - 1) \in Seq(Entries)
          /\ Len(SubSeq(pending, 1, n - 1)) = n - 1
          /\ \A i \in 1 .. (n - 1) : SubSeq(pending, 1, n - 1)[i] = pending[i]
      BY <1>2, <2>1
    <3> QED BY <3>1, <3>2
  <2>3. PICK down \in Places : down = Below(sp, 1)
    BY <1>1, BelowLemma
  <2>4. ASSUME NEW i \in 1 .. (n - 1)
        PROVE  stack[Below(down, i)] = rest[n - i].value
    <3>1. i \in 1 .. StackSize - 1 /\ n - i \in 1 .. (n - 1)
      BY <1>1, <1>2, <2>1
    <3>2. PICK k \in 1 .. n : k = i + 1
      BY <1>2, <2>1
    <3>3. Below(down, i) = Below(sp, k)
      BY <2>3, <3>1, <3>2, FurtherLemma
    <3>4. stack[Below(sp, k)] = pending[(n + 1) - k].value
      BY <1>2, <3>2 DEF RingHolds
    <3>5. (n + 1) - k = n - i
      BY <1>2, <3>2
    <3> QED BY <2>2, <3>1, <3>3, <3>4, <3>5
  <2>5. RingHolds(stack, down, rest)
    <3>1. \A i \in 1 .. (n - 1) : ((n - 1) + 1) - i = n - i
      BY <1>2
    <3> QED BY <2>2, <2>4, <3>1 DEF RingHolds
  <2>6. \A i \in 1 .. Len(rest) : i \in 1 .. Len(pending) /\ rest[i] = pending[i]
    BY <1>2, <2>2
  <2>7. Len(rest) <= StackSize
    BY <1>1, <1>2, <2>2
  <2> QED BY <2>2, <2>3, <2>5, <2>6, <2>7
<1> QED BY <1>3, <1>4

-----------------------------------------------------------------------------
(* The inductive invariant.                                                *)

\* Within an instruction the pointer may lead out of the soup.
PartialCpus == [ip : Int, flag : BOOLEAN, stack : [Places -> Int], sp : Places]

CpuRecords == [ip : Addresses, flag : BOOLEAN, stack : [Places -> Int], sp : Places]

\* A value pushed by a call is an offset of the address to return to, less than two
\* turns of the soup ahead.
ReturnEntries ==
  \A i \in 1 .. Len(pending) :
    pending[i].address # NoAddress =>
      /\ pending[i].value \in 1 .. 2 * Size
      /\ pending[i].address = (location + pending[i].value) % Size

\* No value pushed is so large that it wraps the word.
BoundedStack == \A p \in Places : 2 * cpu.stack[p] < WordSize

IInv ==
  /\ location \in Addresses
  /\ cpu \in CpuRecords
  /\ pending \in Seq(Entries) /\ Len(pending) <= StackSize
  /\ RingHolds(cpu.stack, cpu.sp, pending)
  /\ ReturnEntries
  /\ BoundedStack

\* The constants as the proofs use them.
LEMMA ConstantsLemma ==
  /\ Size \in Nat \ {0}
  /\ StackSize \in Nat \ {0}
  /\ MaxLength \in 1 .. Size - 1
  /\ WordSize \in Nat \ {0} /\ WordSize > 8 * Size
  /\ Words \subseteq Int
  BY ExecutionAssumption

\* An instruction ends with the pointer in the soup and the rest as it was left.
LEMMA DoneLemma ==
  ASSUME NEW c \in PartialCpus,
         Done(c)
  PROVE  /\ cpu' \in CpuRecords
         /\ cpu'.ip = ((c.ip + 1) % WordSize) % Size
         /\ cpu'.stack = c.stack /\ cpu'.sp = c.sp
         /\ location' = location
<1>1. PICK a \in Int : a = c.ip + 1
  BY DEF PartialCpus
<1>2. PICK b \in Int : b = a % WordSize
  BY ConstantsLemma
<1>3. b % Size \in Addresses
  BY ConstantsLemma DEF Addresses
<1>4. cpu' = [c EXCEPT !.ip = b % Size] /\ location' = location
  BY <1>1, <1>2 DEF Done, IncrementIP
<1> QED BY <1>1, <1>2, <1>3, <1>4 DEF CpuRecords, PartialCpus

\* Whatever leaves the stack alone.
LEMMA SameStack ==
  ASSUME IInv, NEW c \in PartialCpus,
         c.stack = cpu.stack, c.sp = cpu.sp, Done(c), UNCHANGED pending
  PROVE  IInv'
  BY DoneLemma DEF IInv, RingHolds, ReturnEntries, BoundedStack

\* A push, of a value that is an offset of the address noted with it, if any.
LEMMA PushStep ==
  ASSUME IInv, NEW c \in PartialCpus,
         NEW entry \in Entries,
         entry.address # NoAddress =>
           /\ entry.value \in 1 .. 2 * Size
           /\ entry.address = (location + entry.value) % Size,
         2 * entry.value < WordSize,
         c.stack = [cpu.stack EXCEPT ![cpu.sp] = entry.value],
         c.sp = (cpu.sp + 1) % StackSize,
         Done(c), NotePush(entry)
  PROVE  IInv'
<1>1. cpu.stack \in [Places -> Int] /\ cpu.sp \in Places
  BY DEF IInv, CpuRecords
<1>2. /\ cpu' \in CpuRecords /\ location' = location
      /\ cpu'.stack = c.stack /\ cpu'.sp = c.sp
  BY DoneLemma
<1>3. RingHolds(cpu'.stack, cpu'.sp, pending')
  <2>1. RingHolds([cpu.stack EXCEPT ![cpu.sp] = entry.value], (cpu.sp + 1) % StackSize, pending')
    <3>1. PICK stack \in [Places -> Int], sp \in Places : stack = cpu.stack /\ sp = cpu.sp
      BY <1>1
    <3>2. RingHolds([stack EXCEPT ![sp] = entry.value], (sp + 1) % StackSize, pending')
      BY <3>1, PushRing DEF IInv
    <3> QED BY <3>1, <3>2
  <2> QED BY <1>2, <2>1
<1>4. /\ pending' \in Seq(Entries)
      /\ Len(pending') = IF Len(pending) = StackSize THEN StackSize ELSE Len(pending) + 1
      /\ pending'[Len(pending')] = entry
      /\ \A k \in 1 .. Len(pending') :
           pending'[k] = entry \/ \E j \in 1 .. Len(pending) : pending'[k] = pending[j]
  BY NotePushLemma DEF IInv
<1>5. PICK n \in Nat, m \in Nat :
        n = Len(pending) /\ m = Len(pending') /\ n <= StackSize /\ m <= n + 1 /\ m <= StackSize
  BY <1>4, ConstantsLemma DEF IInv
<1>6. \A k \in 1 .. m : pending'[k] = entry \/ \E j \in 1 .. n : pending'[k] = pending[j]
  BY <1>4, <1>5
<1>7. ReturnEntries'
  <2> SUFFICES ASSUME NEW k \in 1 .. m, pending'[k].address # NoAddress
               PROVE  /\ pending'[k].value \in 1 .. 2 * Size
                      /\ pending'[k].address = (location + pending'[k].value) % Size
    BY <1>2, <1>5 DEF ReturnEntries
  <2>1. CASE pending'[k] = entry
    BY <2>1
  <2>2. CASE \E j \in 1 .. n : pending'[k] = pending[j]
    BY <1>5, <2>2 DEF IInv, ReturnEntries
  <2> QED BY <1>6, <2>1, <2>2
<1>8. Len(pending') <= StackSize /\ location' \in Addresses
  BY <1>2, <1>5 DEF IInv
<1>9. BoundedStack'
  BY <1>1, <1>2 DEF IInv, BoundedStack
<1> QED BY <1>2, <1>3, <1>4, <1>7, <1>8, <1>9 DEF IInv

\* A pop.
LEMMA PopStep ==
  ASSUME IInv, NEW c \in PartialCpus,
         c.stack = cpu.stack, c.sp = Below(cpu.sp, 1), Done(c), NotePop
  PROVE  IInv'
<1>1. cpu.stack \in [Places -> Int] /\ cpu.sp \in Places
  BY DEF IInv, CpuRecords
<1>2. /\ cpu' \in CpuRecords /\ location' = location
      /\ cpu'.stack = c.stack /\ cpu'.sp = c.sp
  BY DoneLemma
<1>3. /\ RingHolds(cpu.stack, Below(cpu.sp, 1), pending')
      /\ pending' \in Seq(Entries) /\ Len(pending') <= StackSize
      /\ \A i \in 1 .. Len(pending') : i \in 1 .. Len(pending) /\ pending'[i] = pending[i]
  BY <1>1, PopRing DEF IInv
<1>4. ReturnEntries'
  BY <1>2, <1>3 DEF IInv, ReturnEntries
<1>5. BoundedStack'
  BY <1>2 DEF IInv, BoundedStack
<1> QED BY <1>2, <1>3, <1>4, <1>5 DEF IInv

-----------------------------------------------------------------------------
(* Offsets and addresses.                                                  *)

\* A turn more or less of the soup.
LEMMA TurnLemma ==
  ASSUME NEW n \in Nat \ {0}, NEW a \in Int
  PROVE  (a + n) % n = a % n
<1>1. PICK p \in Int, r \in 0 .. n - 1 : r = a % n /\ a = (n * p) + r
  <2>1. a \div n \in Int /\ a % n \in 0 .. n - 1 /\ a = (n * (a \div n)) + (a % n)
    BY Z3
  <2> QED BY <2>1
<1>2. a + n = (n * (p + 1)) + r /\ a + n \in Int /\ p + 1 \in Int
  BY <1>1, Z3
<1>3. (a + n) % n = r
  BY <1>2, RemainderUnique
<1> QED BY <1>1, <1>3

\* A number below the divisor is its own remainder.
LEMMA SmallLemma ==
  ASSUME NEW n \in Nat \ {0}, NEW a \in 0 .. n - 1
  PROVE  a % n = a
<1>1. a = (n * 0) + a
  OBVIOUS
<1> QED BY <1>1, RemainderUnique

\* Where an offset leads that does not wrap the word.
LEMMA AddressLemma ==
  ASSUME location \in Addresses, NEW o \in Int,
         0 <= location + o + Size, location + o + Size < WordSize
  PROVE  AddressFromOffset(o) = (location + o) % Size
<1>1. PICK a \in Int : a = location + o
  BY ConstantsLemma DEF Addresses
<1>2. PICK b \in 0 .. WordSize - 1 : b = location + o + Size /\ b = a + Size
  BY <1>1, ConstantsLemma DEF Addresses
<1>3. b % WordSize = b
  BY SmallLemma, ConstantsLemma
<1>4. (a + Size) % Size = a % Size
  BY TurnLemma, ConstantsLemma
<1> QED BY <1>1, <1>2, <1>3, <1>4 DEF AddressFromOffset

\* The pointer is within the soup.
LEMMA ReferencedLemma ==
  ASSUME location \in Addresses, cpu.ip \in Addresses
  PROVE  ReferencedLocation = (location + cpu.ip) % Size
<1>1. cpu.ip \in Int /\ 0 <= location + cpu.ip + Size /\ location + cpu.ip + Size < WordSize
  BY ConstantsLemma DEF Addresses
<1> QED BY <1>1, AddressLemma DEF ReferencedLocation

\* An address has an offset within the soup.
LEMMA OffsetLemma ==
  ASSUME location \in Addresses, NEW a \in Int
  PROVE  OffsetFromAddress(a) \in Addresses
<1>1. a + Size - location \in Int
  BY ConstantsLemma DEF Addresses
<1> QED BY <1>1, ConstantsLemma, Z3 DEF OffsetFromAddress, Addresses

\* What a call pushes is an offset of the address after its template.
LEMMA CallLemma ==
  ASSUME location \in Addresses, cpu.ip \in Addresses, NEW length \in 0 .. MaxLength
  PROVE  /\ ReturnOffset(length) \in 1 .. 2 * Size
         /\ AfterTemplate(length) \in Addresses
         /\ AfterTemplate(length) = (location + ReturnOffset(length)) % Size
<1>1. PICK v \in 1 .. 2 * Size : v = ReturnOffset(length) /\ v = cpu.ip + length + 1
  BY ConstantsLemma DEF Addresses, ReturnOffset
<1>2. PICK a \in Int, b \in Int : a = location + cpu.ip /\ b = 1 + length /\ a + b = location + v
  BY <1>1, ConstantsLemma DEF Addresses
<1>3. AfterTemplate(length) = ((a % Size) + b) % Size
  <2>1. (a % Size) \in Int
    BY ConstantsLemma
  <2>2. (a % Size) + 1 + length = (a % Size) + b
    BY <1>2, <2>1
  <2> QED BY <1>2, <2>2, ReferencedLemma DEF AfterTemplate
<1>4. AfterTemplate(length) = (a + b) % Size
  BY <1>3, RemainderOfSum, ConstantsLemma
<1>5. (a + b) % Size \in Addresses
  BY ConstantsLemma DEF Addresses
<1> QED BY <1>1, <1>2, <1>4, <1>5

-----------------------------------------------------------------------------
(* Every instruction keeps the invariant.                                  *)

\* A new Cpu satisfies it.
LEMMA InitLemma == Init => IInv
<1> SUFFICES ASSUME Init PROVE IInv
  OBVIOUS
<1>1. location \in Addresses /\ cpu \in CpuRecords
  BY ConstantsLemma DEF Init, CpuRecords, Addresses, Places
<1>2. pending = <<>>
  BY DEF Init
<1>3. RingHolds(cpu.stack, cpu.sp, pending) /\ ReturnEntries
  BY <1>2 DEF RingHolds, ReturnEntries
<1>4. pending \in Seq(Entries) /\ Len(pending) <= StackSize
  BY <1>2, ConstantsLemma
<1>5. BoundedStack
  BY ConstantsLemma DEF Init, BoundedStack, Places
<1> QED BY <1>1, <1>3, <1>4, <1>5 DEF IInv

\* What the parts of an instruction make of the record.
LEMMA StartLemma ==
  ASSUME cpu \in CpuRecords
  PROVE  /\ Start \in PartialCpus
         /\ Start.ip = cpu.ip /\ Start.stack = cpu.stack /\ Start.sp = cpu.sp
<1>1. Addresses \subseteq Int
  BY ConstantsLemma DEF Addresses
<1>2. cpu \in PartialCpus
  BY <1>1 DEF CpuRecords, PartialCpus
<1> QED BY <1>2 DEF Start, PartialCpus

\* Setting the pointer.
LEMMA PointerLemma ==
  ASSUME NEW c \in PartialCpus, NEW i \in Int
  PROVE  /\ [c EXCEPT !.ip = i] \in PartialCpus
         /\ [c EXCEPT !.ip = i].ip = i
         /\ [c EXCEPT !.ip = i].stack = c.stack /\ [c EXCEPT !.ip = i].sp = c.sp
  BY DEF PartialCpus

\* Setting the flag.
LEMMA FlagLemma ==
  ASSUME NEW c \in PartialCpus
  PROVE  /\ SetFlag(c) \in PartialCpus
         /\ SetFlag(c).stack = c.stack /\ SetFlag(c).sp = c.sp
  BY DEF SetFlag, PartialCpus

\* A push writes where the stack pointer stands, and moves it on.
LEMMA PushedLemma ==
  ASSUME NEW c \in PartialCpus, NEW d \in Int
  PROVE  /\ Push(c, d) \in PartialCpus
         /\ Push(c, d).ip = c.ip
         /\ Push(c, d).stack = [c.stack EXCEPT ![c.sp] = d]
         /\ Push(c, d).sp = (c.sp + 1) % StackSize
<1>1. c.sp \in Places /\ c.stack \in [Places -> Int]
  BY DEF PartialCpus
<1>2. (c.sp + 1) % StackSize \in Places
  BY <1>1, AboveLemma
<1>3. [c.stack EXCEPT ![c.sp] = d] \in [Places -> Int]
  BY <1>1
<1> QED BY <1>2, <1>3 DEF Push, PartialCpus

\* A pop moves the stack pointer back, and reads there.
LEMMA PoppedLemma ==
  ASSUME NEW c \in PartialCpus
  PROVE  /\ Popped(c) \in PartialCpus
         /\ Popped(c).ip = c.ip /\ Popped(c).stack = c.stack /\ Popped(c).sp = Below(c.sp, 1)
         /\ Top(c) = c.stack[Below(c.sp, 1)] /\ Top(c) \in Int
<1>1. c.sp \in Places /\ c.stack \in [Places -> Int]
  BY DEF PartialCpus
<1>2. (c.sp + StackSize - 1) % StackSize = Below(c.sp, 1) /\ Below(c.sp, 1) \in Places
  BY <1>1, ConstantsLemma, BelowLemma DEF Below
<1> QED BY <1>1, <1>2 DEF Popped, Top, PartialCpus

\* Skipping the next instruction.
LEMMA SkippedLemma ==
  ASSUME NEW c \in PartialCpus
  PROVE  /\ IncrementIP(c) \in PartialCpus
         /\ IncrementIP(c).stack = c.stack /\ IncrementIP(c).sp = c.sp
<1>1. PICK a \in Int : a = c.ip + 1
  BY DEF PartialCpus
<1>2. PICK b \in Int : b = a % WordSize
  BY ConstantsLemma
<1>3. PICK i \in Int : i = b % Size
  BY ConstantsLemma
<1> QED BY <1>1, <1>2, <1>3, PointerLemma DEF IncrementIP

\* What a search may return.
LEMMA SearchLemma ==
  ASSUME location \in Addresses, NEW r \in Found \cup NotFound
  PROVE  /\ r.length \in 0 .. MaxLength /\ r.length \in Int
         /\ r.found => r \in Found /\ r.location \in 0 .. Size /\ AfterComplement(r) \in Addresses
<1>1. CASE r \in Found
  <2>1. r.length \in 1 .. MaxLength /\ r.location \in 0 .. Size
    BY <1>1 DEF Found
  <2>2. PICK a \in Int : a = r.location + r.length + Size - 1
    BY <2>1, ConstantsLemma
  <2>3. a % Size \in Int
    BY ConstantsLemma
  <2>4. AfterComplement(r) \in Addresses
    BY <2>2, <2>3, OffsetLemma DEF AfterComplement
  <2> QED BY <1>1, <2>1, <2>4, ConstantsLemma
<1>2. CASE r \in NotFound
  <2>1. r.found = FALSE /\ r.length \in 0 .. MaxLength
    BY <1>2 DEF NotFound
  <2>2. ~ r.found
    BY <2>1
  <2>3. r.length \in Int
    BY <2>1, ConstantsLemma
  <2> QED BY <2>1, <2>2, <2>3
<1> QED BY <1>1, <1>2

\* Each instruction keeps the invariant.
LEMMA NextLemma == IInv /\ Next => IInv'
<1> SUFFICES ASSUME IInv, Next PROVE IInv'
  OBVIOUS
<1>1. /\ location \in Addresses
      /\ cpu \in CpuRecords
      /\ cpu.ip \in Addresses /\ cpu.ip \in Int
  BY ConstantsLemma DEF IInv, CpuRecords, Addresses
<1>2. Start \in PartialCpus /\ Start.ip = cpu.ip /\ Start.stack = cpu.stack /\ Start.sp = cpu.sp
  BY <1>1, StartLemma
<1>3. CASE Compute \/ CopyAllocateDivide
  BY <1>2, <1>3, FlagLemma, SameStack DEF Compute, CopyAllocateDivide
<1>4. CASE SkipNext
  BY <1>2, <1>4, SkippedLemma, SameStack DEF SkipNext
<1>5. ASSUME NEW d \in Words, PushRegister(d) PROVE IInv'
  <2>1. d \in Int /\ Value(d) \in Entries /\ Value(d).value = d /\ Value(d).address = NoAddress
    BY ConstantsLemma DEF Value, Entries, NoAddress
  <2>4. 2 * Value(d).value < WordSize
    BY <2>1, ExecutionAssumption
  <2>2. /\ Push(Start, d) \in PartialCpus
        /\ Push(Start, d).stack = [cpu.stack EXCEPT ![cpu.sp] = d]
        /\ Push(Start, d).sp = (cpu.sp + 1) % StackSize
    BY <1>2, <2>1, PushedLemma
  <2>3. Done(Push(Start, d)) /\ NotePush(Value(d))
    BY <1>5 DEF PushRegister
  <2> QED BY <2>1, <2>2, <2>3, <2>4, PushStep
<1>6. CASE PopRegister
  BY <1>2, <1>6, PoppedLemma, PopStep DEF PopRegister
<1>7. CASE Return
  <2>1. PICK i \in Int : i = Top(Start) - 1
    BY <1>2, PoppedLemma
  <2>2. /\ [Popped(Start) EXCEPT !.ip = i] \in PartialCpus
        /\ [Popped(Start) EXCEPT !.ip = i].stack = cpu.stack
        /\ [Popped(Start) EXCEPT !.ip = i].sp = Below(cpu.sp, 1)
    BY <1>2, PoppedLemma, PointerLemma
  <2>3. Done([Popped(Start) EXCEPT !.ip = i]) /\ NotePop
    BY <1>7, <2>1 DEF Return
  <2> QED BY <2>2, <2>3, PopStep
<1>8. ASSUME NEW r \in Found \cup NotFound PROVE
        /\ r.length \in 0 .. MaxLength
        /\ Start.ip + r.length \in Int
        /\ r.found => AfterComplement(r) \in Int
  BY <1>1, <1>2, SearchLemma, ConstantsLemma DEF Addresses
<1>9. ASSUME NEW i \in Int, UNCHANGED pending,
             Done([Start EXCEPT !.ip = i]) \/ Done(SetFlag([Start EXCEPT !.ip = i]))
      PROVE  IInv'
  <2>1. PICK c \in PartialCpus :
          c = [Start EXCEPT !.ip = i] /\ c.stack = cpu.stack /\ c.sp = cpu.sp
    <3>1. /\ [Start EXCEPT !.ip = i] \in PartialCpus
          /\ [Start EXCEPT !.ip = i].stack = cpu.stack
          /\ [Start EXCEPT !.ip = i].sp = cpu.sp
      BY <1>2, PointerLemma
    <3> QED BY <3>1
  <2>2. CASE Done(c)
    BY <1>9, <2>1, <2>2, SameStack
  <2>3. CASE Done(SetFlag(c))
    BY <1>9, <2>1, <2>3, FlagLemma, SameStack
  <2> QED BY <1>9, <2>1, <2>2, <2>3
<1>10. ASSUME NEW r \in Found \cup NotFound, Jump(r) PROVE IInv'
  <2>1. CASE r.found
    BY <1>8, <1>9, <1>10, <2>1 DEF Jump
  <2>2. CASE ~ r.found
    BY <1>8, <1>9, <1>10, <2>2 DEF Jump
  <2> QED BY <2>1, <2>2
<1>11. ASSUME NEW r \in Found \cup NotFound, Address(r) PROVE IInv'
  <2>1. CASE r.found
    BY <1>8, <1>9, <1>11, <2>1 DEF Address
  <2>2. CASE ~ r.found
    BY <1>2, <1>11, <2>2, FlagLemma, SameStack DEF Address
  <2> QED BY <2>1, <2>2
<1>12. ASSUME NEW r \in Found \cup NotFound, Call(r) PROVE IInv'
  <2>1. CASE r.found \/ r.length = 0
    <3>1. PICK v, a : /\ v \in 1 .. 2 * Size /\ v \in Int /\ a \in Addresses /\ a \in Int
                      /\ v = ReturnOffset(r.length) /\ a = AfterTemplate(r.length)
                      /\ a = (location + v) % Size
      BY <1>1, <1>8, CallLemma, ConstantsLemma DEF Addresses
    <3>2. /\ ReturnTo(v, a) \in Entries
          /\ ReturnTo(v, a).value = v /\ ReturnTo(v, a).address = a
      BY <3>1 DEF ReturnTo, Entries
    <3>3. /\ Push(Start, v) \in PartialCpus
          /\ Push(Start, v).ip = cpu.ip
          /\ Push(Start, v).stack = [cpu.stack EXCEPT ![cpu.sp] = v]
          /\ Push(Start, v).sp = (cpu.sp + 1) % StackSize
      BY <1>2, <3>1, PushedLemma
    <3>4. PICK i \in Int : i = IF r.found THEN AfterComplement(r) ELSE Push(Start, v).ip
      BY <1>1, <1>8, <3>3
    <3>5. Done([Push(Start, v) EXCEPT !.ip = i]) /\ NotePush(ReturnTo(v, a))
      BY <1>12, <2>1, <3>1, <3>4 DEF Call
    <3>6. /\ [Push(Start, v) EXCEPT !.ip = i] \in PartialCpus
          /\ [Push(Start, v) EXCEPT !.ip = i].stack = [cpu.stack EXCEPT ![cpu.sp] = v]
          /\ [Push(Start, v) EXCEPT !.ip = i].sp = (cpu.sp + 1) % StackSize
      BY <3>3, PointerLemma
    <3>7. 2 * v < WordSize
      BY <3>1, ConstantsLemma
    <3> QED BY <3>1, <3>2, <3>5, <3>6, <3>7, PushStep
  <2>2. CASE ~(r.found \/ r.length = 0)
    BY <1>8, <1>9, <1>12, <2>2 DEF Call
  <2> QED BY <2>1, <2>2
<1> QED BY <1>3, <1>4, <1>5, <1>6, <1>7, <1>10, <1>11, <1>12 DEF Next

\* The invariant holds of every behaviour.
LEMMA IInvLemma == Spec => []IInv
<1>1. IInv /\ UNCHANGED vars => IInv'
  BY DEF IInv, RingHolds, ReturnEntries, BoundedStack, vars
<1> QED BY <1>1, InitLemma, NextLemma, PTL DEF Spec

\* The pointer stays in the soup, whatever a return or a skip makes of it.
THEOREM TypeCorrectness == Spec => []TypeOK
<1>1. IInv => TypeOK
  BY DEF IInv, TypeOK, CpuRecords, Places
<1> QED BY <1>1, IInvLemma, PTL

\* The ring of the stack holds the newest values pushed and not popped.
THEOREM StackAlwaysHoldsNewest == Spec => []StackHoldsNewest
<1>1. IInv => StackHoldsNewest
  <2> SUFFICES ASSUME IInv, NEW i \in 1 .. Len(pending)
               PROVE  cpu.stack[(cpu.sp + StackSize - i) % StackSize]
                        = pending[Len(pending) + 1 - i].value
    BY DEF StackHoldsNewest
  <2> QED BY DEF IInv, RingHolds, Below
<1> QED BY <1>1, IInvLemma, PTL

\* Where an instruction that leaves the pointer at c.ip leads.
LEMMA LandsLemma ==
  ASSUME IInv, NEW c \in PartialCpus, Done(c),
         NEW v \in Int, v = c.ip + 1, 0 <= v, v < WordSize
  PROVE  ReferencedLocation' = (location + v) % Size
<1>1. location \in Addresses
  BY DEF IInv
<1>2. cpu' \in CpuRecords /\ location' = location /\ cpu'.ip = (v % WordSize) % Size
  BY DoneLemma
<1>3. v % WordSize = v
  BY SmallLemma, ConstantsLemma
<1>4. PICK l \in Addresses, o \in Addresses : l = location /\ l = location' /\ o = cpu'.ip
  BY <1>1, <1>2 DEF CpuRecords
<1>5. ((l + o + Size) % WordSize) % Size = (l + o) % Size
  <2>1. PICK a \in Int : a = l + o
    BY ConstantsLemma DEF Addresses
  <2>2. PICK b \in 0 .. WordSize - 1 : b = l + o + Size /\ b = a + Size
    BY <2>1, ConstantsLemma DEF Addresses
  <2>3. b % WordSize = b
    BY SmallLemma, ConstantsLemma
  <2>4. (a + Size) % Size = a % Size
    BY TurnLemma, ConstantsLemma
  <2> QED BY <2>1, <2>2, <2>3, <2>4
<1>6. ReferencedLocation' = (l + o) % Size
  BY <1>4, <1>5 DEF ReferencedLocation, AddressFromOffset
<1>7. (l + (v % Size)) % Size = (l + v) % Size
  <2>1. l \in Int /\ (v % Size) \in Int
    BY ConstantsLemma DEF Addresses
  <2>2. ((v % Size) + l) % Size = (v + l) % Size
    BY <2>1, RemainderOfSum, ConstantsLemma
  <2>3. (v % Size) + l = l + (v % Size) /\ v + l = l + v
    BY <2>1
  <2> QED BY <2>2, <2>3
<1> QED BY <1>2, <1>3, <1>4, <1>6, <1>7

\* A return leads to the address its offset is of, if the offset is not negative.
LEMMA ReturnLemma ==
  ASSUME IInv, Return, NEW v \in Int, v = Top(cpu), 0 <= v, v < WordSize
  PROVE  ReferencedLocation' = (location + v) % Size
<1>1. /\ Start \in PartialCpus /\ Start.stack = cpu.stack /\ Start.sp = cpu.sp
  BY StartLemma DEF IInv
<1>2. Top(Start) = v
  BY <1>1 DEF Top
<1>3. PICK i \in Int : i = v - 1 /\ v = i + 1
  OBVIOUS
<1>4. /\ [Popped(Start) EXCEPT !.ip = i] \in PartialCpus
      /\ [Popped(Start) EXCEPT !.ip = i].ip = i
  BY <1>1, PoppedLemma, PointerLemma
<1>5. Done([Popped(Start) EXCEPT !.ip = i])
  BY <1>2, <1>3 DEF Return
<1> QED BY <1>3, <1>4, <1>5, LandsLemma

\* A return that pops what a call pushed leads right behind that call's template:
\* the one the call noted is the one the ring gives back, the offset is taken from
\* the same location, and the increment that every instruction ends with is
\* allowed for once.
THEOREM AlwaysReturnsAfterCall == Spec => ReturnsAfterCall
<1>1. IInv => (Return /\ pending # <<>> /\ Last(pending).address # NoAddress
                 => ReferencedLocation' = Last(pending).address)
  <2> SUFFICES ASSUME IInv, Return, pending # <<>>, Last(pending).address # NoAddress
               PROVE  ReferencedLocation' = Last(pending).address
    OBVIOUS
  <2>1. PICK n \in Nat : n = Len(pending) /\ n > 0 /\ n \in 1 .. n
    BY DEF IInv
  <2>2. PICK e \in Entries : e = pending[n] /\ e = Last(pending)
    BY <2>1 DEF IInv, Last
  <2>3. PICK v \in 1 .. 2 * Size : v = e.value /\ e.address = (location + v) % Size
    BY <2>1, <2>2 DEF IInv, ReturnEntries
  <2>4. Top(cpu) = v
    <3>1. cpu.stack[Below(cpu.sp, 1)] = pending[(n + 1) - 1].value
      BY <2>1 DEF IInv, RingHolds
    <3>2. (n + 1) - 1 = n
      OBVIOUS
    <3> QED BY <2>2, <2>3, <3>1, <3>2 DEF Top, Below
  <2>5. v \in Int /\ 0 <= v /\ v < WordSize
    BY ConstantsLemma
  <2> QED BY <2>2, <2>3, <2>4, <2>5, ReturnLemma
<1>2. IInv /\ [Next]_vars
        => [Return /\ pending # <<>> /\ Last(pending).address # NoAddress
              => ReferencedLocation' = Last(pending).address]_vars
  BY <1>1
<1> QED BY <1>2, IInvLemma, PTL DEF Spec, ReturnsAfterCall

\* The offset of an address, taken from the same location, leads back to it.
LEMMA BackLemma ==
  ASSUME location \in Addresses, NEW a \in Int, NEW k \in Int
  PROVE  (location + (OffsetFromAddress(a) + k)) % Size = (a + k) % Size
<1>1. PICK b \in Int : b = a + Size - location
  BY ConstantsLemma DEF Addresses
<1>2. PICK m \in Int : m = location + k
  BY ConstantsLemma DEF Addresses
<1>3. PICK o \in Int : o = OffsetFromAddress(a) /\ o = b % Size
  BY <1>1, OffsetLemma, ConstantsLemma DEF OffsetFromAddress, Addresses
<1>4. ((b % Size) + m) % Size = (b + m) % Size
  BY RemainderOfSum, ConstantsLemma
<1>5. PICK d \in Int : d = a + k
  OBVIOUS
<1>6. b + m = d + Size
  BY <1>1, <1>2, <1>5, ConstantsLemma DEF Addresses
<1>7. (d + Size) % Size = d % Size
  BY TurnLemma, ConstantsLemma
<1>8. location + (o + k) = o + m
  BY <1>2, ConstantsLemma DEF Addresses
<1> QED BY <1>3, <1>4, <1>5, <1>6, <1>7, <1>8

\* From AfterComplement, the increment leads past the complement.
LEMMA AfterComplementLemma ==
  ASSUME location \in Addresses, NEW r \in Found
  PROVE  (location + (AfterComplement(r) + 1)) % Size = (r.location + r.length) % Size
<1>1. r.location \in Int /\ r.length \in Int
  BY ConstantsLemma DEF Found
<1>2. PICK p \in Int : p = r.location + r.length
  BY <1>1
<1>3. PICK x \in Int : x = r.location + r.length + Size - 1 /\ x + 1 = p + Size
  BY <1>1, <1>2, ConstantsLemma
<1>4. PICK y \in Int : y = x % Size
  BY ConstantsLemma
<1>5. (location + (OffsetFromAddress(y) + 1)) % Size = (y + 1) % Size
  BY <1>4, BackLemma
<1>6. (y + 1) % Size = (x + 1) % Size
  <2>1. \A b \in Int : ((x % Size) + b) % Size = (x + b) % Size
    BY RemainderOfSum, ConstantsLemma
  <2>2. ((x % Size) + 1) % Size = (x + 1) % Size
    BY <2>1
  <2> QED BY <1>4, <2>2
<1>7. (p + Size) % Size = p % Size
  BY TurnLemma, ConstantsLemma
<1> QED BY <1>2, <1>3, <1>4, <1>5, <1>6, <1>7 DEF AfterComplement

\* A jump or a call goes on right after the complement that was found, and the
\* offset adr leaves in ax leads there too, wherever the ends of the soup are.
THEOREM AlwaysSearchesLeadPastComplement == Spec => SearchesLeadPastComplement
<1> DEFINE Past(r) == (r.location + r.length) % Size
<1>1. ASSUME IInv, NEW r \in Found
      PROVE  /\ Jump(r) => ReferencedLocation' = Past(r)
             /\ Call(r) => ReferencedLocation' = Past(r)
             /\ AddressFromOffset(FoundOffset(r)) = Past(r)
  <2>1. /\ location \in Addresses /\ cpu \in CpuRecords /\ cpu.ip \in Addresses
        /\ Start \in PartialCpus
    BY <1>1, StartLemma DEF IInv, CpuRecords
  <2>2. /\ r.found = TRUE /\ r.found /\ r.length \in 0 .. MaxLength
        /\ r.location \in Int /\ r.length \in Int
        /\ AfterComplement(r) \in Addresses
    <3>1. r.found = TRUE
      BY DEF Found
    <3>2. r \in Found \cup NotFound /\ r.found
      BY <3>1
    <3> QED BY <2>1, <3>1, <3>2, SearchLemma, ConstantsLemma
  <2>3. PICK i, v : /\ i \in Int /\ v \in Int /\ i = AfterComplement(r) /\ v = i + 1
                    /\ 0 <= v /\ v < WordSize
    BY <2>2, ConstantsLemma DEF Addresses
  <2>4. (location + v) % Size = Past(r)
    BY <2>1, <2>3, AfterComplementLemma
  <2>5. ASSUME NEW c \in PartialCpus, Done([c EXCEPT !.ip = i])
        PROVE  ReferencedLocation' = Past(r)
    <3>1. [c EXCEPT !.ip = i] \in PartialCpus /\ v = [c EXCEPT !.ip = i].ip + 1
      BY <2>3, PointerLemma
    <3> QED BY <1>1, <2>3, <2>4, <2>5, <3>1, LandsLemma
  <2>6. Jump(r) => ReferencedLocation' = Past(r)
    BY <2>1, <2>2, <2>3, <2>5 DEF Jump
  <2>7. Call(r) => ReferencedLocation' = Past(r)
    <3> SUFFICES ASSUME Call(r) PROVE ReferencedLocation' = Past(r)
      OBVIOUS
    <3>1. ReturnOffset(r.length) \in Int
      BY <2>1, <2>2, CallLemma, ConstantsLemma
    <3>2. Push(Start, ReturnOffset(r.length)) \in PartialCpus
      BY <2>1, <3>1, PushedLemma
    <3>3. Done([Push(Start, ReturnOffset(r.length)) EXCEPT !.ip = i])
      BY <2>2, <2>3 DEF Call
    <3> QED BY <2>5, <3>2, <3>3
  <2>8. AddressFromOffset(FoundOffset(r)) = Past(r)
    <3>1. PICK a \in Int : a = r.location + r.length
      BY <2>2
    <3>2. PICK o \in Addresses : o = OffsetFromAddress(a) /\ o = FoundOffset(r)
      BY <2>1, <3>1, OffsetLemma DEF FoundOffset
    <3>3. AddressFromOffset(o) = (location + o) % Size
      <4>1. o \in Int /\ 0 <= location + o + Size /\ location + o + Size < WordSize
        BY <2>1, ConstantsLemma DEF Addresses
      <4> QED BY <2>1, <4>1, AddressLemma
    <3>4. (location + (o + 0)) % Size = (a + 0) % Size
      <4>1. (location + (OffsetFromAddress(a) + 0)) % Size = (a + 0) % Size
        BY <2>1, BackLemma
      <4> QED BY <3>2, <4>1
    <3>5. o + 0 = o /\ a + 0 = a
      BY ConstantsLemma DEF Addresses
    <3> QED BY <3>1, <3>2, <3>3, <3>4, <3>5
  <2> QED BY <2>6, <2>7, <2>8
<1>2. IInv /\ [Next]_vars
        => [\A r \in Found :
              LET past == (r.location + r.length) % Size
              IN  /\ Jump(r) => ReferencedLocation' = past
                  /\ Call(r) => ReferencedLocation' = past
                  /\ Address(r) => AddressFromOffset(FoundOffset(r)) = past]_vars
  BY <1>1
<1> QED BY <1>2, IInvLemma, PTL DEF Spec, SearchesLeadPastComplement

\* A remainder by a multiple of the divisor.
LEMMA RemainderByMultiple ==
  ASSUME NEW n \in Nat \ {0}, NEW w \in Nat \ {0}, w % n = 0, NEW a \in Int
  PROVE  (a % w) % n = a % n
<1>1. PICK k \in Int : w = n * k
  <2>1. w \div n \in Int /\ w = (n * (w \div n)) + (w % n)
    BY Z3
  <2> QED BY <2>1
<1>2. PICK p \in Int, r \in Int : r = a % w /\ a = (w * p) + r
  <2>1. a \div w \in Int /\ a % w \in Int /\ a = (w * (a \div w)) + (a % w)
    BY Z3
  <2> QED BY <2>1
<1>3. PICK q \in Int, s \in 0 .. n - 1 : s = r % n /\ r = (n * q) + s
  <2>1. r \div n \in Int /\ r % n \in 0 .. n - 1 /\ r = (n * (r \div n)) + (r % n)
    BY Z3
  <2> QED BY <2>1
<1>4. PICK m \in Int : m = (k * p) + q
  BY Z3
<1>5. a = (n * m) + s
  <2>1. a = ((n * k) * p) + ((n * q) + s)
    BY <1>1, <1>2, <1>3
  <2>2. ((n * k) * p) + ((n * q) + s) = (n * ((k * p) + q)) + s
    BY Z3
  <2> QED BY <1>4, <2>1, <2>2
<1>6. a % n = s
  BY <1>5, RemainderUnique
<1> QED BY <1>2, <1>3, <1>6

\* A return to an offset that is not negative, or in a soup whose size divides the
\* word, leads where the offset does.
THEOREM AlwaysReturnsToOffset == Spec => ReturnsToOffset
<1>1. ASSUME IInv, Return, Top(cpu) >= 0 \/ WordSize % Size = 0
      PROVE  ReferencedLocation' = AddressFromOffset(Top(cpu))
  <2>1. PICK l \in Addresses, s \in Places, v \in Int :
          /\ l = location /\ l \in Int /\ s = Below(cpu.sp, 1) /\ v = Top(cpu) /\ v = cpu.stack[s]
    <3>1. location \in Addresses /\ cpu \in CpuRecords /\ location \in Int
      BY <1>1, ConstantsLemma DEF IInv, Addresses
    <3>2. /\ Below(cpu.sp, 1) \in Places
          /\ Top(cpu) = cpu.stack[Below(cpu.sp, 1)]
          /\ cpu.stack[Below(cpu.sp, 1)] \in Int
      BY <3>1, BelowLemma, ConstantsLemma DEF CpuRecords, Top, Below
    <3> QED BY <3>1, <3>2
  <2>2. CASE v >= 0
    <3>1. 2 * v < WordSize
      BY <1>1, <2>1 DEF IInv, BoundedStack
    <3>2. v < WordSize /\ 0 <= l + v + Size /\ l + v + Size < WordSize
      BY <2>1, <2>2, <3>1, ConstantsLemma DEF Addresses
    <3>3. ReferencedLocation' = (location + v) % Size
      BY <1>1, <2>1, <2>2, <3>2, ReturnLemma
    <3>4. AddressFromOffset(v) = (location + v) % Size
      BY <2>1, <3>2, AddressLemma
    <3> QED BY <2>1, <3>3, <3>4
  <2>3. CASE WordSize % Size = 0
    <3>1. \A a \in Int : (a % WordSize) % Size = a % Size
      BY <2>3, RemainderByMultiple, ConstantsLemma
    <3>2. \A a \in Int : (a + Size) % Size = a % Size
      BY TurnLemma, ConstantsLemma
    <3>3. PICK w \in Int : w = l + v
      BY <2>1
    <3>4. AddressFromOffset(v) = w % Size
      <4>1. l + v + Size = w + Size /\ w + Size \in Int
        BY <2>1, <3>3, ConstantsLemma
      <4> QED BY <2>1, <3>1, <3>2, <4>1 DEF AddressFromOffset
    <3>5. /\ cpu' \in CpuRecords /\ location' = location
          /\ cpu'.ip = (v % WordSize) % Size
      <4>1. /\ Start \in PartialCpus /\ Start.stack = cpu.stack /\ Start.sp = cpu.sp
        BY <1>1, StartLemma DEF IInv
      <4>2. Top(Start) = v
        BY <2>1, <4>1 DEF Top
      <4>3. PICK i \in Int : i = v - 1 /\ v = i + 1
        OBVIOUS
      <4>4. /\ [Popped(Start) EXCEPT !.ip = i] \in PartialCpus
            /\ [Popped(Start) EXCEPT !.ip = i].ip = i
        BY <4>1, PoppedLemma, PointerLemma
      <4>5. Done([Popped(Start) EXCEPT !.ip = i])
        BY <1>1, <4>2, <4>3 DEF Return
      <4> QED BY <4>3, <4>4, <4>5, DoneLemma
    <3>6. PICK o \in Int : o = cpu'.ip /\ o = v % Size
      <4>1. (v % WordSize) % Size = v % Size
        BY <3>1
      <4>2. v % Size \in Int
        BY ConstantsLemma
      <4> QED BY <3>5, <4>1, <4>2
    <3>7. ReferencedLocation' = (l + o) % Size
      <4>1. PICK b \in Int : b = l + o /\ b + Size = l + o + Size /\ b + Size \in Int
        BY <2>1, ConstantsLemma
      <4>2. ((b + Size) % WordSize) % Size = b % Size
        BY <3>1, <3>2, <4>1
      <4> QED BY <2>1, <3>5, <3>6, <4>1, <4>2 DEF ReferencedLocation, AddressFromOffset
    <3>8. (l + o) % Size = w % Size
      <4>1. ((v % Size) + l) % Size = (v + l) % Size
        BY <2>1, RemainderOfSum, ConstantsLemma
      <4>2. o + l = l + o /\ v + l = w
        BY <2>1, <3>3
      <4> QED BY <3>6, <4>1, <4>2
    <3> QED BY <2>1, <3>4, <3>7, <3>8
  <2> QED BY <1>1, <2>1, <2>2, <2>3
<1>2. IInv /\ [Next]_vars
        => [Return /\ (Top(cpu) >= 0 \/ WordSize % Size = 0)
              => ReferencedLocation' = AddressFromOffset(Top(cpu))]_vars
  BY <1>1
<1> QED BY <1>2, IInvLemma, PTL DEF Spec, ReturnsToOffset
=============================================================================
