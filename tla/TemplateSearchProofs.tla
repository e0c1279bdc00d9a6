------------------------- MODULE TemplateSearchProofs -------------------------
(***************************************************************************)
(* The three template searches find the nearest complement, for a soup of  *)
(* any size, templates of any length and any limit of the distance.        *)
(***************************************************************************)
EXTENDS TemplateSearch, SequenceTheorems, FiniteSetTheorems, WellFoundedInduction, TLAPS

-----------------------------------------------------------------------------
(* Least elements.                                                         *)

\* Min is what is not greater than any other.
LEMMA MinIs ==
  ASSUME NEW S, S \subseteq Int, NEW m \in S, \A y \in S : m <= y
  PROVE  Min(S) = m
<1>1. \A x \in S : (\A y \in S : x <= y) => x = m
  <2> SUFFICES ASSUME NEW x \in S, \A y \in S : x <= y PROVE x = m
    OBVIOUS
  <2>1. x \in Int /\ m \in Int /\ x <= m /\ m <= x
    OBVIOUS
  <2> QED BY <2>1
<1> QED BY <1>1, Zenon DEF Min

\* Every set of naturals has a least element, if any.
LEMMA MinOfNaturals ==
  ASSUME NEW S, S \subseteq Nat, S # {}
  PROVE  Min(S) \in S /\ \A y \in S : Min(S) <= y
<1> DEFINE R == OpToRel(<, Nat)
<1>1. IsWellFoundedOn(R, Nat)
  BY NatLessThanWellFounded, Zenon
<1>2. \A m, n \in Nat : <<m, n>> \in R <=> m < n
  BY DEF OpToRel
<1> HIDE DEF R
<1>3. PICK n \in S : \A m \in S : ~ (<<m, n>> \in R)
  BY <1>1, WFMin
<1>4. \A m \in S : n <= m
  <2> SUFFICES ASSUME NEW m \in S PROVE n <= m
    OBVIOUS
  <2>1. m \in Nat /\ n \in Nat /\ ~ (m < n)
    BY <1>2, <1>3
  <2> QED BY <2>1
<1>5. S \subseteq Int
  OBVIOUS
<1>6. Min(S) = n
  BY <1>4, <1>5, MinIs
<1> QED BY <1>4, <1>6

-----------------------------------------------------------------------------
(* Addresses around the soup.                                              *)

\* The remainder of what is less than three times the size.
Around(n, x) == IF x < n THEN x ELSE IF x < n + n THEN x - n ELSE x - (n + n)

LEMMA AroundLemma ==
  ASSUME NEW n \in Nat \ {0}, NEW x \in 0 .. n + n + n - 1
  PROVE  x % n = Around(n, x) /\ x % n \in 0 .. n - 1
<1>1. PICK q \in Int, r \in 0 .. n - 1 : x = (n * q) + r /\ r = x % n
  <2>1. x \div n \in Int /\ x % n \in 0 .. n - 1 /\ x = (n * (x \div n)) + (x % n)
    BY Z3
  <2> QED BY <2>1
<1>2. q >= 0 /\ q <= 2
  <2>1. CASE q >= 3
    <3>1. n * q >= 3 * n
      BY <2>1, Z3
    <3> QED BY <1>1, <3>1
  <2>2. CASE q <= -1
    <3>1. n * q <= -n
      BY <2>2, Z3
    <3> QED BY <1>1, <3>1
  <2> QED BY <2>1, <2>2
<1>3. CASE q = 0
  <2>1. n * q = 0
    BY <1>3, Z3
  <2> QED BY <1>1, <2>1 DEF Around
<1>4. CASE q = 1
  <2>1. n * q = n
    BY <1>4, Z3
  <2> QED BY <1>1, <2>1 DEF Around
<1>5. CASE q = 2
  <2>1. n * q = n + n
    BY <1>5, Z3
  <2> QED BY <1>1, <2>1 DEF Around
<1> QED BY <1>2, <1>3, <1>4, <1>5

\* The soup is a circle of Size instructions.
SoupOK == Size \in Nat \ {0} /\ soup \in [0 .. Size - 1 -> Nops \cup {Other}]

\* Templates are not empty, and shorter than the soup.
Templates == {t \in Seq(Nops) : Len(t) \in 1 .. Size - 1}

\* Address Size is address 0.
LEMMA AddressLemma ==
  ASSUME SoupOK, NEW a \in 0 .. Size
  PROVE  a % Size = (IF a = Size THEN 0 ELSE a) /\ a % Size \in 0 .. Size - 1
<1>1. Size \in Nat \ {0}
  BY DEF SoupOK
<1>2. a \in 0 .. Size + Size + Size - 1
  BY <1>1
<1>3. a % Size = Around(Size, a) /\ a % Size \in 0 .. Size - 1
  BY <1>1, <1>2, AroundLemma
<1> QED BY <1>1, <1>3 DEF Around

\* Matching goes around the soup from any address, and where it does not, the
\* faster comparison is the same.
LEMMA MatchLemma ==
  ASSUME SoupOK, NEW t \in Templates, NEW a \in 0 .. Size
  PROVE  /\ a % Size \in 0 .. Size - 1
         /\ MatchesAt(a, t) <=> MatchesAt(a % Size, t)
         /\ a + Len(t) <= Size => /\ a % Size = a
                                  /\ MatchesNonWrapping(a, t) <=> MatchesAt(a, t)
<1>1. Size \in Nat \ {0} /\ Len(t) \in Int /\ 1 <= Len(t) /\ Len(t) <= Size - 1
  BY DEF SoupOK, Templates
<1>2. a % Size = (IF a = Size THEN 0 ELSE a) /\ a % Size \in 0 .. Size - 1
  BY AddressLemma
<1>3. ASSUME NEW i \in 1 .. Len(t)
      PROVE  /\ (a + i - 1) % Size = ((a % Size) + i - 1) % Size
             /\ a + Len(t) <= Size => (a + i - 1) % Size = a + i - 1
  <2>1. PICK x \in 0 .. Size + Size + Size - 1 : x = a + i - 1
    BY <1>1
  <2>2. PICK y \in 0 .. Size + Size + Size - 1 : y = (a % Size) + i - 1
    BY <1>1, <1>2
  <2>3. x % Size = Around(Size, x) /\ y % Size = Around(Size, y)
    BY <1>1, AroundLemma
  <2>4. Around(Size, x) = Around(Size, y)
    <3>1. CASE a = Size
      <4>1. y = i - 1 /\ x = Size + y
        BY <1>1, <1>2, <2>1, <2>2, <3>1
      <4> QED BY <1>1, <4>1 DEF Around
    <3>2. CASE a # Size
      <4>1. x = y
        BY <1>2, <2>1, <2>2, <3>2
      <4> QED BY <4>1
    <3> QED BY <3>1, <3>2
  <2>5. a + Len(t) <= Size => Around(Size, x) = x
    BY <1>1, <2>1 DEF Around
  <2> QED BY <2>1, <2>2, <2>3, <2>4, <2>5
<1>4. MatchesAt(a, t) <=> MatchesAt(a % Size, t)
  BY <1>3 DEF MatchesAt
<1>5. a + Len(t) <= Size => a % Size = a
  BY <1>1, <1>2
<1>6. a + Len(t) <= Size => (MatchesNonWrapping(a, t) <=> MatchesAt(a, t))
  BY <1>3 DEF MatchesAt, MatchesNonWrapping
<1> QED BY <1>2, <1>4, <1>5, <1>6

\* No search goes all the way around.
LEMMA ReachLemma ==
  ASSUME SoupOK
  PROVE  /\ Reach \in Nat /\ Reach <= Size - 1
         /\ MaxSearchDist >= Size => Reach = Size - 1
<1>1. Size \in Nat \ {0} /\ MaxSearchDist \in Nat
  BY SearchAssumption DEF SoupOK
<1>2. Reach = IF Size - 1 <= MaxSearchDist THEN Size - 1 ELSE MaxSearchDist
  <2>1. CASE Size - 1 <= MaxSearchDist
    BY <1>1, <2>1, MinIs DEF Reach
  <2>2. CASE ~ (Size - 1 <= MaxSearchDist)
    BY <1>1, <2>2, MinIs DEF Reach
  <2> QED BY <2>1, <2>2
<1> QED BY <1>1, <1>2

-----------------------------------------------------------------------------
(* What every step preserves.                                              *)

Calls ==
  [pc : {"running", "found", "failed"}, template : Templates, direction : Directions,
   start : 1 .. Size, phase : 1 .. 4, offset : 0 .. Reach, address : 0 .. Size]

\* The addresses k bytes from the template, and those of them that are looked at.
Fore(s, k) == (s.start + k) % Size
Back(s, k) == (s.start + Size - k) % Size
Looked(s, k) == CASE s.direction = "forwards"  -> {Fore(s, k)}
                  [] s.direction = "backwards" -> {Back(s, k)}
                  [] s.direction = "both"      -> {Fore(s, k), Back(s, k)}

\* The instruction that searches stands before its template, and behind a template
\* that is not cut short stands something else than a no-op.
ArgsOK(s) ==
  /\ s \in Calls
  /\ Len(s.template) <= MaxTemplateLength + 1
  /\ soup[s.start - 1] = Other
  /\ Len(s.template) <= MaxTemplateLength =>
       soup[(s.start + Len(s.template)) % Size] \notin Nops

\* There is no complement nearer than the present offset.
Missed(s) == \A k \in 0 .. s.offset - 1 :
               \A a \in Looked(s, k) : ~MatchesAt(a, s.template)

\* Three loops forwards look at the address at the offset.  The fourth does whatever
\* its address is, which must not let it end early.
ForwardOK(s) ==
  IF s.phase = 4 THEN s.offset = Reach \/ ~FitsBeforeEnd(s)
                 ELSE s.address % Size = Fore(s, s.offset)

\* Backwards, the end of the soup is met at most once, in the first loop or, if the
\* template does not fit behind its start, in the third; no loop is left early.
Ahead(s) == s.address = s.start - s.offset
WentAround(s) == s.address = s.start + Size - s.offset
StartsAtEnd(s) == s.start + Len(s.template) > Size

BackwardOK(s) ==
  /\ Ahead(s) \/ WentAround(s)
  /\ s.offset < Reach =>
       /\ s.phase = 1 => Ahead(s)
       /\ s.phase = 2 /\ Ahead(s) => StartsAtEnd(s)
       /\ s.phase = 3 => FitsBeforeEnd(s) /\ (Ahead(s) => StartsAtEnd(s))
       /\ s.phase = 4 => WentAround(s) /\ StartsAtEnd(s)

\* The place found is at the offset, and forwards if it can be.
FoundOK(s) ==
  /\ s.offset < Reach
  /\ s.address % Size \in Looked(s, s.offset)
  /\ MatchesAt(s.address % Size, s.template)
  /\ \/ s.address % Size = Fore(s, s.offset)
     \/ s.direction = "backwards"
     \/ ~MatchesAt(Fore(s, s.offset), s.template)

CallOK(s) ==
  /\ ArgsOK(s)
  /\ Missed(s)
  /\ s.pc = "running" => /\ s.direction = "forwards" => ForwardOK(s)
                         /\ s.direction = "backwards" => BackwardOK(s)
  /\ s.pc = "found" => FoundOK(s)
  /\ s.pc = "failed" => s.offset = Reach

RefusedOK(s) == s = [pc |-> "failed", template |-> <<>>]

SearchOK(s) == s = Idle \/ RefusedOK(s) \/ CallOK(s)

IInv == SoupOK /\ SearchOK(search)

-----------------------------------------------------------------------------
(* One pass of a loop.                                                     *)

\* What a call that runs has of numbers.
LEMMA CallLemma ==
  ASSUME SoupOK, NEW s, ArgsOK(s)
  PROVE  /\ Size \in Nat /\ Size > 0 /\ Reach \in Nat /\ Reach <= Size - 1
         /\ s.template \in Templates /\ Len(s.template) \in Int
         /\ 1 <= Len(s.template) /\ Len(s.template) <= Size - 1
         /\ s.start \in 1 .. Size /\ s.start \in Int /\ 1 <= s.start /\ s.start <= Size
         /\ s.offset \in Int /\ 0 <= s.offset /\ s.offset <= Reach
         /\ s.address \in 0 .. Size /\ s.address \in Int /\ 0 <= s.address /\ s.address <= Size
         /\ s.phase \in 1 .. 4 /\ s.direction \in Directions /\ s \in Calls
         /\ OddPhase(s) <=> s.phase \in {1, 3}
         /\ FitsBeforeEnd(s) <=> s.address + Len(s.template) <= Size
<1>1. s \in Calls
  BY DEF ArgsOK
<1>2. \A p \in 1 .. 4 : p % 2 = 1 <=> p \in {1, 3}
  OBVIOUS
<1>3. s.template \in Templates /\ s.phase \in 1 .. 4 /\ s.direction \in Directions
  BY <1>1 DEF Calls
<1>4. OddPhase(s) <=> s.phase \in {1, 3}
  BY <1>2, <1>3 DEF OddPhase
<1>5. /\ s.start \in 1 .. Size /\ s.offset \in 0 .. Reach /\ s.address \in 0 .. Size
      /\ Len(s.template) \in 1 .. Size - 1
  BY <1>1, <1>3 DEF Calls, Templates
<1>6. Size \in Nat /\ Size > 0 /\ Reach \in Nat /\ Reach <= Size - 1
  BY ReachLemma DEF SoupOK
<1> QED BY <1>1, <1>3, <1>4, <1>5, <1>6 DEF FitsBeforeEnd

\* Addresses at an offset.
LEMMA OffsetLemma ==
  ASSUME SoupOK, NEW s, s.start \in 1 .. Size, NEW k \in 0 .. Size - 1
  PROVE  /\ Fore(s, k) = IF s.start + k < Size THEN s.start + k ELSE s.start + k - Size
         /\ Back(s, k) = IF s.start - k < 0 THEN s.start - k + Size
                         ELSE IF s.start - k < Size THEN s.start - k ELSE 0
         /\ Fore(s, k) \in 0 .. Size - 1 /\ Back(s, k) \in 0 .. Size - 1
<1>1. Size \in Nat \ {0}
  BY DEF SoupOK
<1>2. PICK start \in 1 .. Size : start = s.start
  OBVIOUS
<1>3. PICK x \in 0 .. Size + Size + Size - 1 : x = start + k
  BY <1>1
<1>4. PICK y \in 0 .. Size + Size + Size - 1 : y = start + Size - k
  BY <1>1
<1>5. x % Size = Around(Size, x) /\ y % Size = Around(Size, y)
  BY <1>1, AroundLemma
<1>6. Fore(s, k) = Around(Size, x) /\ Back(s, k) = Around(Size, y)
  BY <1>2, <1>3, <1>4, <1>5 DEF Fore, Back
<1>7. Around(Size, x) = IF start + k < Size THEN start + k ELSE start + k - Size
  BY <1>1, <1>3 DEF Around
<1>8. Around(Size, y) = IF start - k < 0 THEN start - k + Size
                        ELSE IF start - k < Size THEN start - k ELSE 0
  BY <1>1, <1>4 DEF Around
<1>9. Around(Size, x) \in 0 .. Size - 1 /\ Around(Size, y) \in 0 .. Size - 1
  BY <1>1, <1>7, <1>8
<1> QED BY <1>2, <1>6, <1>7, <1>8, <1>9

\* The next ones.
LEMMA NextLookLemma ==
  ASSUME SoupOK, NEW s, s.start \in 1 .. Size, NEW k \in 0 .. Size - 2
  PROVE  Fore(s, k + 1) = IF Fore(s, k) + 1 = Size THEN 0 ELSE Fore(s, k) + 1
<1>1. Size \in Nat \ {0} /\ k \in 0 .. Size - 1 /\ k + 1 \in 0 .. Size - 1
  BY DEF SoupOK
<1>2. PICK x \in 1 .. Size : x = s.start
  OBVIOUS
<1>3. /\ Fore(s, k) = IF x + k < Size THEN x + k ELSE x + k - Size
      /\ Fore(s, k + 1) = IF x + (k + 1) < Size THEN x + (k + 1) ELSE x + (k + 1) - Size
  BY <1>1, <1>2, OffsetLemma
<1> QED BY <1>1, <1>3

\* A later state of the same call, and one that has missed one more offset.
LEMMA SameCallLemma ==
  ASSUME NEW s, NEW t, ArgsOK(s), Missed(s), t \in Calls,
         t.template = s.template, t.direction = s.direction, t.start = s.start
  PROVE  /\ ArgsOK(t)
         /\ \A k : Fore(t, k) = Fore(s, k) /\ Back(t, k) = Back(s, k) /\ Looked(t, k) = Looked(s, k)
         /\ t.offset = s.offset => Missed(t)
         /\ /\ t.offset = s.offset + 1 /\ s.offset \in Nat
            /\ \A a \in Looked(s, s.offset) : ~MatchesAt(a, s.template)
            => Missed(t)
<1>1. ArgsOK(t)
  BY DEF ArgsOK
<1>2. \A k : Fore(t, k) = Fore(s, k) /\ Back(t, k) = Back(s, k) /\ Looked(t, k) = Looked(s, k)
  BY DEF Fore, Back, Looked
<1>3. t.offset = s.offset => Missed(t)
  BY <1>2 DEF Missed
<1>4. ASSUME t.offset = s.offset + 1, s.offset \in Nat,
             \A a \in Looked(s, s.offset) : ~MatchesAt(a, s.template)
      PROVE  Missed(t)
  <2> SUFFICES ASSUME NEW k \in 0 .. t.offset - 1, NEW a \in Looked(s, k)
               PROVE  ~MatchesAt(a, s.template)
    BY <1>2 DEF Missed
  <2>1. k = s.offset \/ k \in 0 .. s.offset - 1
    BY <1>4
  <2> QED BY <1>4, <2>1 DEF Missed
<1> QED BY <1>1, <1>2, <1>3, <1>4

\* What a pass makes of a call.
LEMMA FailedLemma ==
  ASSUME SoupOK, NEW s, ArgsOK(s), Missed(s), s.offset = Reach
  PROVE  CallOK(Failed(s))
<1> DEFINE t == Failed(s)
<1>1. s \in Calls
  BY DEF ArgsOK
<1>2. t \in Calls
  BY <1>1 DEF Calls, Failed
<1>3. /\ t.pc = "failed" /\ t.template = s.template /\ t.direction = s.direction
      /\ t.start = s.start /\ t.offset = s.offset
  BY <1>1 DEF Calls, Failed
<1> HIDE DEF t
<1>4. ArgsOK(t) /\ Missed(t)
  BY <1>2, <1>3, SameCallLemma
<1>5. CallOK(t)
  BY <1>3, <1>4 DEF CallOK
<1> QED BY <1>5 DEF t

LEMMA FoundLemma ==
  ASSUME SoupOK, NEW s, ArgsOK(s), Missed(s), s.offset < Reach, NEW a \in 0 .. Size,
         a % Size \in Looked(s, s.offset), MatchesAt(a % Size, s.template),
         \/ a % Size = Fore(s, s.offset)
         \/ s.direction = "backwards"
         \/ ~MatchesAt(Fore(s, s.offset), s.template)
  PROVE  CallOK(Found(s, a))
<1> DEFINE t == Found(s, a)
<1>1. s \in Calls
  BY DEF ArgsOK
<1>2. t \in Calls
  BY <1>1 DEF Calls, Found
<1>3. /\ t.pc = "found" /\ t.template = s.template /\ t.direction = s.direction
      /\ t.start = s.start /\ t.offset = s.offset /\ t.address = a
  BY <1>1 DEF Calls, Found
<1> HIDE DEF t
<1>4. /\ ArgsOK(t) /\ Missed(t)
      /\ \A k : Fore(t, k) = Fore(s, k) /\ Looked(t, k) = Looked(s, k)
  BY <1>2, <1>3, SameCallLemma
<1>5. FoundOK(t)
  BY <1>3, <1>4 DEF FoundOK
<1>6. CallOK(t)
  BY <1>3, <1>4, <1>5 DEF CallOK
<1> QED BY <1>6 DEF t

LEMMA NextPhaseLemma ==
  ASSUME SoupOK, NEW s, ArgsOK(s), Missed(s), s.pc = "running", s.phase # 4
  PROVE  LET t == NextPhase(s)
         IN  /\ ArgsOK(t) /\ Missed(t)
             /\ t.pc = "running" /\ t.phase = s.phase + 1 /\ t.offset = s.offset
             /\ t.address = s.address /\ t.template = s.template
             /\ t.direction = s.direction /\ t.start = s.start
<1> DEFINE t == NextPhase(s)
<1>1. s \in Calls /\ s.phase \in 1 .. 4
  BY CallLemma
<1>2. t = [s EXCEPT !.phase = s.phase + 1]
  BY DEF NextPhase
<1>3. t \in Calls
  BY <1>1, <1>2 DEF Calls
<1>4. /\ t.pc = "running" /\ t.phase = s.phase + 1 /\ t.offset = s.offset
      /\ t.address = s.address /\ t.template = s.template
      /\ t.direction = s.direction /\ t.start = s.start
  BY <1>1, <1>2 DEF Calls
<1> HIDE DEF t
<1>5. ArgsOK(t) /\ Missed(t)
  BY <1>3, <1>4, SameCallLemma
<1> QED BY <1>4, <1>5 DEF t

\* The call that goes on to the next offset.
GoOn(s, address, phase) ==
  [s EXCEPT !.offset = s.offset + 1, !.address = address, !.phase = phase]

LEMMA GoOnLemma ==
  ASSUME SoupOK, NEW s, ArgsOK(s), Missed(s), s.pc = "running", s.offset < Reach,
         \A a \in Looked(s, s.offset) : ~MatchesAt(a, s.template),
         NEW address \in 0 .. Size, NEW phase \in 1 .. 4
  PROVE  LET t == GoOn(s, address, phase)
         IN  /\ ArgsOK(t) /\ Missed(t)
             /\ t.pc = "running" /\ t.phase = phase /\ t.offset = s.offset + 1
             /\ t.address = address /\ t.template = s.template
             /\ t.direction = s.direction /\ t.start = s.start
<1> DEFINE t == GoOn(s, address, phase)
<1>1. /\ s \in Calls /\ Reach \in Nat
      /\ s.offset \in Int /\ 0 <= s.offset /\ s.offset <= Reach
  BY CallLemma
<1>2. s.offset + 1 \in 0 .. Reach /\ s.offset \in Nat
  BY <1>1
<1>3. t \in Calls
  BY <1>1, <1>2 DEF Calls, GoOn
<1>4. /\ t.pc = "running" /\ t.phase = phase /\ t.offset = s.offset + 1
      /\ t.address = address /\ t.template = s.template
      /\ t.direction = s.direction /\ t.start = s.start
  BY <1>1 DEF Calls, GoOn
<1> HIDE DEF t
<1>5. ArgsOK(t) /\ Missed(t)
  BY <1>2, <1>3, <1>4, SameCallLemma
<1> QED BY <1>4, <1>5 DEF t

\* What is looked at in each direction.
LEMMA LookLemma ==
  ASSUME SoupOK, NEW s, ArgsOK(s)
  PROVE  /\ s.direction = "forwards" => Looked(s, s.offset) = {Fore(s, s.offset)}
         /\ s.direction = "backwards" => Looked(s, s.offset) = {Back(s, s.offset)}
         /\ s.direction = "both" => Looked(s, s.offset) = {Fore(s, s.offset), Back(s, s.offset)}
BY DEF Looked

\* Forwards.
LEMMA ForwardLemma ==
  ASSUME SoupOK, NEW s, ArgsOK(s), Missed(s), s.pc = "running",
         s.direction = "forwards", ForwardOK(s)
  PROVE  CallOK(ForwardPass(s))
<1>0. /\ Size \in Nat /\ Size > 0 /\ Reach \in Nat /\ Reach <= Size - 1
      /\ s.template \in Templates /\ Len(s.template) \in Int
      /\ 1 <= Len(s.template) /\ Len(s.template) <= Size - 1
      /\ s.start \in 1 .. Size /\ s.start \in Int
      /\ s.offset \in Int /\ 0 <= s.offset /\ s.offset <= Reach
      /\ s.address \in 0 .. Size /\ s.address \in Int /\ 0 <= s.address /\ s.address <= Size
      /\ s.phase \in 1 .. 4 /\ s \in Calls
      /\ OddPhase(s) <=> s.phase \in {1, 3}
      /\ FitsBeforeEnd(s) <=> s.address + Len(s.template) <= Size
  BY CallLemma
<1> USE <1>0
<1> DEFINE a == ForwardAddress(s)
           matches == IF OddPhase(s) THEN MatchesNonWrapping(a, s.template)
                                     ELSE MatchesAt(a, s.template)
<1>1. CASE ~Looping(s) /\ s.phase = 4
  <2>1. ~OddPhase(s)
    BY <1>1
  <2>2. s.offset = Reach
    BY <1>1, <2>1 DEF ForwardOK, Looping
  <2>3. ForwardPass(s) = Failed(s)
    BY <1>1 DEF ForwardPass, NextPhase
  <2> QED BY <2>2, <2>3, FailedLemma
<1>2. CASE ~Looping(s) /\ s.phase # 4
  <2> DEFINE t == NextPhase(s)
  <2>1. ForwardPass(s) = t
    BY <1>2 DEF ForwardPass
  <2>2. /\ ArgsOK(t) /\ Missed(t)
        /\ t.pc = "running" /\ t.phase = s.phase + 1 /\ t.offset = s.offset
        /\ t.address = s.address /\ t.template = s.template
        /\ t.direction = s.direction /\ t.start = s.start
    BY <1>2, NextPhaseLemma
  <2> HIDE DEF t
  <2>3. ForwardOK(t)
    <3>1. CASE s.phase = 3
      <4>1. OddPhase(s) /\ t.phase = 4
        BY <2>2, <3>1
      <4>2. s.offset = Reach \/ ~FitsBeforeEnd(s)
        BY <1>2, <4>1 DEF Looping
      <4>3. FitsBeforeEnd(t) <=> FitsBeforeEnd(s)
        BY <2>2 DEF FitsBeforeEnd
      <4> QED BY <2>2, <4>1, <4>2, <4>3 DEF ForwardOK
    <3>2. CASE s.phase # 3
      <4>1. t.phase # 4
        BY <2>2, <3>2
      <4>2. s.address % Size = Fore(s, s.offset)
        BY <1>2 DEF ForwardOK
      <4>3. Fore(t, t.offset) = Fore(s, s.offset)
        BY <2>2, Zenon DEF Fore
      <4> QED BY <2>2, <4>1, <4>2, <4>3 DEF ForwardOK
    <3> QED BY <3>1, <3>2
  <2> QED BY <2>1, <2>2, <2>3 DEF CallOK
<1>3. ASSUME Looping(s)
      PROVE  /\ s.offset < Reach
             /\ FitsBeforeEnd(s) <=> OddPhase(s)
             /\ a \in 0 .. Size /\ a % Size = Fore(s, s.offset)
             /\ matches <=> MatchesAt(a % Size, s.template)
  <2>1. s.offset < Reach /\ (FitsBeforeEnd(s) <=> OddPhase(s))
    BY <1>3 DEF Looping
  <2>2. a \in 0 .. Size /\ a % Size = Fore(s, s.offset)
    <3>1. CASE s.phase = 4
      <4>1. s.offset \in 0 .. Size - 1
        BY <2>1
      <4>4. Fore(s, s.offset) \in 0 .. Size - 1
        BY <4>1, OffsetLemma
      <4>2. a = Fore(s, s.offset)
        BY <3>1, Zenon DEF ForwardAddress, Fore
      <4> HIDE DEF a
      <4>3. a \in 0 .. Size /\ a # Size
        BY <4>4, <4>2
      <4> QED BY <4>2, <4>3, AddressLemma
    <3>2. CASE s.phase # 4
      BY <3>2 DEF ForwardAddress, ForwardOK
    <3> QED BY <3>1, <3>2
  <2>3. MatchesAt(a, s.template) <=> MatchesAt(a % Size, s.template)
    BY <2>2, MatchLemma
  <2>4. ASSUME OddPhase(s)
        PROVE  MatchesNonWrapping(a, s.template) <=> MatchesAt(a, s.template)
    <3>1. a + Len(s.template) <= Size
      BY <2>1, <2>4 DEF ForwardAddress
    <3> QED BY <2>2, <3>1, MatchLemma
  <2> QED BY <2>1, <2>2, <2>3, <2>4
<1>4. CASE Looping(s) /\ matches
  <2>1. ForwardPass(s) = Found(s, a)
    BY <1>4, Zenon DEF ForwardPass
  <2>2. a % Size \in Looked(s, s.offset)
    BY <1>3, <1>4, LookLemma
  <2> HIDE DEF a, matches
  <2> QED BY <1>3, <1>4, <2>1, <2>2, FoundLemma
<1>5. CASE Looping(s) /\ ~matches
  <2> DEFINE b == NextForward(s)
             t == GoOn(s, b, s.phase)
  <2>1. ForwardPass(s) = [s EXCEPT !.offset = @ + 1, !.address = b]
    BY <1>5, Zenon DEF ForwardPass
  <2>2. ForwardPass(s) = t
    BY <2>1 DEF Calls, GoOn
  <2>3. /\ b \in 0 .. Size
        /\ s.phase = 4 => b = s.address
        /\ s.phase # 4 => b % Size = Fore(s, s.offset + 1)
    <3>1. CASE s.phase = 4
      <4>1. b = s.address
        BY <3>1 DEF NextForward
      <4> QED BY <3>1, <4>1
    <3>2. s.offset + 1 \in 0 .. Size - 1 /\ s.offset \in 0 .. Size - 1
      BY <1>3, <1>5
    <3>3. Fore(s, s.offset + 1) \in 0 .. Size - 1
      BY <3>2, OffsetLemma
    <3>4. CASE s.phase = 2
      <4>1. ~OddPhase(s)
        BY <3>4
      <4>2. b = (s.start + s.offset + 1) % Size
        BY <3>4, <4>1 DEF NextForward
      <4>3. s.start + s.offset + 1 = s.start + (s.offset + 1)
        OBVIOUS
      <4>4. b = Fore(s, s.offset + 1)
        BY <4>2, <4>3, Zenon DEF Fore
      <4> HIDE DEF b
      <4>5. b \in 0 .. Size /\ b # Size
        BY <3>3, <4>4
      <4> QED BY <3>4, <4>4, <4>5, AddressLemma
    <3>5. CASE s.phase \in {1, 3}
      <4>1. OddPhase(s)
        BY <3>5
      <4>2. b = s.address + 1
        BY <4>1 DEF NextForward
      <4>3. b \in 0 .. Size
        BY <1>3, <1>5, <4>1, <4>2
      <4>4. s.address % Size = Fore(s, s.offset)
        BY <3>5 DEF ForwardOK
      <4>5. s.address < Size
        BY <4>2, <4>3
      <4>6. s.address % Size = s.address
        <5>1. s.address \in 0 .. Size /\ s.address # Size
          BY <4>5
        <5> QED BY <5>1, AddressLemma
      <4> HIDE DEF b
      <4>7. b % Size = IF b = Size THEN 0 ELSE b
        BY <4>3, AddressLemma
      <4>8. Fore(s, s.offset + 1) = IF b = Size THEN 0 ELSE b
        <5>1. s.address = Fore(s, s.offset) /\ s.offset \in 0 .. Size - 2
          BY <3>2, <4>4, <4>6
        <5> QED BY <4>2, <5>1, NextLookLemma
      <4> QED BY <3>5, <4>3, <4>7, <4>8
    <3> QED BY <3>1, <3>4, <3>5
  <2>4. \A x \in Looked(s, s.offset) : ~MatchesAt(x, s.template)
    BY <1>3, <1>5, LookLemma
  <2>5. b \in 0 .. Size /\ s.offset < Reach /\ s.phase \in 1 .. 4
    BY <1>3, <1>5, <2>3
  <2> HIDE DEF b, a, matches
  <2>6. /\ ArgsOK(t) /\ Missed(t)
        /\ t.pc = "running" /\ t.phase = s.phase /\ t.offset = s.offset + 1
        /\ t.address = b /\ t.template = s.template
        /\ t.direction = s.direction /\ t.start = s.start
    <3> HIDE <1>0
    <3> QED BY <2>4, <2>5, GoOnLemma, Zenon
  <2> HIDE DEF t
  <2>7. ForwardOK(t)
    <3>1. CASE s.phase = 4
      <4>1. ~FitsBeforeEnd(s)
        <5>1. s.phase \notin {1, 3}
          BY <3>1
        <5> QED BY <1>3, <1>5, <5>1
      <4>2. ~FitsBeforeEnd(t)
        BY <2>3, <2>6, <3>1, <4>1 DEF FitsBeforeEnd
      <4> QED BY <2>6, <3>1, <4>2 DEF ForwardOK
    <3>2. CASE s.phase # 4
      <4>1. Fore(t, t.offset) = Fore(s, s.offset + 1)
        BY <2>6, Zenon DEF Fore
      <4> QED BY <2>3, <2>6, <3>2, <4>1 DEF ForwardOK
    <3> QED BY <3>1, <3>2
  <2> QED BY <2>2, <2>6, <2>7 DEF CallOK
<1> QED BY <1>1, <1>2, <1>4, <1>5

\* Backwards.
LEMMA StepBackLemma ==
  ASSUME NEW s \in Calls
  PROVE  StepBack([s EXCEPT !.offset = @ + 1]) =
           IF OddPhase(s) /\ s.address = 0 THEN GoOn(s, Size - 1, s.phase + 1)
                                           ELSE GoOn(s, s.address - 1, s.phase)
<1> DEFINE t == [s EXCEPT !.offset = @ + 1]
<1>1. t.phase = s.phase /\ t.address = s.address
  BY DEF Calls
<1>2. OddPhase(t) <=> OddPhase(s)
  BY <1>1 DEF OddPhase
<1>3. /\ [t EXCEPT !.address = Size - 1, !.phase = @ + 1] = GoOn(s, Size - 1, s.phase + 1)
      /\ [t EXCEPT !.address = @ - 1] = GoOn(s, s.address - 1, s.phase)
  BY DEF Calls, GoOn
<1> HIDE DEF t
<1>4. StepBack(t) = IF OddPhase(s) /\ s.address = 0 THEN GoOn(s, Size - 1, s.phase + 1)
                                                    ELSE GoOn(s, s.address - 1, s.phase)
  BY <1>1, <1>2, <1>3 DEF StepBack
<1> QED BY <1>4 DEF t

LEMMA BackwardLemma ==
  ASSUME SoupOK, NEW s, ArgsOK(s), Missed(s), s.pc = "running",
         s.direction = "backwards", BackwardOK(s)
  PROVE  CallOK(BackwardPass(s))
<1>0. /\ Size \in Nat /\ Size > 0 /\ Reach \in Nat /\ Reach <= Size - 1
      /\ s.template \in Templates /\ Len(s.template) \in Int
      /\ 1 <= Len(s.template) /\ Len(s.template) <= Size - 1
      /\ s.start \in 1 .. Size /\ s.start \in Int
      /\ s.offset \in Int /\ 0 <= s.offset /\ s.offset <= Reach
      /\ s.address \in 0 .. Size /\ s.address \in Int /\ 0 <= s.address /\ s.address <= Size
      /\ s.phase \in 1 .. 4 /\ s \in Calls
      /\ OddPhase(s) <=> s.phase \in {1, 3}
      /\ FitsBeforeEnd(s) <=> s.address + Len(s.template) <= Size
  BY CallLemma
<1> USE <1>0
<1> DEFINE matches == IF OddPhase(s) THEN MatchesNonWrapping(s.address, s.template)
                                     ELSE MatchesAt(s.address, s.template)
<1>1. CASE ~Looping(s) /\ s.phase = 4
  <2>1. ~OddPhase(s)
    BY <1>1
  <2>2. s.offset = Reach
    <3> SUFFICES ASSUME s.offset < Reach PROVE FALSE
      OBVIOUS
    <3>1. FitsBeforeEnd(s)
      BY <1>1, <2>1 DEF Looping
    <3>2. WentAround(s) /\ StartsAtEnd(s)
      BY <1>1 DEF BackwardOK
    <3> QED BY <3>1, <3>2 DEF WentAround, StartsAtEnd
  <2>3. BackwardPass(s) = Failed(s)
    BY <1>1 DEF BackwardPass, NextPhase
  <2> QED BY <2>2, <2>3, FailedLemma
<1>2. CASE ~Looping(s) /\ s.phase # 4
  <2> DEFINE t == NextPhase(s)
  <2>1. BackwardPass(s) = t
    BY <1>2 DEF BackwardPass
  <2>2. /\ ArgsOK(t) /\ Missed(t)
        /\ t.pc = "running" /\ t.phase = s.phase + 1 /\ t.offset = s.offset
        /\ t.address = s.address /\ t.template = s.template
        /\ t.direction = s.direction /\ t.start = s.start
    BY <1>2, NextPhaseLemma
  <2> HIDE DEF t
  <2>3. /\ Ahead(t) <=> Ahead(s)
        /\ WentAround(t) <=> WentAround(s)
        /\ StartsAtEnd(t) <=> StartsAtEnd(s)
        /\ FitsBeforeEnd(t) <=> FitsBeforeEnd(s)
    BY <2>2 DEF Ahead, WentAround, StartsAtEnd, FitsBeforeEnd
  <2>4. ASSUME s.offset < Reach
        PROVE  /\ s.phase = 1 => ~FitsBeforeEnd(s) /\ Ahead(s)
               /\ s.phase = 2 => FitsBeforeEnd(s) /\ (Ahead(s) => StartsAtEnd(s))
               /\ s.phase # 3
    <3>1. FitsBeforeEnd(s) <=> ~OddPhase(s)
      BY <1>2, <2>4 DEF Looping
    <3> QED BY <2>4, <3>1 DEF BackwardOK
  <2>5. Ahead(s) /\ ~FitsBeforeEnd(s) => StartsAtEnd(s)
    BY DEF Ahead, StartsAtEnd
  <2>6. BackwardOK(t)
    <3>1. Ahead(t) \/ WentAround(t)
      BY <2>3 DEF BackwardOK
    <3>2. ASSUME s.offset < Reach
          PROVE  /\ t.phase = 1 => Ahead(t)
                 /\ t.phase = 2 /\ Ahead(t) => StartsAtEnd(t)
                 /\ t.phase = 3 => FitsBeforeEnd(t) /\ (Ahead(t) => StartsAtEnd(t))
                 /\ t.phase = 4 => WentAround(t) /\ StartsAtEnd(t)
      <4>1. t.phase \in {2, 3} /\ (t.phase = 2 <=> s.phase = 1) /\ (t.phase = 3 <=> s.phase = 2)
        BY <1>2, <2>2, <2>4, <3>2
      <4> QED BY <2>3, <2>4, <2>5, <3>2, <4>1
    <3> QED BY <2>2, <3>1, <3>2 DEF BackwardOK
  <2>7. t.direction # "forwards"
    BY <2>2
  <2> QED BY <2>1, <2>2, <2>6, <2>7 DEF CallOK
<1>3. ASSUME Looping(s)
      PROVE  /\ s.offset < Reach
             /\ FitsBeforeEnd(s) <=> OddPhase(s)
             /\ s.address % Size = Back(s, s.offset)
             /\ matches <=> MatchesAt(s.address % Size, s.template)
  <2>1. s.offset < Reach /\ (FitsBeforeEnd(s) <=> OddPhase(s))
    BY <1>3 DEF Looping
  <2>2. s.address % Size = Back(s, s.offset)
    <3>1. s.offset \in 0 .. Size - 1 /\ s.address \in 0 .. Size
      BY <2>1
    <3>2. s.address % Size = IF s.address = Size THEN 0 ELSE s.address
      BY <3>1, AddressLemma
    <3>3. Back(s, s.offset) = IF s.start - s.offset < 0 THEN s.start - s.offset + Size
                              ELSE IF s.start - s.offset < Size THEN s.start - s.offset ELSE 0
      BY <3>1, OffsetLemma
    <3>4. s.address = s.start - s.offset \/ s.address = s.start + Size - s.offset
      BY DEF BackwardOK, Ahead, WentAround
    <3>5. PICK a \in Int, x \in Int, o \in Int : a = s.address /\ x = s.start /\ o = s.offset
      OBVIOUS
    <3>6. /\ a \in 0 .. Size /\ x \in 1 .. Size /\ o \in 0 .. Size - 1
          /\ a = x - o \/ a = x + Size - o
      BY <3>1, <3>4, <3>5
    <3>7. (IF a = Size THEN 0 ELSE a) =
            IF x - o < 0 THEN x - o + Size ELSE IF x - o < Size THEN x - o ELSE 0
      BY <3>6
    <3> QED BY <3>2, <3>3, <3>5, <3>7
  <2>3. MatchesAt(s.address, s.template) <=> MatchesAt(s.address % Size, s.template)
    BY MatchLemma
  <2>4. ASSUME OddPhase(s)
        PROVE  MatchesNonWrapping(s.address, s.template) <=> MatchesAt(s.address, s.template)
    BY <2>1, <2>4, MatchLemma
  <2> QED BY <2>1, <2>2, <2>3, <2>4
<1>4. CASE Looping(s) /\ matches
  <2>1. BackwardPass(s) = Found(s, s.address)
    BY <1>4, Zenon DEF BackwardPass
  <2>2. s.address % Size \in Looked(s, s.offset) /\ s.address \in 0 .. Size
    BY <1>3, <1>4, LookLemma
  <2> HIDE DEF matches
  <2> QED BY <1>3, <1>4, <2>1, <2>2, FoundLemma
<1>5. CASE Looping(s) /\ ~matches
  <2> DEFINE b == IF OddPhase(s) /\ s.address = 0 THEN Size - 1 ELSE s.address - 1
             p == IF OddPhase(s) /\ s.address = 0 THEN s.phase + 1 ELSE s.phase
             t == GoOn(s, b, p)
  <2>1. BackwardPass(s) = StepBack([s EXCEPT !.offset = @ + 1])
    BY <1>5, Zenon DEF BackwardPass
  <2>2. BackwardPass(s) = t
    BY <2>1, StepBackLemma
  <2>3. \A x \in Looked(s, s.offset) : ~MatchesAt(x, s.template)
    BY <1>3, <1>5, LookLemma
  <2>4. s.offset < Reach /\ (FitsBeforeEnd(s) <=> OddPhase(s))
    BY <1>3, <1>5
  <2>5. b \in 0 .. Size /\ p \in 1 .. 4
    BY <2>4
  <2> HIDE DEF matches
  <2>6. /\ ArgsOK(t) /\ Missed(t)
        /\ t.pc = "running" /\ t.phase = p /\ t.offset = s.offset + 1
        /\ t.address = b /\ t.template = s.template
        /\ t.direction = s.direction /\ t.start = s.start
    <3> HIDE <1>0 DEF b, p
    <3> QED BY <2>3, <2>4, <2>5, GoOnLemma, Zenon
  <2> HIDE DEF t
  <2>7. BackwardOK(t)
    <3>1. CASE OddPhase(s) /\ s.address = 0
      <4>1. t.address = Size - 1 /\ t.phase = s.phase + 1 /\ s.phase \in {1, 3}
        BY <2>6, <3>1
      <4>2. ~WentAround(s)
        BY <3>1 DEF WentAround
      <4>3. Ahead(s)
        BY <4>2 DEF BackwardOK
      <4>4. WentAround(t) /\ ~Ahead(t)
        BY <2>6, <3>1, <4>1, <4>3 DEF Ahead, WentAround
      <4>5. s.phase = 3 => StartsAtEnd(t)
        BY <2>4, <2>6, <4>3 DEF BackwardOK, StartsAtEnd
      <4> QED BY <4>1, <4>4, <4>5 DEF BackwardOK
    <3>2. CASE ~(OddPhase(s) /\ s.address = 0)
      <4>1. t.address = s.address - 1 /\ t.phase = s.phase
        BY <2>6, <3>2
      <4>2. /\ Ahead(t) <=> Ahead(s)
            /\ WentAround(t) <=> WentAround(s)
            /\ StartsAtEnd(t) <=> StartsAtEnd(s)
            /\ FitsBeforeEnd(s) => FitsBeforeEnd(t)
        <5>1. PICK a \in Int, x \in Int, o \in Int, l \in Int :
                a = s.address /\ x = s.start /\ o = s.offset /\ l = Len(s.template)
          OBVIOUS
        <5>2. /\ a - 1 = x - (o + 1) <=> a = x - o
              /\ a - 1 = x + Size - (o + 1) <=> a = x + Size - o
              /\ a + l <= Size => a - 1 + l <= Size
          OBVIOUS
        <5>3. t.address = a - 1 /\ t.start = x /\ t.offset = o + 1 /\ t.template = s.template
          BY <2>6, <4>1, <5>1
        <5> QED BY <5>1, <5>2, <5>3 DEF Ahead, WentAround, StartsAtEnd, FitsBeforeEnd
      <4> QED BY <2>4, <4>1, <4>2 DEF BackwardOK
    <3> QED BY <3>1, <3>2
  <2>8. t.direction # "forwards"
    BY <2>6
  <2> QED BY <2>2, <2>6, <2>7, <2>8 DEF CallOK
<1> QED BY <1>1, <1>2, <1>4, <1>5

\* Both ways: up to the offset from which on it wraps, neither side leaves the soup.
LEMMA WrapLemma ==
  ASSUME SoupOK, NEW s, ArgsOK(s)
  PROVE  /\ WrapOffset(s) \in Int
         /\ s.offset < WrapOffset(s) =>
              s.start + s.offset + Len(s.template) <= Size /\ s.start - s.offset >= 0
<1>0. /\ Size \in Nat /\ Size > 0 /\ Reach \in Nat /\ Reach <= Size - 1
      /\ s.template \in Templates /\ Len(s.template) \in Int
      /\ 1 <= Len(s.template) /\ Len(s.template) <= Size - 1
      /\ s.start \in 1 .. Size /\ s.start \in Int
      /\ s.offset \in Int /\ 0 <= s.offset /\ s.offset <= Reach
      /\ s.address \in 0 .. Size /\ s.address \in Int /\ 0 <= s.address /\ s.address <= Size
      /\ s.phase \in 1 .. 4 /\ s \in Calls
      /\ OddPhase(s) <=> s.phase \in {1, 3}
      /\ FitsBeforeEnd(s) <=> s.address + Len(s.template) <= Size
  BY CallLemma
<1> USE <1>0
<1> DEFINE room == Size - s.start - Len(s.template)
           limits == {IF room >= 0 THEN room ELSE 0, s.start, Reach}
<1>1. limits \subseteq Nat /\ limits # {}
  OBVIOUS
<1>2. Min(limits) \in Nat /\ \A l \in limits : Min(limits) <= l
  <2> HIDE DEF limits
  <2> QED BY <1>1, MinOfNaturals
<1>3. WrapOffset(s) = Min(limits)
  BY Zenon DEF WrapOffset
<1>4. PICK w \in Int : w = WrapOffset(s) /\ w <= (IF room >= 0 THEN room ELSE 0) /\ w <= s.start
  BY <1>2, <1>3
<1> QED BY <1>4

LEMMA BothWaysLemma ==
  ASSUME SoupOK, NEW s, ArgsOK(s), Missed(s), s.pc = "running", s.direction = "both"
  PROVE  CallOK(BothWaysPass(s))
<1>0. /\ Size \in Nat /\ Size > 0 /\ Reach \in Nat /\ Reach <= Size - 1
      /\ s.template \in Templates /\ Len(s.template) \in Int
      /\ 1 <= Len(s.template) /\ Len(s.template) <= Size - 1
      /\ s.start \in 1 .. Size /\ s.start \in Int
      /\ s.offset \in Int /\ 0 <= s.offset /\ s.offset <= Reach
      /\ s.address \in 0 .. Size /\ s.address \in Int /\ 0 <= s.address /\ s.address <= Size
      /\ s.phase \in 1 .. 4 /\ s \in Calls
      /\ OddPhase(s) <=> s.phase \in {1, 3}
      /\ FitsBeforeEnd(s) <=> s.address + Len(s.template) <= Size
  BY CallLemma
<1> USE <1>0
<1> DEFINE wraps == s.offset >= WrapOffset(s)
           fore == IF wraps THEN (s.start + s.offset) % Size ELSE s.start + s.offset
           back == IF wraps THEN (s.start + Size - s.offset) % Size ELSE s.start - s.offset
           Matches(a) == IF wraps THEN MatchesAt(a, s.template)
                                  ELSE MatchesNonWrapping(a, s.template)
<1>1. CASE s.offset >= Reach
  <2>1. s.offset = Reach /\ ~(s.offset < Reach)
    BY <1>1
  <2>2. BothWaysPass(s) = Failed(s)
    BY <1>1, <2>1, Zenon DEF BothWaysPass
  <2> QED BY <2>1, <2>2, FailedLemma
<1>2. ASSUME s.offset < Reach
      PROVE  /\ fore = Fore(s, s.offset) /\ fore \in 0 .. Size - 1
             /\ back = Back(s, s.offset) /\ back \in 0 .. Size - 1
             /\ Matches(fore) <=> MatchesAt(fore, s.template)
             /\ Matches(back) <=> MatchesAt(back, s.template)
  <2>1. s.offset \in 0 .. Size - 1
    BY <1>2
  <2>2. CASE wraps
    <3>1. fore = Fore(s, s.offset) /\ back = Back(s, s.offset)
      BY <2>2, Zenon DEF Fore, Back
    <3>2. Fore(s, s.offset) \in 0 .. Size - 1 /\ Back(s, s.offset) \in 0 .. Size - 1
      BY <2>1, OffsetLemma
    <3> QED BY <2>2, <3>1, <3>2
  <2>3. CASE ~wraps
    <3>1. WrapOffset(s) \in Int
      BY WrapLemma
    <3>2. s.start + s.offset + Len(s.template) <= Size /\ s.start - s.offset >= 0
      BY <2>3, <3>1, WrapLemma
    <3>3. fore = s.start + s.offset /\ back = s.start - s.offset
      BY <2>3
    <3> HIDE DEF wraps
    <3>4. /\ fore \in 0 .. Size - 1 /\ back \in 0 .. Size - 1
          /\ fore + Len(s.template) <= Size /\ back + Len(s.template) <= Size
      <4> HIDE DEF fore, back
      <4>1. PICK x \in Int, o \in Int, l \in Int :
              x = s.start /\ o = s.offset /\ l = Len(s.template)
        OBVIOUS
      <4>2. /\ fore = x + o /\ back = x - o /\ x >= 1 /\ o >= 0 /\ l >= 1
            /\ x + o + l <= Size /\ x - o >= 0
        BY <3>2, <3>3, <4>1
      <4>3. /\ x + o \in 0 .. Size - 1 /\ x - o \in 0 .. Size - 1
            /\ x + o + l <= Size /\ x - o + l <= Size
        BY <4>2
      <4> QED BY <4>1, <4>2, <4>3
    <3>5. fore = Fore(s, s.offset) /\ back = Back(s, s.offset)
      <4>1. /\ Fore(s, s.offset) = IF s.start + s.offset < Size THEN s.start + s.offset
                                   ELSE s.start + s.offset - Size
            /\ Back(s, s.offset) = IF s.start - s.offset < 0 THEN s.start - s.offset + Size
                                   ELSE IF s.start - s.offset < Size THEN s.start - s.offset ELSE 0
        BY <2>1, OffsetLemma
      <4> HIDE DEF fore, back
      <4> QED BY <3>3, <3>4, <4>1
    <3>6. \A a \in 0 .. Size : a + Len(s.template) <= Size =>
            (MatchesNonWrapping(a, s.template) <=> MatchesAt(a, s.template))
      BY MatchLemma
    <3>7. /\ Matches(fore) <=> MatchesNonWrapping(fore, s.template)
          /\ Matches(back) <=> MatchesNonWrapping(back, s.template)
      BY <2>3 DEF wraps
    <3> HIDE DEF fore, back, Matches
    <3> QED BY <3>4, <3>5, <3>6, <3>7
  <2> QED BY <2>2, <2>3
<1>3. \A a \in 0 .. Size - 1 : a \in 0 .. Size /\ a % Size = a
  BY AddressLemma
<1>4. Looked(s, s.offset) = {Fore(s, s.offset), Back(s, s.offset)}
  BY LookLemma
<1>5. CASE s.offset < Reach /\ Matches(fore)
  <2>1. BothWaysPass(s) = Found(s, fore)
    BY <1>5 DEF BothWaysPass
  <2> HIDE DEF fore, back, Matches
  <2>2. /\ fore \in 0 .. Size /\ fore % Size = Fore(s, s.offset)
        /\ fore % Size \in Looked(s, s.offset) /\ MatchesAt(fore % Size, s.template)
    BY <1>2, <1>3, <1>4, <1>5
  <2> QED BY <1>5, <2>1, <2>2, FoundLemma
<1>6. CASE s.offset < Reach /\ ~Matches(fore) /\ Matches(back)
  <2>1. BothWaysPass(s) = Found(s, back)
    BY <1>6 DEF BothWaysPass
  <2> HIDE DEF fore, back, Matches
  <2>2. /\ back \in 0 .. Size /\ back % Size = Back(s, s.offset)
        /\ back % Size \in Looked(s, s.offset) /\ MatchesAt(back % Size, s.template)
        /\ ~MatchesAt(Fore(s, s.offset), s.template)
    BY <1>2, <1>3, <1>4, <1>6
  <2> QED BY <1>6, <2>1, <2>2, FoundLemma
<1>7. CASE s.offset < Reach /\ ~Matches(fore) /\ ~Matches(back)
  <2> DEFINE t == GoOn(s, s.address, s.phase)
  <2>1. BothWaysPass(s) = [s EXCEPT !.offset = @ + 1]
    BY <1>7 DEF BothWaysPass
  <2>2. BothWaysPass(s) = t
    BY <2>1 DEF Calls, GoOn
  <2> HIDE DEF fore, back, Matches
  <2>3. \A a \in Looked(s, s.offset) : ~MatchesAt(a, s.template)
    BY <1>2, <1>4, <1>7
  <2>4. /\ ArgsOK(t) /\ Missed(t) /\ t.pc = "running" /\ t.direction = s.direction
    <3>1. s.address \in 0 .. Size /\ s.phase \in 1 .. 4 /\ s.offset < Reach
      BY <1>7
    <3> HIDE <1>0
    <3> QED BY <2>3, <3>1, GoOnLemma, Zenon
  <2> HIDE DEF t
  <2> QED BY <2>2, <2>4 DEF CallOK
<1> QED BY <1>1, <1>5, <1>6, <1>7

-----------------------------------------------------------------------------
(* The call.                                                               *)

\* A template ends before it meets the instruction that searches.
LEMMA TemplateLengthLemma ==
  ASSUME SoupOK, NEW ip \in 0 .. Size - 1, soup[ip] = Other
  PROVE  LET length == TemplateLength(ip + 1)
         IN  /\ length \in 0 .. MaxTemplateLength + 1
             /\ length <= Size - 1
             /\ \A i \in 0 .. length - 1 : soup[(ip + 1 + i) % Size] \in Nops
             /\ length <= MaxTemplateLength => soup[(ip + 1 + length) % Size] \notin Nops
<1> DEFINE start == ip + 1
           ends == {i \in 0 .. MaxTemplateLength : soup[(start + i) % Size] \notin Nops}
           length == TemplateLength(start)
<1>1. Size \in Nat \ {0} /\ MaxTemplateLength \in Nat \ {0}
  BY SearchAssumption DEF SoupOK
<1>2. (start + (Size - 1)) % Size = ip
  <2>1. PICK x \in 0 .. Size + Size + Size - 1 : x = start + (Size - 1) /\ x = ip + Size
    BY <1>1
  <2>2. x % Size = Around(Size, x)
    BY <1>1, AroundLemma
  <2>3. Around(Size, x) = ip
    BY <1>1, <2>1 DEF Around
  <2> QED BY <2>1, <2>2, <2>3
<1>3. Size - 1 <= MaxTemplateLength => Size - 1 \in ends
  BY <1>1, <1>2 DEF Other, Nops
<1>4. length = IF ends = {} THEN MaxTemplateLength + 1 ELSE Min(ends)
  BY DEF TemplateLength
<1>5. CASE ends = {}
  <2>1. length = MaxTemplateLength + 1 /\ ~(Size - 1 <= MaxTemplateLength)
    BY <1>3, <1>4, <1>5
  <2>2. \A i \in 0 .. MaxTemplateLength : soup[(start + i) % Size] \in Nops
    BY <1>5
  <2> HIDE DEF length
  <2>3. length \in 0 .. MaxTemplateLength + 1 /\ length <= Size - 1
        /\ ~(length <= MaxTemplateLength) /\ length - 1 = MaxTemplateLength
    BY <1>1, <2>1
  <2>4. \A i \in 0 .. length - 1 : soup[(start + i) % Size] \in Nops
    BY <2>2, <2>3
  <2> QED BY <2>3, <2>4 DEF length
<1>6. CASE ends # {}
  <2>1. ends \subseteq Nat
    BY <1>1
  <2>2. length \in ends /\ \A i \in ends : length <= i
    <3> HIDE DEF ends
    <3> QED BY <1>4, <1>6, <2>1, MinOfNaturals
  <2> HIDE DEF length
  <2>3. length \in 0 .. MaxTemplateLength /\ soup[(start + length) % Size] \notin Nops
    BY <2>2
  <2>4. length <= Size - 1
    BY <1>1, <1>3, <2>2, <2>3
  <2>5. ASSUME NEW i \in 0 .. length - 1 PROVE soup[(start + i) % Size] \in Nops
    <3>1. i \in 0 .. MaxTemplateLength /\ ~(length <= i)
      BY <1>1, <2>3
    <3> QED BY <2>2, <3>1
  <2>6. length \in 0 .. MaxTemplateLength + 1
    BY <1>1, <2>3
  <2> QED BY <2>3, <2>4, <2>5, <2>6 DEF length
<1> QED BY <1>5, <1>6

LEMMA ComplementLemma ==
  ASSUME SoupOK, NEW start \in Int, NEW length \in 1 .. Size - 1,
         \A i \in 0 .. length - 1 : soup[(start + i) % Size] \in Nops
  PROVE  Complement(start, length) \in Templates /\ Len(Complement(start, length)) = length
<1> DEFINE t == Complement(start, length)
<1>1. Size \in Nat \ {0} /\ length \in Nat
  BY DEF SoupOK
<1>2. t \in [1 .. length -> Nops]
  <2>1. ASSUME NEW i \in 1 .. length PROVE 1 - soup[(start + i - 1) % Size] \in Nops
    <3>1. i - 1 \in 0 .. length - 1
      BY <1>1
    <3>2. soup[(start + (i - 1)) % Size] \in Nops
      BY <3>1
    <3>3. start + (i - 1) = start + i - 1
      BY <1>1
    <3>4. soup[(start + i - 1) % Size] \in {0, 1}
      BY <3>2, <3>3 DEF Nops
    <3> QED BY <3>4 DEF Nops
  <2> QED BY <2>1 DEF Complement
<1>3. DOMAIN t = 1 .. length
  BY DEF Complement
<1> HIDE DEF t
<1>4. t \in Seq(Nops)
  BY <1>1, <1>2, SeqDef
<1>5. Len(t) \in Nat /\ DOMAIN t = 1 .. Len(t)
  BY <1>4, LenProperties
<1>6. Len(t) = length
  BY <1>1, <1>3, <1>5
<1> QED BY <1>4, <1>6 DEF t, Templates

LEMMA SearchForTemplateLemma ==
  ASSUME SoupOK, NEW ip \in Addresses, NEW direction \in Directions,
         SearchForTemplate(ip, direction)
  PROVE  SearchOK(search')
<1> DEFINE start == ip + 1
           length == TemplateLength(start)
           s == [pc |-> "running", template |-> Complement(start, length),
                 direction |-> direction, start |-> start,
                 phase |-> 1, offset |-> 0, address |-> start]
<1>1. /\ soup[ip] = Other
      /\ search' = IF Refused(length) THEN [pc |-> "failed", template |-> <<>>] ELSE s
  BY DEF SearchForTemplate
<1>2. Size \in Nat \ {0} /\ ip \in 0 .. Size - 1 /\ MaxTemplateLength \in Nat \ {0}
  BY SearchAssumption DEF SoupOK, Addresses
<1>3. CASE Refused(length)
  BY <1>1, <1>3 DEF SearchOK, RefusedOK
<1>4. CASE ~Refused(length)
  <2>1. /\ length \in 0 .. MaxTemplateLength + 1
        /\ length <= Size - 1
        /\ \A i \in 0 .. length - 1 : soup[(start + i) % Size] \in Nops
        /\ length <= MaxTemplateLength => soup[(start + length) % Size] \notin Nops
    BY <1>1, <1>2, TemplateLengthLemma
  <2>2. length # 0
    BY <1>4 DEF Refused
  <2>3. length \in 1 .. Size - 1 /\ length <= MaxTemplateLength + 1
    <3> HIDE DEF length
    <3> QED BY <1>2, <2>1, <2>2
  <2> HIDE DEF length
  <2>4. Complement(start, length) \in Templates /\ Len(Complement(start, length)) = length
    <3>1. start \in Int
      BY <1>2
    <3> HIDE DEF start
    <3> QED BY <2>1, <2>3, <3>1, ComplementLemma
  <2>5. start \in 1 .. Size /\ start \in 0 .. Size /\ start - 1 = ip
    BY <1>2
  <2>6. 0 \in 0 .. Reach
    BY ReachLemma
  <2>7. s \in Calls
    BY <2>4, <2>5, <2>6 DEF Calls
  <2>8. /\ s.pc = "running" /\ s.template = Complement(start, length)
        /\ s.start = start /\ s.phase = 1 /\ s.offset = 0 /\ s.address = start
    OBVIOUS
  <2> HIDE DEF s
  <2>9. ArgsOK(s)
    BY <1>1, <2>1, <2>3, <2>4, <2>5, <2>7, <2>8 DEF ArgsOK
  <2>10. Missed(s)
    BY <2>8 DEF Missed
  <2>11. ForwardOK(s)
    BY <2>5, <2>8 DEF ForwardOK, Fore
  <2>12. BackwardOK(s)
    BY <2>5, <2>8 DEF BackwardOK, Ahead
  <2> QED BY <1>1, <1>4, <2>8, <2>9, <2>10, <2>11, <2>12 DEF SearchOK, CallOK
<1> QED BY <1>3, <1>4

-----------------------------------------------------------------------------
(* Every step preserves the invariant.                                     *)

LEMMA InitLemma == Init => IInv
<1> SUFFICES ASSUME Init PROVE IInv
  OBVIOUS
<1>1. PICK size \in Sizes : soup \in [0 .. size - 1 -> Nops \cup {Other}]
  BY DEF Init
<1>2. size \in Nat \ {0}
  BY SearchAssumption
<1>3. Size = size
  <2>1. DOMAIN soup = 0 .. size - 1
    BY <1>1
  <2>2. Cardinality(0 .. size - 1) = size
    BY <1>2, FS_Interval
  <2> QED BY <2>1, <2>2 DEF Size
<1>4. SoupOK
  BY <1>1, <1>2, <1>3 DEF SoupOK
<1>5. SearchOK(search)
  BY DEF Init, SearchOK
<1> QED BY <1>4, <1>5 DEF IInv

LEMMA SearchPassLemma ==
  ASSUME SoupOK, SearchOK(search), SearchPass
  PROVE  CallOK(search')
<1>1. search.pc = "running"
  BY DEF SearchPass, Running
<1>2. search # Idle /\ ~RefusedOK(search)
  BY <1>1 DEF Idle, RefusedOK
<1>3. CallOK(search)
  BY <1>2 DEF SearchOK
<1>4. ArgsOK(search) /\ Missed(search)
  BY <1>3 DEF CallOK
<1>5. search.direction \in Directions
  BY <1>4 DEF ArgsOK, Calls
<1>6. CASE search.direction = "forwards"
  <2>1. search' = ForwardPass(search)
    BY <1>6 DEF SearchPass
  <2>2. ForwardOK(search)
    BY <1>1, <1>3, <1>6 DEF CallOK
  <2> QED BY <1>1, <1>4, <1>6, <2>1, <2>2, ForwardLemma
<1>7. CASE search.direction = "backwards"
  <2>1. search' = BackwardPass(search)
    BY <1>7 DEF SearchPass
  <2>2. BackwardOK(search)
    BY <1>1, <1>3, <1>7 DEF CallOK
  <2> QED BY <1>1, <1>4, <1>7, <2>1, <2>2, BackwardLemma
<1>8. CASE search.direction = "both"
  <2>1. search' = BothWaysPass(search)
    BY <1>8 DEF SearchPass
  <2> QED BY <1>1, <1>4, <1>8, <2>1, BothWaysLemma
<1> QED BY <1>5, <1>6, <1>7, <1>8 DEF Directions


\* What is true of a call depends on the soup alone, which no step changes.
LEMMA SameSoupLemma ==
  ASSUME soup' = soup, SoupOK, SearchOK(search')
  PROVE  IInv'
<1>1. Size' = Size /\ SoupOK'
  BY DEF Size, SoupOK
<1>2. Reach' = Reach /\ Templates' = Templates
  BY <1>1 DEF Reach, Templates
<1>3. Calls' = Calls
  BY <1>1, <1>2, Zenon DEF Calls
<1>4. \A a, t : MatchesAt(a, t)' <=> MatchesAt(a, t)
  BY <1>1 DEF MatchesAt
<1>5. \A s, k : Fore(s, k)' = Fore(s, k) /\ Back(s, k)' = Back(s, k)
  BY <1>1, Zenon DEF Fore, Back
<1>6. \A s, k : Looked(s, k)' = Looked(s, k)
  BY <1>5 DEF Looked
<1>7. \A s : FitsBeforeEnd(s)' <=> FitsBeforeEnd(s)
  BY <1>1 DEF FitsBeforeEnd
<1>8. ArgsOK(search)' <=> ArgsOK(search')
  BY <1>1, <1>3, Zenon DEF ArgsOK
<1>9. Missed(search)' <=> Missed(search')
  BY <1>4, <1>6 DEF Missed
<1>10. ForwardOK(search)' <=> ForwardOK(search')
  BY <1>1, <1>2, <1>5, <1>7 DEF ForwardOK
<1>11. BackwardOK(search)' <=> BackwardOK(search')
  BY <1>1, <1>2, <1>7 DEF BackwardOK, Ahead, WentAround, StartsAtEnd
<1>12. FoundOK(search)' <=> FoundOK(search')
  BY <1>1, <1>2, <1>4, <1>5, <1>6 DEF FoundOK
<1>13. CallOK(search)' <=> CallOK(search')
  BY <1>2, <1>8, <1>9, <1>10, <1>11, <1>12 DEF CallOK
<1> QED BY <1>1, <1>13 DEF IInv, SearchOK, RefusedOK, Idle

LEMMA NextLemma == IInv /\ [Next]_vars => IInv'
<1> SUFFICES ASSUME IInv, [Next]_vars PROVE IInv'
  OBVIOUS
<1>1. SoupOK /\ SearchOK(search)
  BY DEF IInv
<1>2. ASSUME NEW ip \in Addresses, NEW direction \in Directions, SearchForTemplate(ip, direction)
      PROVE  IInv'
  BY <1>1, <1>2, SearchForTemplateLemma, SameSoupLemma DEF SearchForTemplate
<1>3. CASE SearchPass
  <2>1. SearchOK(search')
    BY <1>1, <1>3, SearchPassLemma DEF SearchOK
  <2> QED BY <1>1, <1>3, <2>1, SameSoupLemma DEF SearchPass
<1>4. CASE SearchReturns
  BY <1>1, <1>4, SameSoupLemma DEF SearchReturns, SearchOK
<1>5. CASE UNCHANGED vars
  BY <1>1, <1>5, SameSoupLemma DEF vars
<1> QED BY <1>2, <1>3, <1>4, <1>5 DEF Next

LEMMA InvariantLemma == Spec => []IInv
<1> QED BY InitLemma, NextLemma, PTL DEF Spec

-----------------------------------------------------------------------------
(* What follows.                                                           *)

\* Every loop stays in the soup: whatever is looked at or found is an address, or
\* Size for address 0.
THEOREM TypeCorrectness == Spec => []TypeOK
<1>1. IInv => TypeOK
  <2> SUFFICES ASSUME IInv PROVE TypeOK
    OBVIOUS
  <2>1. SoupOK /\ SearchOK(search)
    BY DEF IInv
  <2>2. soup \in [0 .. Size - 1 -> Nops \cup {Other}]
    BY <2>1 DEF SoupOK
  <2>3. MaxTemplateLength \in Nat \ {0}
    BY SearchAssumption
  <2>4. CASE search = Idle
    BY <2>2, <2>4 DEF TypeOK, Idle, Running
  <2>5. CASE RefusedOK(search)
    <3>1. search.pc = "failed" /\ search.template = <<>>
      BY <2>5 DEF RefusedOK
    <3>2. <<>> \in [1 .. 0 -> Nops] /\ 0 \in 0 .. MaxTemplateLength + 1
      BY <2>3
    <3>3. search.template \in UNION {[1 .. n -> Nops] : n \in 0 .. MaxTemplateLength + 1}
      BY <3>1, <3>2
    <3> QED BY <2>2, <3>1, <3>3 DEF TypeOK, Running
  <2>6. CASE CallOK(search)
    <3>1. search \in Calls /\ Len(search.template) <= MaxTemplateLength + 1
      BY <2>6 DEF CallOK, ArgsOK
    <3>2. search.template \in Seq(Nops) /\ Len(search.template) \in 1 .. Size - 1
      BY <3>1 DEF Calls, Templates
    <3>3. /\ search.template \in [1 .. Len(search.template) -> Nops]
          /\ Len(search.template) \in 0 .. MaxTemplateLength + 1
      BY <2>3, <3>1, <3>2, LenProperties
    <3>4. search.template \in UNION {[1 .. n -> Nops] : n \in 0 .. MaxTemplateLength + 1}
      BY <3>3
    <3> QED BY <2>2, <3>1, <3>4 DEF TypeOK, Calls
  <2> QED BY <2>1, <2>4, <2>5, <2>6 DEF SearchOK
<1> QED BY <1>1, InvariantLemma, PTL

\* A search that was not refused is described by the invariant.
LEMMA SearchedLemma ==
  ASSUME IInv, Searched
  PROVE  /\ SoupOK /\ CallOK(search)
         /\ \A k : /\ Forward(k) = Fore(search, k) /\ Backward(k) = Back(search, k)
                   /\ Sides(k) = Looked(search, k)
<1>1. search # Idle /\ ~RefusedOK(search)
  BY DEF Searched, Idle, RefusedOK
<1>2. SoupOK /\ CallOK(search)
  BY <1>1 DEF IInv, SearchOK
<1>3. \A k : Forward(k) = Fore(search, k) /\ Backward(k) = Back(search, k)
  BY Zenon DEF Forward, Backward, Fore, Back
<1>4. \A k : Sides(k) = Looked(search, k)
  BY <1>3 DEF Sides, Looked
<1> QED BY <1>2, <1>3, <1>4

\* Whichever loops a search goes through, it finds the complement nearest to its
\* template in its direction, the one forwards of two as near, and fails only
\* without one within the distance.
THEOREM NearestAlwaysFound == Spec => []NearestIsFound
<1>1. IInv => NearestIsFound
  <2> SUFFICES ASSUME IInv, Searched
               PROVE  IF Hits = {} THEN search.pc = "failed"
                      ELSE LET k == Min(Hits)
                               nearest == IF Forward(k) \in Sides(k) /\ MatchesAt(Forward(k), search.template)
                                          THEN Forward(k) ELSE Backward(k)
                           IN  search.pc = "found" /\ search.address % Size = nearest
    BY Zenon DEF NearestIsFound
  <2>1. SoupOK /\ CallOK(search)
    BY SearchedLemma
  <2>2. \A k : /\ Forward(k) = Fore(search, k) /\ Backward(k) = Back(search, k)
               /\ Sides(k) = Looked(search, k)
    BY SearchedLemma
  <2>3. ArgsOK(search) /\ Missed(search)
    BY <2>1 DEF CallOK
  <2>4. PICK o \in Nat : o = search.offset
    BY <2>1, <2>3, CallLemma
  <2>5. \A k \in 0 .. o - 1 : ~HitAt(k)
    BY <2>2, <2>3, <2>4 DEF Missed, HitAt
  <2>6. Reach \in Nat
    BY <2>1, ReachLemma
  <2>7. CASE search.pc = "failed"
    <3>1. o = Reach
      BY <2>1, <2>4, <2>7 DEF CallOK
    <3>2. Hits = {}
      BY <2>5, <3>1 DEF Hits
    <3> QED BY <2>7, <3>2
  <2>8. CASE search.pc = "found"
    <3> DEFINE a == search.address % Size
    <3>1. /\ o < Reach /\ a \in Sides(o) /\ MatchesAt(a, search.template)
          /\ \/ a = Forward(o)
             \/ search.direction = "backwards"
             \/ ~MatchesAt(Forward(o), search.template)
      BY <2>1, <2>2, <2>4, <2>8 DEF CallOK, FoundOK
    <3> HIDE DEF a
    <3>2. HitAt(o)
      BY <3>1 DEF HitAt
    <3>3. o \in Hits
      BY <2>6, <3>1, <3>2 DEF Hits
    <3>4. \A k \in Hits : k \in Int /\ o <= k
      <4> SUFFICES ASSUME NEW k \in 0 .. Reach - 1, HitAt(k) PROVE k \in Int /\ o <= k
        BY DEF Hits
      <4> QED BY <2>5, <2>6
    <3>5. Min(Hits) = o
      <4>1. Hits \subseteq Int
        BY <3>4
      <4> QED BY <3>3, <3>4, <4>1, MinIs
    <3>6. search.direction \in Directions
      BY <2>1, <2>3, CallLemma
    <3>7. a = IF Forward(o) \in Sides(o) /\ MatchesAt(Forward(o), search.template)
              THEN Forward(o) ELSE Backward(o)
      BY <3>1, <3>6 DEF Sides, Directions
    <3> QED BY <2>8, <3>3, <3>5, <3>7 DEF a
  <2> QED BY <2>7, <2>8 DEF Searched
<1> QED BY <1>1, InvariantLemma, PTL

\* The addresses within the distance, to one side or the other, are all but one.
LEMMA EveryAddressLemma ==
  ASSUME SoupOK, NEW s, ArgsOK(s), NEW a \in 0 .. Size - 1
  PROVE  /\ a = s.start - 1 \/ \E k \in 0 .. Size - 2 : Fore(s, k) = a
         /\ \/ a = s.start + 1 \/ a = s.start + 1 - Size
            \/ \E k \in 0 .. Size - 2 : Back(s, k) = a
<1>1. PICK x \in 1 .. Size : x = s.start
  BY CallLemma
<1>2. Size \in Nat \ {0} /\ Size >= 2
  BY CallLemma
<1>3. a = x - 1 \/ \E k \in 0 .. Size - 2 : Fore(s, k) = a
  <2> DEFINE k == IF a >= x THEN a - x ELSE a - x + Size
  <2>1. a # x - 1 => k \in 0 .. Size - 2
    BY <1>2
  <2>2. k \in 0 .. Size - 1 /\ a = IF x + k < Size THEN x + k ELSE x + k - Size
    BY <1>2
  <2> HIDE DEF k
  <2>3. Fore(s, k) = a
    BY <1>1, <2>2, OffsetLemma
  <2> QED BY <2>1, <2>3
<1>4. a = x + 1 \/ a = x + 1 - Size \/ \E k \in 0 .. Size - 2 : Back(s, k) = a
  <2> DEFINE k == IF a > x THEN x - a + Size ELSE IF x - a = Size THEN 0 ELSE x - a
  <2>1. a # x + 1 /\ a # x + 1 - Size => k \in 0 .. Size - 2
    BY <1>2
  <2>2. k \in 0 .. Size - 1 /\ a = IF x - k < 0 THEN x - k + Size
                                   ELSE IF x - k < Size THEN x - k ELSE 0
    BY <1>2
  <2> HIDE DEF k
  <2>3. Back(s, k) = a
    BY <1>1, <2>2, OffsetLemma
  <2> QED BY <2>1, <2>3
<1> QED BY <1>1, <1>3, <1>4

\* The one left out forwards is the instruction's own, and the one left out backwards
\* is in a template that the next instruction ends; no complement is at either.
LEMMA LeftOutLemma ==
  ASSUME SoupOK, NEW s, ArgsOK(s), NEW a \in 0 .. Size - 1, MatchesAt(a, s.template)
  PROVE  /\ a # s.start - 1
         /\ Len(s.template) <= MaxTemplateLength => a # s.start + 1 /\ a # s.start + 1 - Size
<1>1. /\ Size \in Nat \ {0} /\ s.template \in Seq(Nops) /\ Len(s.template) \in 1 .. Size - 1
      /\ s.start \in 1 .. Size
  BY CallLemma DEF SoupOK, Templates
<1>2. PICK x \in 1 .. Size, l \in 1 .. Size - 1 : x = s.start /\ l = Len(s.template)
  BY <1>1
<1>3. \A i \in 1 .. l : s.template[i] \in Nops /\ soup[(a + i - 1) % Size] = s.template[i]
  BY <1>1, <1>2, LenProperties DEF MatchesAt
<1>4. a # x - 1
  <2> SUFFICES ASSUME a = x - 1 PROVE FALSE
    OBVIOUS
  <2>1. 1 \in 1 .. l /\ a + 1 - 1 = a
    BY <1>2
  <2>2. (a + 1 - 1) % Size = a
    <3>1. a \in 0 .. Size /\ a # Size
      BY <1>1
    <3> QED BY <2>1, <3>1, AddressLemma
  <2>3. soup[a] \in Nops
    BY <1>3, <2>1, <2>2
  <2> QED BY <1>2, <2>3 DEF ArgsOK, Other, Nops
<1>5. ASSUME l <= MaxTemplateLength, a = x + 1 \/ a = x + 1 - Size PROVE FALSE
  <2>1. soup[(x + l) % Size] \notin Nops
    BY <1>2, <1>5 DEF ArgsOK
  <2>2. PICK y \in 0 .. Size + Size + Size - 1, z \in 0 .. Size + Size + Size - 1 :
          y = a + l - 1 /\ z = x + l
    BY <1>1
  <2>3. Around(Size, y) = Around(Size, z)
    BY <1>1, <1>5, <2>2 DEF Around
  <2>4. (a + l - 1) % Size = (x + l) % Size
    BY <1>1, <2>2, <2>3, AroundLemma
  <2>5. l \in 1 .. l
    BY <1>2
  <2> QED BY <1>3, <2>1, <2>4, <2>5
<1> QED BY <1>2, <1>4, <1>5

\* A search that no limit cuts short fails only if the complement is nowhere in the
\* soup, though its loops give up an address early.
THEOREM AlwaysFailsOnlyWithoutComplement == Spec => []FailsOnlyWithoutComplement
<1>1. IInv => FailsOnlyWithoutComplement
  <2> SUFFICES ASSUME IInv, Searched, search.pc = "failed", MaxSearchDist >= Size,
                      Len(search.template) <= MaxTemplateLength,
                      NEW a \in Addresses, MatchesAt(a, search.template)
               PROVE  FALSE
    BY DEF FailsOnlyWithoutComplement
  <2>1. SoupOK /\ CallOK(search)
    BY SearchedLemma
  <2>2. ArgsOK(search) /\ Missed(search) /\ search.offset = Reach
    BY <2>1 DEF CallOK
  <2>3. Size \in Nat \ {0} /\ a \in 0 .. Size - 1
    BY <2>1 DEF SoupOK, Addresses
  <2>4. search.offset - 1 = Size - 2
    BY <2>1, <2>2, <2>3, ReachLemma
  <2>5. \A k \in 0 .. Size - 2 : a \notin Looked(search, k)
    BY <2>2, <2>4 DEF Missed
  <2>6. /\ a # search.start - 1
        /\ a # search.start + 1 /\ a # search.start + 1 - Size
    BY <2>1, <2>2, <2>3, LeftOutLemma
  <2>7. /\ \E k \in 0 .. Size - 2 : Fore(search, k) = a
        /\ \E k \in 0 .. Size - 2 : Back(search, k) = a
    BY <2>1, <2>2, <2>3, <2>6, EveryAddressLemma
  <2>8. search.direction \in Directions
    BY <2>1, <2>2, CallLemma
  <2> QED BY <2>5, <2>7, <2>8 DEF Looked, Directions
<1> QED BY <1>1, InvariantLemma, PTL
=============================================================================
