---------------------------- MODULE MutationProofs ----------------------------
(***************************************************************************)
(* The times of mutations are not missed, for delays of any length.        *)
(***************************************************************************)
EXTENDS Mutation, TLAPS

-----------------------------------------------------------------------------
(* What Max and Min of two numbers are.                                    *)

LEMMA MaxLemma ==
  ASSUME NEW a \in Int, NEW b \in Int
  PROVE  Max({a, b}) = IF a >= b THEN a ELSE b
<1> DEFINE S == {a, b}
           m == IF a >= b THEN a ELSE b
<1>1. m \in S /\ \A y \in S : m >= y
  OBVIOUS
<1>2. \A x \in S : (\A y \in S : x >= y) => x = m
  <2> SUFFICES ASSUME NEW x \in S, \A y \in S : x >= y PROVE x = m
    OBVIOUS
  <2>1. x >= m /\ m >= x
    BY <1>1
  <2>2. x \in Int /\ m \in Int
    OBVIOUS
  <2> HIDE DEF m
  <2> QED BY <2>1, <2>2
<1> HIDE DEF m, S
<1>3. Max(S) = m
  BY <1>1, <1>2, Zenon DEF Max
<1> QED BY <1>3 DEF m, S

LEMMA MinLemma ==
  ASSUME NEW a \in Int, NEW b \in Int
  PROVE  Min({a, b}) = IF a <= b THEN a ELSE b
<1> DEFINE S == {a, b}
           m == IF a <= b THEN a ELSE b
<1>1. m \in S /\ \A y \in S : m <= y
  OBVIOUS
<1>2. \A x \in S : (\A y \in S : x <= y) => x = m
  <2> SUFFICES ASSUME NEW x \in S, \A y \in S : x <= y PROVE x = m
    OBVIOUS
  <2>1. x >= m /\ m >= x
    BY <1>1
  <2>2. x \in Int /\ m \in Int
    OBVIOUS
  <2> HIDE DEF m
  <2> QED BY <2>1, <2>2
<1> HIDE DEF m, S
<1>3. Min(S) = m
  BY <1>1, <1>2, Zenon DEF Min
<1> QED BY <1>3 DEF m, S

\* A time is remembered until it is passed.
LEMMA UntilLemma ==
  ASSUME NEW t \in Int
  PROVE  Until(t) = IF t >= 0 THEN t ELSE Passed
<1>1. Until(t) = IF t >= Passed THEN t ELSE Passed
  BY MaxLemma DEF Until, Passed
<1> QED BY <1>1 DEF Passed

-----------------------------------------------------------------------------
(* What every step preserves.                                              *)

\* With the types, TimesAreAhead is inductive: what has passed while its rate was 0,
\* or while the settings changed, is drawn again before it counts.
IInv == TypeOK /\ TimesAreAhead

LEMMA InitLemma == Init => IInv
<1> SUFFICES ASSUME Init PROVE IInv
  OBVIOUS
<1>1. MaxDelay \in Nat /\ MaxDelay > 0
  BY MutationAssumption
<1>2. TypeOK
  <2>1. due \in [Timed -> Passed .. MaxDelay]
    BY <1>1 DEF Init, Delays, Passed
  <2>2. copies \in [pending : BOOLEAN, since : 0 .. MaxDelay, next : 0 .. MaxDelay]
    BY <1>1 DEF Init, Delays
  <2>3. changing \in NotChanging .. MaxDelay + 1
    BY <1>1 DEF Init, NotChanging
  <2>4. rates \subseteq Kinds /\ raced \in BOOLEAN
    BY DEF Init
  <2>5. done \in [copied : BOOLEAN, mutated : BOOLEAN, fired : SUBSET Timed]
    BY DEF Init, NothingDone
  <2> QED BY <2>1, <2>2, <2>3, <2>4, <2>5 DEF TypeOK
<1>3. TimesAreAhead
  BY <1>1 DEF Init, TimesAreAhead, Delays, Passed
<1> QED BY <1>2, <1>3 DEF IInv

\* What the next times are, of an instruction and of a change of settings.
LEMMA DrawLemma ==
  ASSUME TypeOK, NEW k \in Timed, NEW d \in Delays
  PROVE  /\ NextDue(k, d) \in Passed .. MaxDelay
         /\ due[k] # Passed => NextDue(k, d) # Passed \/ k \notin rates
         /\ changing # NotChanging => Redrawn(k, d) \in Passed .. MaxDelay
         /\ changing = 0 /\ k \in rates => Redrawn(k, d) # Passed
<1>1. /\ MaxDelay \in Nat /\ MaxDelay > 0 /\ d \in Int /\ 1 <= d /\ d <= MaxDelay
      /\ due[k] \in Int /\ -1 <= due[k] /\ due[k] <= MaxDelay
      /\ changing \in Int /\ -1 <= changing
  BY MutationAssumption DEF Delays, TypeOK, Passed, NotChanging
<1>2. /\ Until(due[k] - 1) = IF due[k] - 1 >= 0 THEN due[k] - 1 ELSE Passed
      /\ Until(d - changing) = IF d - changing >= 0 THEN d - changing ELSE Passed
  <2>1. due[k] - 1 \in Int /\ d - changing \in Int
    BY <1>1
  <2> QED BY <2>1, UntilLemma
<1>3. NextDue(k, d) \in Passed .. MaxDelay
  BY <1>1, <1>2 DEF NextDue, Passed
<1>4. due[k] # Passed => NextDue(k, d) # Passed \/ k \notin rates
  BY <1>1, <1>2 DEF NextDue, Fires, Passed
<1>5. changing # NotChanging => Redrawn(k, d) \in Passed .. MaxDelay
  BY <1>1, <1>2 DEF Redrawn, Passed, NotChanging
<1>6. changing = 0 /\ k \in rates => Redrawn(k, d) # Passed
  BY <1>1, <1>2 DEF Redrawn, Passed
<1> QED BY <1>3, <1>4, <1>5, <1>6

LEMMA NoteCopyLemma ==
  ASSUME TypeOK, NEW d \in Delays
  PROVE  NoteCopy(d) \in [pending : BOOLEAN, since : 0 .. MaxDelay, next : 0 .. MaxDelay]
<1>1. MaxDelay \in Nat /\ d \in 0 .. MaxDelay
  BY MutationAssumption DEF Delays
<1>2. copies \in [pending : BOOLEAN, since : 0 .. MaxDelay, next : 0 .. MaxDelay]
  BY DEF TypeOK
<1>3. CASE copies.pending
  <2>1. NoteCopy(d) = [pending |-> FALSE, since |-> 0, next |-> d]
    BY <1>3 DEF NoteCopy
  <2> QED BY <1>1, <2>1
<1>4. CASE ~copies.pending
  <2>1. copies.since + 1 \in Int /\ copies.since + 1 >= 0
    BY <1>1, <1>2
  <2>2. PICK since \in 0 .. MaxDelay : since = Min({copies.since + 1, MaxDelay})
    BY <1>1, <2>1, MinLemma
  <2>3. PICK pending \in BOOLEAN : pending = (copies.since + 1 >= copies.next)
    <3>1. (copies.since + 1 >= copies.next) \in BOOLEAN
      BY <1>2, <2>1
    <3> QED BY <3>1, Zenon
  <2>4. NoteCopy(d) = [copies EXCEPT !.since = since, !.pending = pending]
    BY <1>4, <2>2, <2>3 DEF NoteCopy
  <2> QED BY <1>2, <2>4
<1> QED BY <1>3, <1>4

LEMMA ExecuteStep ==
  ASSUME IInv, NEW copy \in BOOLEAN, Execute(copy)
  PROVE  IInv'
<1>1. TypeOK /\ TimesAreAhead /\ MaxDelay \in Nat
  BY MutationAssumption DEF IInv
<1>2. PICK delay \in [Timed -> Delays] : due' = [k \in Timed |-> NextDue(k, delay[k])]
  BY DEF Execute
<1>3. due' \in [Timed -> Passed .. MaxDelay]
  BY <1>1, <1>2, DrawLemma
<1>4. copies' \in [pending : BOOLEAN, since : 0 .. MaxDelay, next : 0 .. MaxDelay]
  <2>1. copies \in [pending : BOOLEAN, since : 0 .. MaxDelay, next : 0 .. MaxDelay]
    BY <1>1 DEF TypeOK
  <2>2. copies' = copies \/ \E d \in Delays : copies' = NoteCopy(d)
    BY DEF Execute
  <2> QED BY <1>1, <2>1, <2>2, NoteCopyLemma
<1>5. /\ changing' \in NotChanging .. MaxDelay + 1
      /\ changing' = NotChanging => changing = NotChanging
  <2>1. changing \in Int /\ changing + 1 \in Int /\ MaxDelay + 1 \in Int /\ -1 <= changing
    BY <1>1 DEF TypeOK, NotChanging
  <2>2. Min({changing + 1, MaxDelay + 1}) = IF changing + 1 <= MaxDelay + 1 THEN changing + 1 ELSE MaxDelay + 1
    BY <2>1, MinLemma
  <2>3. changing' = IF changing = NotChanging THEN NotChanging ELSE Min({changing + 1, MaxDelay + 1})
    BY DEF Execute
  <2> HIDE DEF Min
  <2> QED BY <1>1, <2>1, <2>2, <2>3 DEF NotChanging
<1>6. /\ rates' = rates /\ raced' = raced
      /\ done' \in [copied : BOOLEAN, mutated : BOOLEAN, fired : SUBSET Timed]
  BY <1>1 DEF Execute, TypeOK
<1>7. TypeOK'
  BY <1>1, <1>3, <1>4, <1>5, <1>6 DEF TypeOK
<1>8. TimesAreAhead'
  BY <1>1, <1>2, <1>5, <1>6, DrawLemma DEF TimesAreAhead
<1> QED BY <1>7, <1>8 DEF IInv

LEMMA BeginSettingsStep ==
  ASSUME IInv, NEW new \in SUBSET Kinds, BeginSettings(new)
  PROVE  IInv'
<1>1. MaxDelay \in Nat
  BY MutationAssumption
<1>2. TypeOK' /\ changing' = 0
  BY <1>1 DEF IInv, BeginSettings, TypeOK, NotChanging
<1> QED BY <1>2 DEF IInv, TimesAreAhead, NotChanging

LEMMA FinishSettingsStep ==
  ASSUME IInv, FinishSettings
  PROVE  IInv'
<1>1. TypeOK /\ MaxDelay \in Nat /\ changing # NotChanging
  BY MutationAssumption DEF IInv, FinishSettings
<1>2. PICK delay \in [Timed -> Delays] : due' = [k \in Timed |-> Redrawn(k, delay[k])]
  BY DEF FinishSettings
<1>3. due' \in [Timed -> Passed .. MaxDelay]
  BY <1>1, <1>2, DrawLemma
<1>4. copies' \in [pending : BOOLEAN, since : 0 .. MaxDelay, next : 0 .. MaxDelay]
  BY <1>1 DEF FinishSettings, TypeOK, Delays
<1>5. /\ rates' = rates /\ done' = done /\ changing' = NotChanging
      /\ raced' \in BOOLEAN /\ (~raced' => changing = 0)
  <2>1. rates' = rates /\ done' = done /\ changing' = NotChanging
    BY DEF FinishSettings
  <2>2. raced' = (changing > 0)
    BY DEF FinishSettings
  <2>3. changing \in Int /\ -1 <= changing
    BY <1>1 DEF TypeOK, NotChanging
  <2>4. ~ (changing > 0) => changing = 0
    BY <1>1, <2>3 DEF NotChanging
  <2>5. raced' \in BOOLEAN /\ (raced' <=> changing > 0)
    <3>1. (changing > 0) \in BOOLEAN
      BY <2>3
    <3> QED BY <2>2, <3>1, Zenon
  <2> QED BY <2>1, <2>4, <2>5
<1>6. TypeOK'
  BY <1>1, <1>3, <1>4, <1>5 DEF TypeOK, NotChanging
<1>7. TimesAreAhead'
  BY <1>1, <1>2, <1>5, DrawLemma DEF TimesAreAhead
<1> QED BY <1>6, <1>7 DEF IInv

LEMMA NextLemma == IInv /\ [Next]_vars => IInv'
<1> SUFFICES ASSUME IInv, [Next]_vars PROVE IInv'
  OBVIOUS
<1>1. CASE \E copy \in BOOLEAN : Execute(copy)
  BY <1>1, ExecuteStep
<1>2. CASE \E new \in SUBSET Kinds : BeginSettings(new)
  BY <1>2, BeginSettingsStep
<1>3. CASE FinishSettings
  BY <1>3, FinishSettingsStep
<1>4. CASE UNCHANGED vars
  BY <1>4 DEF vars, IInv, TypeOK, TimesAreAhead
<1> QED BY <1>1, <1>2, <1>3, <1>4 DEF Next

LEMMA InvariantLemma == Spec => []IInv
<1> QED BY InitLemma, NextLemma, PTL DEF Spec

-----------------------------------------------------------------------------
(* The theorems.                                                           *)

\* The times, counts and flags keep their types, through every instruction and every
\* change of settings.
THEOREM TypeCorrectness == Spec => []TypeOK
<1>1. IInv => TypeOK
  BY DEF IInv
<1> QED BY <1>1, InvariantLemma, PTL

\* World::iterate compares the times of cosmic rays and flaws for equality, so that one
\* in the past is never reached.  None is, of a kind whose rate is not 0, whatever
\* settings came and went, unless setSettings read the time and the world thread went
\* on before the delays were added.
THEOREM TimesAlwaysAhead == Spec => []TimesAreAhead
<1>1. IInv => TimesAreAhead
  BY DEF IInv
<1> QED BY <1>1, InvariantLemma, PTL
=============================================================================
