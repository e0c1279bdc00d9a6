------------------------------- MODULE Mutation -------------------------------
(***************************************************************************)
(* When the world mutates: cosmic rays and flawed instructions at times    *)
(* drawn ahead, which iterate compares for equality with the number of     *)
(* instructions executed, and copy errors after a number of copies.        *)
(*                                                                         *)
(* World::setSettings replaces the settings and draws all times again.     *)
(* The settings sheet calls it on the main thread, without the lock, so    *)
(* that the world thread may execute instructions between the two.         *)
(***************************************************************************)
EXTENDS Integers, FiniteSetsExt

CONSTANT MaxDelay  \* the longest delay that is drawn

ASSUME MutationAssumption == MaxDelay \in Nat \ {0}

VARIABLES rates,     \* mSettings: of which kinds the rate is not 0
          due,       \* of rays and flaws, the time drawn less the time that it is
          copies,    \* mCopyErrorPending, mCopiesSinceLastError, mNextCopyError
          changing,  \* the call of setSettings on the main thread
          raced,     \* history: the last such call drew from an old time
          done       \* history: what the last instruction was

vars == <<rates, due, copies, changing, raced, done>>

Timed == {"ray", "flaw"}
Kinds == Timed \cup {"copy"}
Delays == 1 .. MaxDelay

\* A time that has passed is never equal again, so how long ago does not matter.
Passed == -1
Until(t) == Max({t, Passed})

\* No call, or how many instructions were executed since it read the time.
NotChanging == -1

NothingDone == [copied |-> FALSE, mutated |-> FALSE, fired |-> {}]

\* A new soup, initialised with any settings. A time that is not drawn is 0, which
\* is what time it is.
Init == /\ rates \in SUBSET Kinds
        /\ due \in [Timed -> {0} \cup Delays]
        /\ \A k \in Timed : due[k] = 0 <=> k \notin rates
        /\ \E d \in Delays :
             copies = [pending |-> FALSE, since |-> 0,
                       next |-> IF "copy" \in rates THEN d ELSE 0]
        /\ changing = NotChanging
        /\ raced = FALSE
        /\ done = NothingDone

-----------------------------------------------------------------------------
(* One instruction of World::iterate.                                      *)

\* timeForCosmicRay, timeForFlaw
Fires(k) == k \in rates /\ due[k] = 0

\* Mutant of NextDue: the time is not drawn again.
NextDueOnce(k, d) == Until(due[k] - 1)

\* A time that is reached is drawn again; then the time goes on.
NextDue(k, d) == IF Fires(k) THEN d - 1 ELSE Until(due[k] - 1)

\* Mutant of NoteCopy: the count is compared for equality, as times are.
NoteCopyAtDelay(d) ==
  IF copies.pending THEN [pending |-> FALSE, since |-> 0, next |-> d]
  ELSE [copies EXCEPT !.since = Min({@ + 1, MaxDelay}),
                      !.pending = (copies.since + 1 = copies.next)]

\* noteInstructionCopy. A count beyond every delay is as good as the longest.
NoteCopy(d) ==
  IF copies.pending THEN [pending |-> FALSE, since |-> 0, next |-> d]
  ELSE [copies EXCEPT !.since = Min({@ + 1, MaxDelay}),
                      !.pending = (copies.since + 1 >= copies.next)]

\* An instruction that is a copy (mov_iab) is mutated if an error is pending.
Execute(copy) ==
  /\ done' = [copied |-> copy, mutated |-> copy /\ copies.pending,
              fired |-> {k \in Timed : Fires(k)}]
  /\ \E delay \in [Timed -> Delays] : due' = [k \in Timed |-> NextDue(k, delay[k])]
  /\ IF copy /\ "copy" \in rates THEN \E d \in Delays : copies' = NoteCopy(d)
     ELSE UNCHANGED copies
  /\ changing' = IF changing = NotChanging THEN NotChanging ELSE Min({changing + 1, MaxDelay + 1})
  /\ UNCHANGED <<rates, raced>>

-----------------------------------------------------------------------------
(* World::setSettings.                                                     *)

\* The settings are replaced, and computeNextMutationTimes reads the time.
BeginSettings(new) ==
  /\ changing = NotChanging
  /\ changing' = 0
  /\ rates' = new
  /\ UNCHANGED <<due, copies, raced, done>>

\* Mutant of Redrawn: the settings are replaced and no time is drawn.
RedrawnNever(k, d) == due[k]

Redrawn(k, d) == IF k \in rates THEN Until(d - changing) ELSE due[k]

\* The delays are drawn and added to the time that was read.
FinishSettings ==
  /\ changing # NotChanging
  /\ \E delay \in [Timed -> Delays] : due' = [k \in Timed |-> Redrawn(k, delay[k])]
  /\ \E d \in Delays : copies' = IF "copy" \in rates THEN [copies EXCEPT !.next = d] ELSE copies
  /\ raced' = (changing > 0)
  /\ changing' = NotChanging
  /\ UNCHANGED <<rates, done>>

Next ==
  \/ \E copy \in BOOLEAN : Execute(copy)
  \/ \E new \in SUBSET Kinds : BeginSettings(new)
  \/ FinishSettings

\* The world is iterated, and a call returns.
Fairness == WF_vars(\E copy \in BOOLEAN : Execute(copy)) /\ WF_vars(FinishSettings)

Spec == Init /\ [][Next]_vars /\ Fairness

-----------------------------------------------------------------------------
(* What must hold.                                                         *)

\* The types, stated for the proofs.
TypeOK ==
  /\ rates \subseteq Kinds
  /\ due \in [Timed -> Passed .. MaxDelay]
  /\ copies \in [pending : BOOLEAN, since : 0 .. MaxDelay, next : 0 .. MaxDelay]
  /\ changing \in NotChanging .. MaxDelay + 1
  /\ raced \in BOOLEAN
  /\ done \in [copied : BOOLEAN, mutated : BOOLEAN, fired : SUBSET Timed]

\* A time that will be compared for equality is not in the past, whatever settings
\* came and went, unless setSettings was overtaken by the world thread.
TimesAreAhead ==
  changing = NotChanging /\ ~raced => \A k \in Timed \cap rates : due[k] # Passed

\* Rays and flaws keep coming as long as their rate is not changed.
MutationsKeepComing ==
  \A k \in Timed :
    <>[](changing = NotChanging /\ ~raced /\ k \in rates) => []<>(k \in done.fired)

\* So do copy errors, as long as there are copies.
CopyErrorsKeepComing ==
  <>[](changing = NotChanging /\ "copy" \in rates) /\ []<>done.copied => []<>done.mutated
=============================================================================
