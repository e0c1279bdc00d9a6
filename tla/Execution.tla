------------------------------ MODULE Execution ------------------------------
(***************************************************************************)
(* One creature's Cpu, as ExecutionUnit0::execute changes it: the          *)
(* instruction pointer, which is an offset from the creature's location,   *)
(* the stack, a ring, and the arithmetic on 32 bits between offsets and    *)
(* addresses of the circular soup.                                         *)
(*                                                                         *)
(* Each action is one call of execute.  What a template search returns is  *)
(* free; TemplateSearch says what it is.  The registers are not followed:  *)
(* what they hold is any of a set of words.                                *)
(***************************************************************************)
EXTENDS Integers, SequencesExt

CONSTANTS Size,       \* soupSize()
          WordSize,   \* 2^32
          StackSize,  \* kStackSize
          MaxLength,  \* of a template that a search accepts
          Words       \* what registers may hold

ASSUME ExecutionAssumption ==
  /\ Size \in Nat \ {0}
  /\ StackSize \in Nat \ {0}
  /\ MaxLength \in 1 .. Size - 1
  /\ WordSize \in Nat /\ WordSize > 8 * Size
  /\ Words \subseteq Int
  /\ \A d \in Words : 2 * d < WordSize /\ 2 * (1 - d) < WordSize

VARIABLES location,  \* mLocation
          cpu,       \* mCPU
          pending    \* history: the newest values on the stack, newest last

vars == <<location, cpu, pending>>

Addresses == 0 .. Size - 1

\* A value that a call pushed comes with the address execution should return to.
NoAddress == -1
Value(d) == [value |-> d, address |-> NoAddress]
ReturnTo(d, a) == [value |-> d, address |-> a]

Init == /\ location \in Addresses
        /\ cpu = [ip |-> 0, flag |-> FALSE,
                  stack |-> [i \in 0 .. StackSize - 1 |-> 0], sp |-> 0]
        /\ pending = <<>>

-----------------------------------------------------------------------------
(* Offsets and addresses.                                                  *)

\* (mLocation + inOffset + soupSize) % soupSize, all unsigned.
AddressFromOffset(o) == ((location + o + Size) % WordSize) % Size

\* Mutant of OffsetFromAddress.
OffsetUnwrapped(a) == a - location

OffsetFromAddress(a) == (a + Size - location) % Size

ReferencedLocation == AddressFromOffset(cpu.ip)

\* Mutant of IncrementIP: the end of the soup is not seen.
IncrementIPOnly(c) == [c EXCEPT !.ip = @ + 1]

\* Unsigned again: a negative pointer counts back from 2^32, not from the size.
IncrementIP(c) == [c EXCEPT !.ip = ((@ + 1) % WordSize) % Size]

-----------------------------------------------------------------------------
(* The stack.                                                              *)

\* Mutant of Push: the pointer stops at the last entry.
PushFull(c, d) ==
  [c EXCEPT !.stack[c.sp] = d, !.sp = IF @ = StackSize - 1 THEN @ ELSE @ + 1]

Push(c, d) == [c EXCEPT !.stack[c.sp] = d, !.sp = (@ + 1) % StackSize]

Top(c) == c.stack[(c.sp + StackSize - 1) % StackSize]
Popped(c) == [c EXCEPT !.sp = (@ + StackSize - 1) % StackSize]

\* The stack keeps its StackSize newest values.
NotePush(entry) ==
  LET all == Append(pending, entry)
  IN  pending' = SubSeq(all, Len(all) - Min({Len(all), StackSize}) + 1, Len(all))

NotePop == pending' = IF pending = <<>> THEN <<>> ELSE Front(pending)

-----------------------------------------------------------------------------
(* execute: the flag is cleared, the instruction has its effect, and the   *)
(* pointer is incremented.                                                 *)

Start == [cpu EXCEPT !.flag = FALSE]
SetFlag(c) == [c EXCEPT !.flag = TRUE]
Done(c) == cpu' = IncrementIP(c) /\ UNCHANGED location

\* No-ops, and what only computes on registers.
Compute == Done(Start) /\ UNCHANGED pending

\* mov_iab, mal and divide: their effect is not the cpu's, but they can fail.
CopyAllocateDivide == (Done(Start) \/ Done(SetFlag(Start))) /\ UNCHANGED pending

\* k_if_cz, with cx not zero.
SkipNext == Done(IncrementIP(Start)) /\ UNCHANGED pending

PushRegister(d) == Done(Push(Start, d)) /\ NotePush(Value(d))

PopRegister == Done(Popped(Start)) /\ NotePop

\* What seachForTemplate may return, with the length it leaves the caller's
\* variable at: 0 if it refused the template.
Found == [found : {TRUE}, location : 0 .. Size, length : 1 .. MaxLength]
NotFound == [found : {FALSE}, length : 0 .. MaxLength]

\* One less than the place right after the complement, as the pointer is still
\* to be incremented.
AfterComplement(r) == OffsetFromAddress((r.location + r.length + Size - 1) % Size)

Jump(r) ==
  /\ Done(IF r.found THEN [Start EXCEPT !.ip = AfterComplement(r)]
                     ELSE SetFlag([Start EXCEPT !.ip = @ + r.length]))
  /\ UNCHANGED pending

\* Where a call returns to: right after its template.
AfterTemplate(length) == (ReferencedLocation + 1 + length) % Size

\* Mutant of ReturnOffset, without the "+ 1" that the code asks to verify.
ReturnOffsetAtEnd(length) == cpu.ip + length

ReturnOffset(length) == cpu.ip + length + 1

\* A call without a template pushes all the same, and goes on.
Call(r) ==
  IF r.found \/ r.length = 0
  THEN /\ Done([Push(Start, ReturnOffset(r.length))
                  EXCEPT !.ip = IF r.found THEN AfterComplement(r) ELSE @])
       /\ NotePush(ReturnTo(ReturnOffset(r.length), AfterTemplate(r.length)))
  ELSE /\ Done(SetFlag([Start EXCEPT !.ip = @ + r.length]))
       /\ UNCHANGED pending

\* Mutant of Return: the increment to come is forgotten.
ReturnPast == Done([Popped(Start) EXCEPT !.ip = Top(Start)]) /\ NotePop

Return == Done([Popped(Start) EXCEPT !.ip = Top(Start) - 1]) /\ NotePop

\* What adr, adrb and adrf leave in ax.
FoundOffset(r) == OffsetFromAddress(r.location + r.length)

Address(r) ==
  /\ Done(IF r.found THEN [Start EXCEPT !.ip = @ + r.length] ELSE SetFlag(Start))
  /\ UNCHANGED pending

Next ==
  \/ Compute
  \/ CopyAllocateDivide
  \/ SkipNext
  \/ \E d \in Words : PushRegister(d)
  \/ PopRegister
  \/ \E r \in Found \cup NotFound : Jump(r) \/ Call(r) \/ Address(r)
  \/ Return

Spec == Init /\ [][Next]_vars

-----------------------------------------------------------------------------
(* What must hold.                                                         *)

\* Between instructions the pointer is an offset within the soup; getSoupInstruction
\* reads where it leads.
TypeOK ==
  /\ location \in Addresses
  /\ cpu.ip \in Addresses
  /\ cpu.flag \in BOOLEAN
  /\ cpu.sp \in 0 .. StackSize - 1
  /\ cpu.stack \in [0 .. StackSize - 1 -> Int]
  /\ Len(pending) <= StackSize

\* The ring holds the newest values pushed and not popped: more pushes than it
\* has entries lose the oldest ones only.
StackHoldsNewest ==
  \A i \in 1 .. Len(pending) :
    cpu.stack[(cpu.sp + StackSize - i) % StackSize] = pending[Len(pending) + 1 - i].value

\* A return that pops what a call pushed goes on right after that call's template,
\* however many calls, pushes and pops there were between, and wherever in the
\* soup both are.
ReturnsAfterCall ==
  [][Return /\ pending # <<>> /\ Last(pending).address # NoAddress
       => ReferencedLocation' = Last(pending).address]_vars

\* A jump or a call goes on right after the complement, and ax is given the offset
\* of that place.
SearchesLeadPastComplement ==
  [][\A r \in Found :
       LET past == (r.location + r.length) % Size
       IN  /\ Jump(r) => ReferencedLocation' = past
           /\ Call(r) => ReferencedLocation' = past
           /\ Address(r) => AddressFromOffset(FoundOffset(r)) = past]_vars

\* A return to an offset goes where a copy to or from that offset would, except
\* to negative offsets in a soup whose size does not divide 2^32.
ReturnsToOffset ==
  [][Return /\ (Top(cpu) >= 0 \/ WordSize % Size = 0)
       => ReferencedLocation' = AddressFromOffset(Top(cpu))]_vars
=============================================================================
