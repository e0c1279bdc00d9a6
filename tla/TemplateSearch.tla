--------------------------- MODULE TemplateSearch ---------------------------
(***************************************************************************)
(* Soup::seachForTemplate: the no-ops after a jump, call or address        *)
(* instruction are a template, and the soup is searched for its complement *)
(* forwards, backwards or both ways from the template.                     *)
(*                                                                         *)
(* The soup is circular and the searches take turns between loops that     *)
(* read past its end and faster ones that must not.  One pass of a loop is *)
(* one step; the soup does not change meanwhile.                           *)
(***************************************************************************)
EXTENDS Integers, Sequences, FiniteSetsExt

CONSTANTS Sizes,              \* of which a soup may be
          MaxTemplateLength,  \* kMaxTemplateLength
          MaxSearchDist       \* kMaxSearchDist

ASSUME SearchAssumption ==
  /\ Sizes \subseteq Nat \ {0}
  /\ MaxTemplateLength \in Nat \ {0}
  /\ MaxSearchDist \in Nat

VARIABLES soup,   \* mSoup
          search  \* the arguments and local variables of a call

vars == <<soup, search>>

Size == Cardinality(DOMAIN soup)  \* mSoupSize
Addresses == DOMAIN soup
Nops == {0, 1}
Other == 2   \* any instruction that is not a no-op
Directions == {"forwards", "backwards", "both"}

Idle == [pc |-> "idle"]
Running == search.pc = "running"

\* Creatures only search from an instruction that searches.
Init == /\ \E size \in Sizes : soup \in [0 .. size - 1 -> Nops \cup {Other}]
        /\ \E a \in Addresses : soup[a] = Other
        /\ search = Idle

-----------------------------------------------------------------------------
(* The call.                                                               *)

\* How many no-ops are read from an address on.
TemplateLength(start) ==
  LET ends == {i \in 0 .. MaxTemplateLength : soup[(start + i) % Size] \notin Nops}
  IN  IF ends = {} THEN MaxTemplateLength + 1 ELSE Min(ends)

Refused(length) == length = 0 \/ length = MaxTemplateLength

Complement(start, length) ==
  [i \in 1 .. length |-> 1 - soup[(start + i - 1) % Size]]

\* Mutant of Reach: the last address is left out.
ReachShort == Min({Size - 2, MaxSearchDist})

Reach == Min({Size - 1, MaxSearchDist})  \* maxSearchDistance

\* The caller passes referencedLocation() + 1, which is Size and not 0 when the
\* instruction is in the last byte.
SearchForTemplate(ip, direction) ==
  LET start == ip + 1
      length == TemplateLength(start)
  IN  /\ search = Idle
      /\ soup[ip] = Other
      /\ search' = IF Refused(length)
                   THEN [pc |-> "failed", template |-> <<>>]
                   ELSE [pc |-> "running", template |-> Complement(start, length),
                         direction |-> direction, start |-> start,
                         phase |-> 1, offset |-> 0, address |-> start]
      /\ UNCHANGED soup

-----------------------------------------------------------------------------
(* One pass of a loop, as functions from s to the next search.             *)

Found(s, location) == [s EXCEPT !.pc = "found", !.address = location]
Failed(s) == [s EXCEPT !.pc = "failed"]

MatchesAt(a, template) ==
  \A i \in 1 .. Len(template) : soup[(a + i - 1) % Size] = template[i]

\* Defined only where nothing past the end of the soup is read.
MatchesNonWrapping(a, template) ==
  \A i \in 1 .. Len(template) : soup[a + i - 1] = template[i]

\* The one-way searches are four loops.  The odd ones go on while the template
\* fits before the end of the soup, the even ones while it does not.
FitsBeforeEnd(s) == s.address + Len(s.template) <= Size
OddPhase(s) == s.phase % 2 = 1

\* Mutant of Looping: one address more.
LoopingOnce(s) == s.offset <= Reach /\ (FitsBeforeEnd(s) <=> OddPhase(s))

Looping(s) == s.offset < Reach /\ (FitsBeforeEnd(s) <=> OddPhase(s))

NextPhase(s) == IF s.phase = 4 THEN Failed(s) ELSE [s EXCEPT !.phase = @ + 1]

\* The last loop forwards declares another curAddress, which hides the one its
\* condition reads.
ForwardAddress(s) == IF s.phase = 4 THEN (s.start + s.offset) % Size ELSE s.address

\* Mutant of NextForward: the second loop goes on past the end.
NextForwardUnwrapped(s) == s.address + 1

NextForward(s) == CASE OddPhase(s)  -> s.address + 1
                    [] s.phase = 2  -> (s.start + s.offset + 1) % Size
                    [] s.phase = 4  -> s.address

ForwardPass(s) ==
  LET a == ForwardAddress(s)
      matches == IF OddPhase(s) THEN MatchesNonWrapping(a, s.template)
                                ELSE MatchesAt(a, s.template)
  IN  CASE ~Looping(s) -> NextPhase(s)
        [] Looping(s) /\ matches -> Found(s, a)
        [] OTHER -> [s EXCEPT !.offset = @ + 1, !.address = NextForward(s)]

\* Mutant of StepBack: below address 0 comes the last place where the template
\* does not wrap.
StepBackToFit(s) ==
  IF OddPhase(s) /\ s.address = 0
  THEN [s EXCEPT !.address = Size - Len(s.template), !.phase = @ + 1]
  ELSE [s EXCEPT !.address = @ - 1]

\* Below address 0 comes the last one, and the loop is left.
StepBack(s) ==
  IF OddPhase(s) /\ s.address = 0
  THEN [s EXCEPT !.address = Size - 1, !.phase = @ + 1]
  ELSE [s EXCEPT !.address = @ - 1]

BackwardPass(s) ==
  LET matches == IF OddPhase(s) THEN MatchesNonWrapping(s.address, s.template)
                                ELSE MatchesAt(s.address, s.template)
  IN  CASE ~Looping(s) -> NextPhase(s)
        [] Looping(s) /\ matches -> Found(s, s.address)
        [] OTHER -> StepBack([s EXCEPT !.offset = @ + 1])

\* Up to here neither side of a search both ways wraps.
WrapOffset(s) ==
  LET room == Size - s.start - Len(s.template)
  IN  Min({IF room >= 0 THEN room ELSE 0, s.start, Reach})

BothWaysPass(s) ==
  LET wraps == s.offset >= WrapOffset(s)
      fore == IF wraps THEN (s.start + s.offset) % Size ELSE s.start + s.offset
      back == IF wraps THEN (s.start + Size - s.offset) % Size ELSE s.start - s.offset
      Matches(a) == IF wraps THEN MatchesAt(a, s.template) ELSE MatchesNonWrapping(a, s.template)
  IN  CASE s.offset >= Reach -> Failed(s)
        [] s.offset < Reach /\ Matches(fore) -> Found(s, fore)
        [] s.offset < Reach /\ ~Matches(fore) /\ Matches(back) -> Found(s, back)
        [] OTHER -> [s EXCEPT !.offset = @ + 1]

SearchPass ==
  /\ Running
  /\ search' = CASE search.direction = "forwards"  -> ForwardPass(search)
                 [] search.direction = "backwards" -> BackwardPass(search)
                 [] search.direction = "both"      -> BothWaysPass(search)
  /\ UNCHANGED soup

SearchReturns == /\ search.pc \in {"found", "failed"}
                 /\ search' = Idle
                 /\ UNCHANGED soup

Next ==
  \/ \E ip \in Addresses, direction \in Directions : SearchForTemplate(ip, direction)
  \/ SearchPass
  \/ SearchReturns

Spec == Init /\ [][Next]_vars

-----------------------------------------------------------------------------
(* What must hold.                                                         *)

\* A place that is looked at, or found, is an address, or Size for address 0.
TypeOK ==
  /\ soup \in [0 .. Size - 1 -> Nops \cup {Other}]
  /\ search.pc \in {"idle", "running", "found", "failed"}
  /\ search.pc # "idle" => search.template \in UNION {[1 .. n -> Nops] : n \in 0 .. MaxTemplateLength + 1}
  /\ Running \/ search.pc = "found" =>
       /\ search.direction \in Directions
       /\ search.start \in 1 .. Size
       /\ search.phase \in 1 .. 4
       /\ search.offset \in 0 .. Reach
       /\ search.address \in 0 .. Size

\* Whose complement was searched for: a search that was not refused.
Searched == search.pc \in {"found", "failed"} /\ search.template # <<>>

\* The address k bytes from the template, to one side.
Forward(k) == (search.start + k) % Size
Backward(k) == (search.start + Size - k) % Size

Sides(k) == CASE search.direction = "forwards"  -> {Forward(k)}
              [] search.direction = "backwards" -> {Backward(k)}
              [] search.direction = "both"      -> {Forward(k), Backward(k)}

HitAt(k) == \E a \in Sides(k) : MatchesAt(a, search.template)
Hits == {k \in 0 .. Reach - 1 : HitAt(k)}

\* The place found is the nearest complement in the direction of the search, the
\* one forwards if there are two as near; without one within the distance, the
\* search fails.  Four loops, or two, give what one loop over the distance would.
NearestIsFound ==
  Searched =>
    IF Hits = {} THEN search.pc = "failed"
    ELSE LET k == Min(Hits)
             nearest == IF Forward(k) \in Sides(k) /\ MatchesAt(Forward(k), search.template)
                        THEN Forward(k) ELSE Backward(k)
         IN  search.pc = "found" /\ search.address % Size = nearest

\* A search that no limit cuts short fails only if the complement is nowhere in
\* the soup, though no loop looks at the last address it could: forwards that is
\* the instruction's own, and backwards it is in a template that the next
\* instruction ends.
FailsOnlyWithoutComplement ==
  /\ Searched /\ search.pc = "failed"
  /\ MaxSearchDist >= Size
  /\ Len(search.template) <= MaxTemplateLength
  => \A a \in Addresses : ~MatchesAt(a, search.template)
=============================================================================
