SPECIFICATION Spec
CONSTANTS
  CollectionCycles = 2
  MaxDataCount = 4
  MaxCycle = 30
INVARIANTS TypeOK EvenlySpaced GapsBounded
