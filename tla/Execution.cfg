SPECIFICATION Spec
CONSTANTS
  Size = 3
  WordSize = 32
  StackSize = 3
  MaxLength = 2
  Words <- MCWords
INVARIANTS TypeOK StackHoldsNewest
PROPERTIES ReturnsAfterCall ReturnsToOffset SearchesLeadPastComplement
