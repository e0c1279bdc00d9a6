SPECIFICATION Spec
CONSTANTS
  Sizes = {6, 8}
  MaxTemplateLength = 3
  MaxSearchDist = 6
INVARIANTS TypeOK NearestIsFound FailsOnlyWithoutComplement
