\* Three genomes of one length are enough for an entry between two others; with 25
\* earlier entries the second new name carries into the digit of 26s.
SPECIFICATION FairSpec
CONSTANTS
  Genomes = {g1, g2, g3}
  NumIdentifiers = 3
  PriorCount = 25
  MaxPosted = 3
INVARIANT IdentifiersDistinct
INVARIANT EntriesDistinct
PROPERTY StoredIsKept
PROPERTY ReportedIsStored
