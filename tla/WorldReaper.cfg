CONSTANTS
  Creatures = {c1, c2, c3}
  NoCreature = NoCreature
  g1 = g1
  g2 = g2
  Genomes <- TwoGenomes
  NoGenome = NoGenome
  Length <- LengthOfTwo
  SoupSize = 3
  ReapThreshold = 2
  MinCreatureSize = 1
  SliceSizes <- BySize
  MaxErrors = 2
SPECIFICATION Spec
PROPERTY ReaperFollowsErrors
