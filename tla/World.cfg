CONSTANTS
  Creatures = {c1, c2, c3}
  NoCreature = NoCreature
  g1 = g1
  g2 = g2
  Genomes <- TwoGenomes
  NoGenome = NoGenome
  Length <- LengthOfTwo
  SoupSize = 4
  ReapThreshold = 3
  MinCreatureSize = 1
  SliceSizes <- BySize
  MaxErrors = 2
SPECIFICATION FairSpec
INVARIANTS TypeOK QueuesHoldAdults EmbryosHaveOneParent SpaceAccounted AliveCountsMembers MembersWereBornSo
PROPERTIES ImplementsRoundRobin EveryoneGetsTime
