CONSTANTS
  Creatures = {c1, c2, c3}
  NoCreature = NoCreature
  Size = 6
  MaxRange = 6
SPECIFICATION SearchSpec
INVARIANT EveryPassAdvances
