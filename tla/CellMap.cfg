CONSTANTS
  Creatures = {c1, c2, c3}
  NoCreature = NoCreature
  Size = 6
SPECIFICATION Spec
SYMMETRY Symmetry
INVARIANTS TypeOK CellsInOrder UsedIsOwned
PROPERTIES ImplementsOwnership ImplementsCellSpace
