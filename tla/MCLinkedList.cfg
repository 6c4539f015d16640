SPECIFICATION Spec
CONSTANTS
  ListHead = {g, h}
  Node = {n1, n2, n3}
INVARIANTS WellLinked SizesAddUp
PROPERTY ImplementsSequence
