SPECIFICATION Spec
CONSTANTS
  Thread = {main, t1, t2}
  Main = main
  Value = {v1, v2}
  NoThread = NoThread
  NoValue = NoValue
  Quantum = 2
  MaxNest = 1
  Spawners = {main, t1}
  HeapUsers = {main, t1}
SYMMETRY MCSymmetry
INVARIANTS TypeOK LockDiscipline Suspended StackAlive RingMembers
PROPERTY ImplementsService
CHECK_DEADLOCK FALSE
