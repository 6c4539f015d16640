SPECIFICATION FairSpec
CONSTANTS
  Thread = {main, t1, t2}
  Main = main
  Value = {v1}
  NoThread = NoThread
  NoValue = NoValue
  Quantum = 1
  MaxNest = 1
  Spawners = {main}
  HeapUsers = {}
PROPERTIES ServiceProgress Turn Reclaimed
