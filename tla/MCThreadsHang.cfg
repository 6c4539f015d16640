SPECIFICATION Spec
CONSTANTS
  Thread = {main, t1}
  Main = main
  Value = {v1}
  NoThread = NoThread
  NoValue = NoValue
  Quantum = 2
  MaxNest = 1
  Spawners = {main}
  HeapUsers = {main}
INVARIANT NoHang
