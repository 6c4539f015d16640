SPECIFICATION SlabSpec
CONSTANTS
  PageSize = 8
  SlabSize = 1
  NodeSize = 1
  BigObject = 3
  MaxPages = 5
  Allocator = {"descriptors", "structs", "small", "big", "huge"}
  Descriptors = "descriptors"
  Structs = "structs"
  size <- MCsize
  alignment <- MCalignment
INVARIANTS WellLaidOut BlocksAccounted
PROPERTY ImplementsPool
CHECK_DEADLOCK FALSE
