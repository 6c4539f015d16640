SPECIFICATION StackSpec
CONSTANTS
  descriptors_size = 8
  Memories <- MCMemories
  PagesOf <- MCPagesOf
  Garbage <- MCGarbage
  MaxRequest = 1
  StackLevel = 1
  StackSizeLog = 2
INVARIANT StacksDisjoint
