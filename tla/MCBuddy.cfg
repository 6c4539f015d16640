SPECIFICATION Spec
CONSTANTS
  descriptors_size = 8
  Memories <- MCMemories
  PagesOf <- MCPagesOf
  Garbage <- MCGarbage
  MaxRequest = 2
INVARIANTS TypeOK Conserved BuddyKnown Coalesced
PROPERTY ImplementsPageAllocator
