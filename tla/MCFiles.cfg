SPECIFICATION Spec
CONSTANTS
  PageSize = 2
  File = {f}
  Descriptor = {d1, d2}
  a = a
  b = b
  Byte = {a, b}
  Buffer <- MCBuffer
  Garbage = Garbage
  Flags <- MCFlags
  Free = Free
  MaxSize = 5
  MaxRead = 2
  PagesOf <- MCPagesOf
INVARIANTS TypeOK BlockFits
PROPERTY ImplementsContents
