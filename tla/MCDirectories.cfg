SPECIFICATION ListingSpec
CONSTANTS
  boot = boot
  t1 = t1
  t2 = t2
  Thread = {boot, t1, t2}
  Boot = boot
  File = {root, f1, f2, f3}
  root = root
  Root = root
  None = None
  x = x
  xy = xy
  last = last
  Name = {x, xy, last}
  END_OF_ARCHIVE = END_OF_ARCHIVE
  Prefix <- MCPrefix
  Path <- MCPath
  MaxCalls <- MCMaxCalls
  Archives <- MCArchives
SYMMETRY MCSymmetry
CONSTRAINT MCPrinting
INVARIANTS Tree StaysFound PrintsTree NeverUndefined ArchiveLoaded
PROPERTY StableNames
CHECK_DEADLOCK FALSE
