SPECIFICATION InterruptsSpec
CONSTANTS
  PageSize = 3
  Firmware <- MCFirmware
  Kernel <- MCKernel
  Modules <- MCModules
  HeaderBytes = 2
  None = None
  HeadBytes = 1
  DescriptorBytes = 1
  KernelSize = 48
  BigPage = 24
  TableEntries = 8
  PdEntries = 1
  Uncleared = Uncleared
  Thread = {t1, t2}
  First = t1
  Fault <- MCFault
  Raised <- MCRaised
  MaxNest = 3
CONSTRAINT MCOneStart
INVARIANTS MapExact MapBounded PagesExact BootstrapApart WindowsMapped TablesApart TicksComeThrough
CHECK_DEADLOCK FALSE
