SPECIFICATION Spec
CONSTANTS
  Thread = {t1, t2, t3, t4}
  TicketMod = 4
INVARIANTS TypeOK MutualExclusion
PROPERTIES StarvationFree ServedInOrder
