SPECIFICATION Spec
CONSTANTS
  Bits = 8
  Limit <- MCLimit
  Text <- MCText
  NULL = NULL
INVARIANT WithinBuffer
CHECK_DEADLOCK FALSE
