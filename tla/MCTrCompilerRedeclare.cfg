SPECIFICATION Spec
CONSTANTS
  Texts <- MCRedeclare
  Literal <- MCLiteral
  ByteMax = 255
  JumpMax = 65535
  Joined = FALSE
CHECK_DEADLOCK FALSE
INVARIANT NeverRedeclares
