SPECIFICATION Spec
CONSTANTS
  Texts <- MCScopes
  Literal <- MCLiteral
  ByteMax = 255
  JumpMax = 65535
  Joined = TRUE
CHECK_DEADLOCK FALSE
INVARIANT SlotsAreLocals
INVARIANT ScopesAsWritten
