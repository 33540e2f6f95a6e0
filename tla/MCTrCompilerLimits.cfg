SPECIFICATION Spec
CONSTANTS
  Texts <- MCLimits
  Literal <- MCLiteral
  ByteMax = 3
  JumpMax = 15
  Joined = TRUE
CHECK_DEADLOCK FALSE
INVARIANT CodeBalanced
INVARIANT NamesKept
