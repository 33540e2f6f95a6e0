SPECIFICATION FairMainSpec
CONSTANTS
  Texts <- MCPrograms
  Literal <- MCLiteral
  ByteMax = 11
  JumpMax = 65535
  Joined = FALSE
  GlobalNames = {"print", "clock", "x", "y", "s"}
  FramesMax = 1
  LongMax = 3
CHECK_DEADLOCK FALSE
INVARIANTS RunsDefined ComputesText
PROPERTY MainEnds
