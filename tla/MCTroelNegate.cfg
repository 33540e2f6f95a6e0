SPECIFICATION MainSpec
CONSTANTS
  Texts <- MCNegate
  Literal <- MCLiteral
  ByteMax = 11
  JumpMax = 65535
  Joined = FALSE
  GlobalNames = {"print", "x"}
  FramesMax = 1
  LongMax = 3
CHECK_DEADLOCK FALSE
PROPERTY NegateTruthful
