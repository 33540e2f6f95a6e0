SPECIFICATION MainSpec
CONSTANTS
  Texts <- MCExample
  Literal <- MCLiteral
  ByteMax = 11
  JumpMax = 65535
  Joined = FALSE
  GlobalNames = {"print", "Hello", "x", "y", "z", "Hello World!", "Hi Guys"}
  FramesMax = 2
  LongMax = 20
CHECK_DEADLOCK FALSE
PROPERTY WholeScript
