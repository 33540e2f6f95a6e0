CONSTANTS
  Funcs <- MCFuncs
  Scripts <- MCScripts
  Names = {"print", "f", "g", "r", "x"}
  FramesMax = 2
  ByteMax = 4
  LongMax = 1
SPECIFICATION FairSpec
INVARIANTS TypeOK OnlyDeclared
PROPERTY RunsEnd
CHECK_DEADLOCK FALSE
