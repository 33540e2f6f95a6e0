CONSTANTS
  Funcs <- MCFuncs
  Scripts <- MCScripts
  Heights <- MCHeights
  Names = {"clock", "print", "g", "deep"}
  FramesMax = 3
  ByteMax = 4
  LongMax = 1
SPECIFICATION Spec
INVARIANTS UndefinedOnlyByPrint HeightsHold LeavesNothing NothingWild
PROPERTY ImplementsWindows
CHECK_DEADLOCK FALSE
