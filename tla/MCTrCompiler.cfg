SPECIFICATION FairSpec
CONSTANTS
  Texts <- MCTexts
  Literal <- MCLiteral
  ByteMax = 255
  JumpMax = 65535
  Joined = FALSE
CHECK_DEADLOCK FALSE
INVARIANT TypeOK
INVARIANT JumpsHeld
INVARIANT AcceptsGrammar
INVARIANT CodeBalanced
INVARIANT GroupsByLevel
INVARIANT NamesKept
INVARIANT DecodersAgree
PROPERTY CodeKept
PROPERTY CompileEnds
