CONSTANTS
  InputMax = 4
  Inputs <- MCInputs
  Letters = {"f", "n"}
  Digits = {"1"}
  BufMax = 5
SPECIFICATION FairSpec
INVARIANTS TypeOK FitsShortInput LinesExact
PROPERTIES TokensTile ReachesEnd
CHECK_DEADLOCK FALSE
