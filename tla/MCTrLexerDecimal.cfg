CONSTANTS
  InputMax = 3
  Inputs <- MCDecimal
  Letters = {"f", "n"}
  Digits = {"1"}
  BufMax = 6
SPECIFICATION Spec
INVARIANT DecimalIsFloat
