CONSTANTS
  k1 = k1
  k2 = k2
  k3 = k3
  k4 = k4
  Keys = {k1, k2, k3, k4}
  Values = {nil, dead}
  Nil = nil
  Deleted = dead
  NULL = NULL
  Hash <- MCHash
  Growth = 2
SPECIFICATION FairSpec
INVARIANTS TypeOK CountExact ProbeMeetsEmptySlot KeysUnique KeysReachable TableInv
PROPERTIES ImplementsMap CallsReturn
