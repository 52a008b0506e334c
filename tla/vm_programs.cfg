SPECIFICATION Spec
CONSTANTS
  Programs <- MCPrograms
  FrameCap = 64
  isList <- IsListVal
  toSlice <- listToSlice
  fromSlice <- buildList
INVARIANTS TypeOK FramesConsistent TailLoopsFlat Agrees
PROPERTIES SavedCapsIntact LimitsEscape Terminates
CHECK_DEADLOCK FALSE
