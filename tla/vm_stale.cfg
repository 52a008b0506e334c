SPECIFICATION Spec
CONSTANTS
  Programs <- StalePrograms
  FrameCap = 64
  isList <- IsListVal
  toSlice <- listToSlice
  fromSlice <- buildList
INVARIANT FrameWritesLand
CHECK_DEADLOCK FALSE
