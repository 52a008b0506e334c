SPECIFICATION Spec
CONSTANTS
  Programs <- ShadowPrograms
  FrameCap = 64
  isList <- IsListVal
  toSlice <- listToSlice
  fromSlice <- buildList
INVARIANT InnermostBinder
CHECK_DEADLOCK FALSE
