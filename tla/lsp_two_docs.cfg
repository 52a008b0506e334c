CONSTANTS
  Uris = {u1, u2}
  MaxTasks = 2
  MaxTexts = 2
  Messages <- AllMessages
  WindowPrompt = FALSE
  CancelPrompt = FALSE
SPECIFICATION Spec
INVARIANTS TypeOK OneLiveDiagnose NoLostTimer ReturnDrains
CHECK_DEADLOCK FALSE
