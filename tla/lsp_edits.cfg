CONSTANTS
  Uris = {u1}
  MaxTasks = 3
  MaxTexts = 3
  Messages <- EditMessages
  WindowPrompt = TRUE
  CancelPrompt = FALSE
SPECIFICATION FairSpec
INVARIANT SettledFresh
PROPERTY DiagnosticsArrive
CHECK_DEADLOCK FALSE
