SPECIFICATION Spec
CONSTANTS
  Combine <- MCCombine
  Change <- MCChange
  ChangeAt <- MCChangeAt
  Keep <- MCKeep
  MapKeys = {1, 2, 3, 4}
  SetKeys = {1, 2, 3, 4, 5, 6, 7}
  MapVals = {0, 1}
  MapLists <- MCMapLists
  SetLists <- MCSetLists
  MaxSeq = 12
  SeqOperands = {0, 4, 9}
  SeqLists = {5, 30}
  SeqKeep <- MCSeqKeep
  BufKeys = {1, 2, 3}
  ListLen = 4
  BufLen = 2
  MaxHandles = 3
  Literals <- MCLiterals
  Packed <- MCPacked
  MaxBytes = 4
  IntBits = 5
  Mantissa = 4
  Operands <- MCOperands
  JsonInts = {0, 1, 7, 15}
  Foreign <- MCForeign
  MaxNest = 2
  MaxJSONDepth = 1
INVARIANTS
  CollectionsAgree VersionsIntact SequencesAgree BuffersAgree TextAgrees NumbersAgree JsonAgrees
