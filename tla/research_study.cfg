SPECIFICATION FairSpec
CONSTANTS
  tradeOff = tradeOff
  single = single
  process1 = process1
  process2 = process2
  Processes = {process1, process2}
  Protocols = {tradeOff, single}
  NoProtocol = NoProtocol
  Directions <- MCDirections
  Evaluations <- MCEvaluations
  MaxTrials <- MCMaxTrials
  RandomSampled = {single}
  StopsEarly = {single}
  FoldConfig <- MCFoldConfig
  Priority <- MCPriority
  MaxSearches = 2
  MaxKills = 1
INVARIANTS
  TypeOK
  BudgetKept
  CompleteIsPublished
  OneProtocolPerStudy
  FrozenIsBest
  OpenedOnceUnlessRaced
  FoldsAreSound
PROPERTIES
  HoldoutSealed
  ResumedStudyCompletes
CHECK_DEADLOCK FALSE
