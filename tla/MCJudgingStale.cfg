CONSTANTS
  Passages = {"p"}
  Retrieved <- MCRetrieved
  Shuffle <- MCShuffle
  AnswerTexts = {"covered"}
  ClaimLists <- MCClaimLists
  PassageLabels = {"relevant", "irrelevant"}
  Evaluators = {one}
  CacheFlags = {TRUE, FALSE}
  MaxCases = 2
  MaxVersions = 2
SPECIFICATION JudgingSpec
INVARIANTS VerdictIsForThisText
CHECK_DEADLOCK FALSE
