CONSTANTS
  Files = {"mod", "doc"}
  IdOf <- MCIdOf
  KindOf <- MCKindOf
  DepthOf <- MCDepthOf
  ImportsOf <- MCImportsOf
  Missing = Missing
  Torn = Torn
  Branches = {main}
  Writers = {service, cli}
  People = {"ann"}
  Texts = {t}
  KindOfText <- MCKindOfText
  BoundTexts = {}
  Cues = {c}
  Absent = Absent
  Broken = Broken
  MaxSaves = 3
  SortedUsers <- MCSortedUsers
  Components = {"core"}
  Wordings = {"old"}
  Legacy <- MCLegacy
  Importers = {service, cli}
  Recorded = {"proposed", "superseded"}
  MaxDecisions = 2
  MaxTurns = 1
  Declared = {"f"}
  Invented = "ghost"
  Readers = {"owner", "ann"}
  Indexers = {one, two}
  KindSets <- MCKindSets
  MaxEdits = 1
  MaxSummaries = 2
  MaxBuilds = 2
  MaxSearches = 1
  Nodes = {"a", "b", "c"}
  Unknown = "unknown"
  Drafts <- MCDrafts
  Unreadable = Unreadable
  Rulings <- MCRulings
  Askers = {"", "ann"}
  HopCaps = {1, 2}
  MaxPlans = 1
  MaxRescans = 1
  Turns <- MCTurns
  MaxEvents = 6
  MaxRestarts = 1
  Passages = {"p", "q"}
  Retrieved <- MCRetrieved
  Shuffle <- MCShuffle
  AnswerTexts = {"covered"}
  ClaimLists <- MCClaimLists
  PassageLabels = {"irrelevant"}
  Evaluators = {one, two}
  CacheFlags = {TRUE}
  MaxCases = 2
  MaxVersions = 2
  Tools = {"search", "graph", "prune"}
  Scenarios <- MCScenarios
  Endings = {"answered", "max_steps"}
  RunsPerCase = 2
  Unit = 60
  MaxCalls = 3
  DocIds = {1, 2, 3}
  Depth = 2
  Cuts = {1, 3}
  ArmWeights <- MCArmWeights
  Given = {"answers", "related"}
  RrfUnit = 3782
  MaxQueries = 2
SPECIFICATION Spec
INVARIANT OrphansToldOnce
INVARIANT QuietMeansChecked
INVARIANT LegacySurvives
INVARIANT NothingLostAlone
INVARIANT AcceptedIsEarned
INVARIANT PrivateStaysPrivate
INVARIANT ImportedOnce
INVARIANT CorpusIsCoherent
INVARIANT PlanIsSound
INVARIANT PanelIsFaithful
INVARIANT VerdictsAreChecked
INVARIANT PassIsEarned
INVARIANT SearchIsFaithful
CHECK_DEADLOCK FALSE
