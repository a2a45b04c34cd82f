\* Every part of Platform at its own bounds.
SPECIFICATION PlatformSpec
CONSTANTS
  Lists = {l1, l2}
  Resets = {r1, r2}
  Templates = {t1, t2}
  Serial = TRUE
  Faults = TRUE
  MaxRestarts = 2
  Sources = {worker, main}
  Subscribers = {p}
  MaxQueue = 1
  MaxBuffer = 1
  MaxRecords = 4
  MaxStrikes = 2
  Services = {"ai_foundry", "search"}
  Callers = {c1, c2}
  TTL = 1
  MaxTime = 2
  MaxChanges = 1
  Bearers = {b1, b2}
  Kids = {"k1", "k2"}
  Signer <- MCSigner
  Tenants = {"t1", "t2"}
  KeyAge = 1
  MaxHours = 2
  MaxRotations = 1
  Scenarios = {"a", "b"}
  PromptTokens <- MCPromptTokens
  Tokens = {1, 3}
  Budget = 8
  TurnLimits = {0, 1}
  MaxMessages = 8
  Packs = {"a", "b"}
  WithFiles = {"a", "b"}
  Localized = {"b"}
  Default = "a"
  Users = {"u"}
  Swaps = {"r", "s"}
  ScopeMax = 1
  AgentsMax = 1
  MaxEdits = 1
  ToolCalls = {x, y}
  Permits = 1
  Max429 = 1
  MaxColdstarts = 1
  MaxContinuations = 2
  Trip = 1
  MaxClients = 4
  MaxCooldowns = 2
  MaxRounds = 2
  MaxPass = 3
  People = {u, v}
  AgentCount = 1
  MaxSessions = 3
  MaxObjects = 4
  MaxSaves = 1
  MaxStarts = 1
  Names = {m, n}
  Guests = {g, h}
  MaxVersions = 2
  MaxMade = 2
  MaxAgents = 3
  Chars <- MCChars
  Histories <- MCHistories
  MockText <- MCMockText
  AfterTool <- MCAfterTool
  MockCalls = 2
  CallIndexes = {1, 2}
  Fragments = 2
  MaxChunks = 3
  Talks = {s1, s2}
  Links = {l1}
  Paths = {p1}
  Questions <- MCQuestions
  RESPONSE_CATALOG <- MCCatalogue
  ShortWords = {0}
  Threshold <- MCThreshold
  MaxActions = 2
  MaxSeconds = 1
SYMMETRY MCSymmetry
INVARIANT NoDuplicates
INVARIANT NothingLostUnseen
INVARIANT VerdictIsFresh
INVARIANT KeysServe
INVARIANT ContextIsRight
INVARIANT ScenariosDoNotMix
INVARIANT AdaptersLeaveNothing
INVARIANT AnswerHasText
INVARIANT SessionsStayApart
INVARIANT CatalogFollowsConfig
INVARIANT AnswersAreWhole
INVARIANT OverridesFollowLog
\* A part may come to its end.
CHECK_DEADLOCK FALSE
