SPECIFICATION Spec
CONSTANTS
  Order <- MCOrder
  MaxRounds = 2
  MaxTurns = 2
  MaxChild = 2
  MaxSessions = 3
  Requests = {"p", "q", "r"}
  Tokens = {"k"}
  MaxTasks = 2
  Limit = 2
  RunIds = {"x", "y", "z"}
  BranchOf <- MCCut
  MaxCommits = 2
  Batches <- ToolBatches
  Settings <- ToolSettings
  Profiles <- MCProfiles
  Minute = 3
  Keep = 2
  MaxTalk = 4
  MaxCalls = 2
  Items = {1, 2}
  Spaces = {"s", "t"}
  Handlers = {"g", "h"}
  PageSize = 1
  MaxUses = 2
  Members = {"m", "n"}
  ServerNames = {"a", "b"}
  GuideSteps = {"s", "t"}
  MaxRequests = 4
  Ids = {1, 2}
  MaxWrites = 2
  BatchSize = 1
  Writers = {"u", "v", "w"}
  ModelNames = {"m", "n"}
  Plugins <- MCPlugins
  Lists <- PluginLists
  Files = {"f"}
  Texts <- IndexTexts
  Edits <- MCEdits
  Size = 2
  Overlap = 1
  MaxEdits = 1
  MaxBuilds = 2
  MaxEvents = 4
  MaxLen = 2
  ReadCount = 2
  MaxLinkRetries = 1
  Stories <- PageStories
  Kept = 6
INVARIANTS
  TypeOK
  NothingSkipped
  TerminalKeepsOrder
  SuccessIsEarned
  StoresAgree
  PlacesAgree
  CatalogKeepsOrder
  PageIsHonest
  ResultIsFinal
  RateIsBounded
  ConversationIsSound
  ComposedByNeed
PROPERTIES
  FollowEnds
CHECK_DEADLOCK FALSE
