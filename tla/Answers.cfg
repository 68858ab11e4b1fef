SPECIFICATION AnswerSpec
CONSTANTS
  Prose = {"plain", "word", "head", "blank", "fence", "wide"}
  Tables = {"word", "row", "long", "sep", "fence"}
  Code = {"decl", "inner", "note", "noted"}
  Lines = 5
  ChunkSize = 7
  Overlap = 2
  Window = 6
  Margin = 3
  MaxSections = 2
  MaxChunks = 12
  EmbedContext = 4
  RerankContext = 4
  GenerateContext = 6
  TokenMargin = 1
  MaxExpansion = 3
  BytesPerToken = 3
  MaxBytes = 5
  MaxTexts = 3
  Situations <- NearSituations
  Points = 5
  CollectionOf <- NearColl
  TooBig = {"z"}
  Cuts <- NearCuts
  Searches <- NearSearches
  RuleSets <- NearRules
  AgeWeights <- NearAges
  OverFetch = 1
  SourceCap = 2
  AgePool <- NearPool
  Writes = 1
  Ranked = 5
  MaxSearchLimit = 4
  PoolFactor = 2
  PoolCap = 5
  Sections <- ToolSections
  PerFile = {1, 2}
  Limits = {0, 1, 2, 9}
  Lost = 1
  Bodies <- ToolBodies
  Wide = {4}
  DefaultMaxLines = 2
  MaxDocBytes = 8
  LineSuffixes <- ToolSuffixes
  Asked <- ToolAsked
  Corpus <- ToolCorpus
  Patterns <- ToolPatterns
  NotAGlob = NotAGlob
  MaxDistinctPaths = 2
  Scopes <- ToolScopes
  Folded <- ToolFolded
  NeedleBatch = 1
  MaxDocs = 2
  TotalBytes = 9
  MaxNoted = 1
  Edited <- ToolEdited
  Mishaps = 1
INVARIANTS
  ChunksAreWhole PlacesAreTrue CallsAreWhole
  PagesCoverTheRanking ReadingIsAccounted NearestAreShown
PROPERTIES RoundsMoveOn
CHECK_DEADLOCK FALSE
