SPECIFICATION Spec
CONSTANTS
  Lines <- TextLines
  Styles <- TextStyles
  MaxLines = 4
  MaxPages = 2
  Articles <- ArticleLines
  Sections <- SectionLines
  Clauses <- ClauseNumbers
  Signatures = {"S"}
  Appendices = {"P"}
  Stops = {"."}
  MaxChunk = 5
  MaxIntro = 5
  MinPreamble = 3
  MinAttached = 2
  Documents = {1, 2, 3}
  TypeOf <- TypesOfDocuments
  KindOf <- KindOfTypes
  Filings <- SomeFilings
  MaxVersions = 3
  PageLimits = {1, 2}
  Unset = Unset
  Records = {1, 2, 3, 4}
  Selections <- TaxSelections
  Wanted = {1, 2, 4}
  PageSize = 2
  Retries = 2
  Day = 1
  Years <- YearList
  Holdings <- Held1
  Issuers <- IssuerList
  Local = {"ubnd"}
  Cap = 2
  Attempts = 2
  Pages = {"p1", "p2", "p3", "p4", "p5"}
  FirstPage = "p1"
  Links <- SomeLinks
  AllowedUrls = {"p1", "p2", "p3", "p4", "a.pdf", "b.pdf", "c.pdf", "d.pdf", "e.pdf", "a.doc", "page"}
  RowsOf <- CatalogRows
  Plain = {"p4"}
  FormatOf <- Formats
  Since = 2
  MaxVisits = 3
  Tries = 3
  Numbers = {1, 2, 3, 4, 5, 6}
  TitleOf <- SomeTitles
  YearOf <- YearOfNumber
  Statements <- SomeStatements
  YearOn <- YearOfDay
  MaxTitles = 4
  MaxStatements = 2
  Tokens <- SomeTokens
  DefaultFont = 9
  MaxTokens = 5
  MaxMarks = 6
  Layers <- SomeLayers
  Readings = {2, 3}
  OcrEnabled = TRUE
  LegacyLines = 2
  MaxLayers = 2
  Passages <- SomePassages
  FollowedBy <- Follows
  Provisions <- SomeProvisions
  Cases <- SomeCases
  Queries = 3
  MaxRanking = 2
  MaxRanked = 4
  Budgets = {1, 2, 3, 6}
  Entries = {1, 2, 3}
  MaxChanges = 3
INVARIANTS
  PassagesHoldTheText
  LocatorsAreRight
  ListsAgree
  PreviewOpens
  ListingMissesNothing
  YearsAreWhole
  CrawlIsWhole
  RepealsAreJustified
  WordTextIsRight
  PageTextIsRight
  InterleaveIsFair
  ScoresAreEarned
  ComparisonTells
\* Each family stops at its bounds.
CHECK_DEADLOCK FALSE
