SPECIFICATION MCSpec
CONSTANTS
  Record = 6
  PlatformOf <- CheckedPlatforms
  Marked = {1}
  MaxChanges = 2
  Trees <- LegacyTrees
  Nil = Nil
  MaxLegacyEdits = 1
  MaxRunFaults = 1
  Fact <- CompanyFacts
  Required <- CompanyFacts
  Rendered <- RenderedFacts
  RiskFlags <- RiskSection
  Documents <- UserDocuments
  Submitted <- ApplyCandidates
  Writer = {w1, w2}
  NoFile = NoFile
  MaxFileEdits = 1
  MaxWriterDeaths = 1
  MaxFileCalls = 2
  Keys = {"k1", "k2"}
  FolderOf <- IndexFolder
  Callers = {"console", "command"}
  Processes <- IndexProcesses
  NoDatabase = NoDatabase
  Nobody = Nobody
  MaxWrites = 2
  MaxRebuilds = 3
  None = None
  Refused = Refused
  Line <- PostingLines
  MaxLines = 4
  Assessed <- AssessedPostings
INVARIANTS
  ActivatedIsComplete RefreshedShowsIt
  RequiredIsExtractedOrFlagged CapIsEnforced VerdictRestsOnTable
PROPERTIES WritesWhatWasTrue EnrichmentKeepsFacts
CHECK_DEADLOCK FALSE
