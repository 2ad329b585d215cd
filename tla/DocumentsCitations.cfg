\* The instance of Documents.cfg.
SPECIFICATION RoundsSpec
CONSTANTS
    TerminalNames = {"references", "bibliography", "appendix", "author_notes"}
    LastNames = {"references", "bibliography", "appendix", "data_sources", "glossary_of_terms"}
    ReferenceNames = {"references", "bibliography", "data_sources"}
    HardEndingNames = {"summary"}
    MinLines = 1
    FirstVersions <- MCFirstVersions
    Requests <- MCRequests
    WriterPlans <- MCWriterPlans
    Outputs <- MCOutputs
    DraftTexts <- MCDraftTexts
    Batches <- MCBatches
    Patches <- MCPatches
    Answers <- MCAnswers
    RevisionRequests <- MCRevisionRequests
    Reviewers = {"evidence", "editorial"}
    CalculationNames = {"appendix"}
    ManifestFile <- MCManifestFile
    CueOrder <- MCCueOrder
    ReservedNames = {"eval"}
    TitleLines = 1
    Queries = 2
    PoolSize = 2
    MostHits = 1
    Searches <- MCSearches
    Crawls <- MCCrawls
    Curations <- MCCurations
    MaxRounds = 2
    MaxTries <- MCMaxTries
PROPERTY CitationsKeepTheirSource
CHECK_DEADLOCK FALSE
