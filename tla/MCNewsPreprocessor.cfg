\* Nine editions: failures, limits, pages, documents, fiscal years.
SPECIFICATION FairSpec
CONSTANTS
    Papers <- MCPapers
    HistoryDays = 3
    Attempts = 2
    BatchLimit = 2
    BatchSize = 1
    MaxStarts = 2
    Watched = {1, 2, 3}
INVARIANTS
    CheckedMeansStored
    ExitIsHonest
PROPERTIES
    StoredFilingsAreWhole
    FilingsArrive
CHECK_DEADLOCK FALSE
