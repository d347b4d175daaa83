\* Two symbols, a day of two minutes, a holiday, a second day.
SPECIFICATION FairSpec
CONSTANTS
    Index <- MCIndex
    SlotsPerDay = 3
    FirstSlot <- MCFirst
    LastSlot = 9
    TradingDays <- MCTradingDays
    Limits <- MCLimits
    PageSize = 2
    Window = 3
    RankWindow = 1
    SessionDays = 1
    Old <- MCOld
    MaxFaults = 2
INVARIANTS
    HistoryIsFinal
    CloseIsComplete
    RankedVolumesAreFinal
PROPERTY
    CatchesUp
CHECK_DEADLOCK FALSE
