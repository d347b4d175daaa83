SPECIFICATION ReadSpec
CHECK_DEADLOCK FALSE
CONSTANTS
    Workers = {1, 2}
    Served <- MCServed
    MaxFaults = 2
    Published <- MCPublished
    Filed <- MCFiled
    Stated <- MCStated
    Named <- MCNamed
    Alias <- MCAlias
    PageLimits = {1, 2}
    Depths = {1, 2}
    PathLimit = 2
    NodeLimit = 3
    EdgeLimit = 2
    Filing <- MCFiling
    Distance <- MCDistance
    AtFirst = {1, 2, 4, 6}
    AsOf = {2, 3}
    Starts = {0, 2}
    Details = {"", "A001", "A003"}
    Limits = {1, 2}
    HistoryLimit = 1
    TopK = 2
    Candidates = 3
    MaxDistance = 2
    MaxCommits = 2
INVARIANTS
    PagesAreExact
    GraphAnswersAreTrue
    EvidenceIsCurrent
PROPERTY
    TablesAreFresh
