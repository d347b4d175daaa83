\* Two documents of one filing: does every row settle although runs fail, die
\* and lose their lease, and what does a search see meanwhile?
SPECIFICATION FairSpec
CONSTANTS
    w1 = w1
    w2 = w2
    r1 = r1
    r2 = r2
    s1 = s1
    s2 = s2
    leg = leg
    None = None
    Workers = {w1, w2}
    Receipts = {r1}
    Signatures = {leg}
    Modal = {}
    Narrative = {r1}
    Text = {r1}
    MaxVersions = 2
    MaxAttempts = 2
    Batches = 1
    Limit = 1
    RetrySets <- OnlyPlainRuns
INVARIANT
    SearchReadsWholeIndex
PROPERTY
    RowsSettle
