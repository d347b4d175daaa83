\* One filing, two signatures of the same dimension, two overlapping runs.
SPECIFICATION Spec
CONSTANTS
    w1 = w1
    w2 = w2
    r1 = r1
    r2 = r2
    s1 = s1
    s2 = s2
    leg = leg
    None = None
    Workers = {w1, w2}
    Receipts = {r1}
    Signatures = {s1, s2}
    Modal = {s1, s2}
    Narrative = {r1}
    Text = {r1}
    MaxVersions = 1
    MaxAttempts = 2
    Batches = 1
    Limit = 2
    RetrySets <- PlainOrRetry
SYMMETRY WorkerSymmetry
INVARIANTS
    RowsFollowClaims
    ReadyVectorsAreOfLastClaim
PROPERTIES
    WorkIsKept
    OneStaysActive
