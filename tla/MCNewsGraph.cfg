\* Eight articles that arrive in three batches, in any order.
SPECIFICATION FairNewsSpec
CONSTANTS
    m = m
    n = n
    corp = corp
    Articles = {1, 2, 3, 4, 5, 6, 7, 9}
    Batches <- MCBatches
    Nears <- MCNears
    MinSamples = 4
    Names = {m, n}
    Company <- MCCompany
    Mentions <- MCMentions
    MaxFailures = 1
INVARIANTS
    LabelsAreDense
    GraphIsSound
PROPERTIES
    IdsAreKept
    ClustersSummarised
