SPECIFICATION FairSpec
CONSTANTS
    Issues = {i1, i2}
    NoIssue = NoIssue
    Workers = {w1}
    MaxPosts = 2
    MaxCatalog = 0
    ReadFailures = FALSE
INVARIANTS
    FailedIsRetried
PROPERTIES
    EventuallyEnriched
