SPECIFICATION Spec
CONSTANTS
    Issues = {i1}
    NoIssue = NoIssue
    Workers = {w1, w2}
    MaxPosts = 4
    MaxCatalog = 1
    ReadFailures = FALSE
SYMMETRY Symmetry
INVARIANTS
    TypeOK
    RefinementNotLost
    QueueMatchesStatus
    ReEnrichIsHonoured
PROPERTIES
    ContentNeverRegresses
    JobGoesOnlyWhenDone
