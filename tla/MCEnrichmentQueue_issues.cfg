SPECIFICATION Spec
CONSTANTS
    Issues = {i1, i2, i3}
    NoIssue = NoIssue
    Workers = {w1}
    MaxPosts = 2
    MaxCatalog = 0
    ReadFailures = TRUE
SYMMETRY Symmetry
CONSTRAINT OneDiscussionGrows
INVARIANTS
    CompleteIsCurrent
