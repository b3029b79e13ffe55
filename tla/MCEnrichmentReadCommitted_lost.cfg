SPECIFICATION Spec
CONSTANTS
    Issue = Issue
    NoIssue = NoIssue
    Clients = {c1}
    Worker = Worker
    NoOne = NoOne
    MaxPosts = 3
    MaxOpen = 3
SYMMETRY Symmetry
INVARIANTS
    RefinementNotLost
