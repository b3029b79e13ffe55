SPECIFICATION EitherSpec
CONSTANTS
    Issue = Issue
    NoIssue = NoIssue
    Clients = {c1, c2}
    Worker = Worker
    NoOne = NoOne
    MaxPosts = 4
    MaxOpen = 3
SYMMETRY Symmetry
INVARIANTS
    PostsNumbered
    JobCoversProjection
PROPERTIES
    OnlyClaimedJobsGo
    SerialIsQueue
