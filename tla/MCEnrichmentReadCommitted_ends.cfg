SPECIFICATION FairSpec
CONSTANTS
    Issue = Issue
    NoIssue = NoIssue
    Clients = {c1, c2}
    Worker = Worker
    NoOne = NoOne
    MaxPosts = 2
    MaxOpen = 3
PROPERTIES
    EveryCommandEnds
