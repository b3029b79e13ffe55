SPECIFICATION KnowledgeSpec
CONSTANTS
    Memory = {m1, m2, m3}
    Tag = {t1}
    Overview = Overview
    Proposal = {q1}
    Requests = {r1, r2}
    NoMemory = NoMemory
    NoProposal = NoProposal
    Move = {c1}
    Reviewers = {v1, v2}
    NoMove = NoMove
    MaxApplied = 3
    MaxReopened = 1
    Issue = {1, 2}
    LegacyIssue = {1, 2}
    Person = {p1}
    Nobody = Nobody
    IssueBatch = 2
    MaxThread = 3
    MaxLifecycle = 4
    MaxReruns = 1
    Item = {j1, j2}
    LegacyItem = {j1}
    MaxContents = 3
    MaxFills = 3
SYMMETRY Symmetry
INVARIANTS
    SubjectKept
    ProposalSettledOnce
    MoveSettledOnce
    FactsTellTheIssue
    ContentReplays
PROPERTIES
    RevivedOnlyByReinforcement
    BackfillKeepsIssues
CHECK_DEADLOCK FALSE
