SPECIFICATION Spec
CONSTANTS
    Issues = {i1, i2, i3}
    NoIssue = NoIssue
    Clients = {c1, c2}
    NoOne = NoOne
    People = {ann}
    Nobody = Nobody
    MaxFacts = 3
SYMMETRY Symmetry
CONSTRAINT OneIssueGrows
INVARIANTS
    ReplaysUnlessRaced
    ShowsOnlyFacts
    LifecycleInv
CHECK_DEADLOCK FALSE
