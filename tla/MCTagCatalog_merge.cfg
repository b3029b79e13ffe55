SPECIFICATION TagStoreSpec
CONSTANTS
    TagName = {ta, tb, tc}
    LegacyTag = {ta}
    TaggedIssue = {i1}
    Writers = {w1, w2}
    NoTag = NoTag
    MaxBegun = 2
    MaxTagRuns = 2
SYMMETRY Symmetry
INVARIANTS
    AliasesLeaveIssues
CHECK_DEADLOCK FALSE
