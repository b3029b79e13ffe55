SPECIFICATION TagStoreSpec
CONSTANTS
    TagName = {ta, tb, tc}
    LegacyTag = {ta}
    TaggedIssue = {i1}
    Writers = {w1, w2}
    NoTag = NoTag
    MaxBegun = 2
    MaxTagRuns = 2
SYMMETRY Symmetry
INVARIANTS
    TagsReplay
    MergesStick
    ShownTagsAreStored
PROPERTIES
    BackfillKeepsText
CHECK_DEADLOCK FALSE
