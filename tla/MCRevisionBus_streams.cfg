SPECIFICATION MCSpec
CONSTANTS
    Bumpers = {b1, b2}
    Streams = {s1, s2}
    NoOne = NoOne
    MaxRevision = 4
    Callers = {g1, g2}
    NoCaller = NoCaller
    Asked = {"themes", "lambda", "regions", "map"}
    MaxVersion = 3
    MaxStarts = 2
    Row = {0, 1, 2}
    MaxThemes = 2
    MaxId = 2
    MaxGen = 2
INVARIANTS
    FanoutInv
    ServedIsFresh
    LabelsAreCurrent
PROPERTIES
    EveryBumpReturns
    ConvergesUnlessBumpsOverlap
