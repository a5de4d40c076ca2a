CONSTANTS
    Ip = {"a", "b"}
    MergeGap = 1
    Looked = 2
    MaxRows = 3
    MaxStart = 4
    MaxLength = 1
SPECIFICATION VisitSpec
INVARIANT VisitsWithinGap
