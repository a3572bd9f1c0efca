SPECIFICATION Spec
CONSTANTS
    MaxVmr = 4
    MaxDesc = 2
    MaxGpa = 1
    MaxMm = 2
    NPages = 6
    SbSize = 2
    SharedSplits = {2, 3}
    PrivateSplits = {4}
    Sharing = {TRUE, FALSE}
    SplitMayFail = FALSE
    NodeMayFail = FALSE
    Regions <- Geometry
INVARIANT UncoveredExact
CHECK_DEADLOCK FALSE
