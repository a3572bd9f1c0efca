SPECIFICATION FairSpec
CONSTANTS
    MaxVmr = 3
    MaxDesc = 2
    MaxGpa = 3
    MaxMm = 2
    NPages = 6
    SbSize = 2
    SharedSplits = {3, 4}
    PrivateSplits = {4}
    Sharing = {TRUE, FALSE}
    SplitMayFail = TRUE
    NodeMayFail = FALSE
    Regions <- Geometry
INVARIANT TypeOK
INVARIANT ViewsMatchVmrs
INVARIANT ViewersCovered
INVARIANT RecordsOfLiveVmrs
INVARIANT RefcntIsDirs
INVARIANT LastCloseEmpties
PROPERTY ViewedSlotsStay
PROPERTY ClosesEnd
CHECK_DEADLOCK FALSE
