SPECIFICATION FairSpec
CONSTANTS
    Threads = {t1, t2}
    Blocks = {b1, b2}
    NoBlock = NoBlock
    Subblocks = 2
    Mrs = 2
    Size <- MCSize
    Cows = {}
    Configs <- MCConfigs
    Failures = {"post", "record", "pages"}
INVARIANT TypeOK
INVARIANT AllocLenKept
INVARIANT RoomIsFound
PROPERTY AllocEnds
