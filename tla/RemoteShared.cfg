SPECIFICATION Spec
CONSTANTS
    Threads = {t1}
    Blocks = {b1, b2, b3}
    NoBlock = NoBlock
    Subblocks = 2
    Mrs = 2
    Size <- MCSize
    Cows = {c1, c2}
    Configs <- MCConfigs
    Failures = {"post", "record"}
SYMMETRY MCSymmetry
INVARIANT NoSlotTwice
INVARIANT BitmapExact
INVARIANT RefcntExact
INVARIANT RemoteHasCopy
INVARIANT ResidentOwnsAlone
PROPERTY RemoteCopyStays
