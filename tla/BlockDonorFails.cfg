SPECIFICATION Spec
CONSTANTS
    t1 = t1
    t2 = t2
    b1 = b1
    b2 = b2
    NoThread = NoThread
    Threads = {t1, t2}
    Blocks = {b1, b2}
    Pages = 1
    Cluster = 1
    RemoteReuse = FALSE
    EagerWriteback = TRUE
    WritebackOpt = TRUE
    DonorMayFail = TRUE
    Ops = {"pin", "unpin", "populate"}
SYMMETRY Symmetry
INVARIANT NoLostUpdate
INVARIANT NumPinExact
PROPERTY PinnedStays
