SPECIFICATION FairSpec
CONSTANTS
    t1 = t1
    t2 = t2
    b1 = b1
    b2 = b2
    NoThread = NoThread
    Threads = {t1, t2}
    Blocks = {b1, b2}
    Pages = 1
    Cluster = 1
    RemoteReuse = FALSE
    EagerWriteback = FALSE
    WritebackOpt = TRUE
    DonorMayFail = FALSE
    Ops = {"pin"}
PROPERTY CallsEnd
