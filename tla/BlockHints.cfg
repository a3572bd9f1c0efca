SPECIFICATION Spec
CONSTANTS
    t1 = t1
    t2 = t2
    b1 = b1
    b2 = b2
    NoThread = NoThread
    Threads = {t1, t2}
    Blocks = {b1, b2}
    Pages = 2
    Cluster = 1
    RemoteReuse = FALSE
    EagerWriteback = TRUE
    WritebackOpt = TRUE
    DonorMayFail = FALSE
    Ops = {"prefetch", "dontneed"}
SYMMETRY Symmetry
INVARIANT RequestOfItsKind
