SPECIFICATION Spec
CONSTANTS
    t1 = t1
    t2 = t2
    b1 = b1
    b2 = b2
    b3 = b3
    NoThread = NoThread
    Threads = {t1, t2}
    Blocks = {b1, b2, b3}
    Pages = 2
    Cluster = 1
    RemoteReuse = TRUE
    EagerWriteback = FALSE
    WritebackOpt = TRUE
    DonorMayFail = FALSE
    Ops = {}
SYMMETRY Symmetry
INVARIANT TypeOK
INVARIANT NoLostUpdate
INVARIANT NoTornPage
INVARIANT ListAgreesWithState
INVARIANT LengthsExact
PROPERTY PageReleasedUnused
