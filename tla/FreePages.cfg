SPECIFICATION FairSpec
CONSTANTS
    t1 = t1
    t2 = t2
    t3 = t3
    Threads = {t1, t2, t3}
    NoThread = NoThread
    BlockSize = 2
    ListMax = 4
    Resizes = 1
    Configs <- PageConfigs
INVARIANT TypeOK
INVARIANT PagesConserved
INVARIANT AllocWithinMax
INVARIANT DebtNotOverpaid
PROPERTY SomeBlockCompletes
