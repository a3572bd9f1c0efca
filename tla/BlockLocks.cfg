SPECIFICATION FairSpec
CONSTANTS
    t1 = t1
    t2 = t2
    v1 = v1
    v2 = v2
    NoThread = NoThread
    NoGroup = NoGroup
    Threads = {t1, t2}
    Views = {v1, v2}
    Groups = {g1, g2}
    MaxOrder = 2
    Subs <- MCSubs
    Width <- MCWidth
    Head <- MCHead
    BatchMax = 2
    Configs <- MCConfigs
INVARIANT TypeOK
INVARIANT PublishedWhole
INVARIANT NothingLeftLocked
PROPERTY CallsEnd
PROPERTY ImplementsOwners
