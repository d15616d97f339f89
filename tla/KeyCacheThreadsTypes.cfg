\* The sync API from threads, with load_key of the root key: every path of both entry points.
CONSTANTS
    c1 = c1
    c2 = c2
    k1 = k1
    s1 = s1
    s2 = s2
    NoKey = NoKey
    Callers <- MCCallers
    RootKeyIds <- MCRootKeyIds
    Sids <- MCSids
    LoadableRootKeys <- MCRootKeys
    KeyTop = 1
    L0Max = 1
    MaxOps = 2
    Threaded = TRUE
SPECIFICATION Spec
INVARIANTS TypeOK
\* The callers stop after MaxOps calls and the clock at its last interval.
CHECK_DEADLOCK FALSE
SYMMETRY MCSymmetry
