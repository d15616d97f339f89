\* load_key after an RPC result was cached for the same L0: _get_key returns the stale seed.
CONSTANTS
    c1 = c1
    c2 = c2
    k1 = k1
    s1 = s1
    s2 = s2
    NoKey = NoKey
    Callers <- MCCallers
    RootKeyIds <- MCRootKeyIds
    Sids <- MCSids
    LoadableRootKeys <- MCRootKeys
    KeyTop = 1
    L0Max = 1
    MaxOps = 3
    Threaded = FALSE
SPECIFICATION Spec
INVARIANTS NoSpuriousFailure
\* The callers stop after MaxOps calls and the clock at its last interval.
CHECK_DEADLOCK FALSE
SYMMETRY MCSymmetry
