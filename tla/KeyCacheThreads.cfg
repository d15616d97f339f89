\* the sync API called from threads: _store_key reads and writes the slot unlocked.
CONSTANTS
    c1 = c1
    c2 = c2
    k1 = k1
    s1 = s1
    s2 = s2
    NoKey = NoKey
    Callers <- MCCallers
    RootKeyIds <- MCRootKeyIds
    Sids <- MCSids
    LoadableRootKeys <- MCNoRootKeys
    KeyTop = 1
    L0Max = 1
    MaxOps = 3
    Threaded = TRUE
SPECIFICATION Spec
INVARIANTS SlotIsMaxOffered
\* The callers stop after MaxOps calls and the clock at its last interval.
CHECK_DEADLOCK FALSE
SYMMETRY MCSymmetry
