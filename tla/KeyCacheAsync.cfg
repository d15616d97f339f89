\* asyncio callers sharing a cache; every key comes from the GetKey RPC.
\* Each call refines KeyCacheAtomic: it takes effect at its hit or its reply, on its own slot.
CONSTANTS
    c1 = c1
    c2 = c2
    k1 = k1
    s1 = s1
    s2 = s2
    NoKey = NoKey
    Callers <- MCCallers
    RootKeyIds <- MCRootKeyIds
    Sids <- MCSids
    LoadableRootKeys <- MCNoRootKeys
    KeyTop = 1
    L0Max = 1
    MaxOps = 3
    Threaded = FALSE
SPECIFICATION Spec
INVARIANTS SlotIsMaxOffered
PROPERTIES CallsAreAtomic ProtectedBlobsHit
\* The callers stop after MaxOps calls and the clock at its last interval.
CHECK_DEADLOCK FALSE
SYMMETRY MCSymmetry
