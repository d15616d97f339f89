\* Spec 8 public-key exclusion: unprotect a public-key blob, the server returns the private seed.
CONSTANTS
    c1 = c1
    c2 = c2
    k1 = k1
    s1 = s1
    s2 = s2
    NoKey = NoKey
    Callers <- MCCallers
    RootKeyIds <- MCRootKeyIds
    Sids <- MCSids
    LoadableRootKeys <- MCNoRootKeys
    KeyTop = 1
    L0Max = 1
    MaxOps = 2
    Threaded = FALSE
SPECIFICATION Spec
PROPERTY PublicKeyExclusion
\* The callers stop after MaxOps calls and the clock at its last interval.
CHECK_DEADLOCK FALSE
SYMMETRY MCSymmetry
