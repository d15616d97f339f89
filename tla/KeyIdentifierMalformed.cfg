\* Tampered key identifiers that unpack accepts without error.
CONSTANTS
    Versions = {1}
    Flags = {0, 1}
    Indices <- MCIndices
    RootKeyIds <- MCRootKeyIds
    KeyInfos <- MCKeyInfos
    Names <- MCNames
    CutPoints <- MCCutPoints
    LenValues <- MCLenValues
INIT Init
NEXT Next
INVARIANT AcceptedIsWellFormed
\* One identifier is packed, perhaps altered and unpacked: the exchange ends.
CHECK_DEADLOCK FALSE
