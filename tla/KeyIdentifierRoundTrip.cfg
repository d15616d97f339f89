\* An untampered key identifier unpacks to itself; tampering is allowed so
\* that the run also exercises every error path of unpack.
CONSTANTS
    Versions = {1}
    Flags = {0, 1}
    Indices <- MCIndices
    RootKeyIds <- MCRootKeyIds
    KeyInfos <- MCKeyInfos
    Names <- MCNames
    CutPoints <- MCCutPoints
    LenValues <- MCLenValues
INIT Init
NEXT Next
INVARIANTS TypeOK RoundTrip
\* One identifier is packed, perhaps altered and unpacked: the exchange ends.
CHECK_DEADLOCK FALSE
