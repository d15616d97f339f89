\* Protect in both placement modes, the wire altering one field or
\* appending bytes, unprotect's unpack.
CONSTANTS
    KeyIds <- MCKeyIds
    Sids <- MCSids
    Ceks = {cek1, cek2}
    Contents <- MCContents
    Trailers <- MCTrailers
    None = None
INIT Init
NEXT Next
INVARIANTS TypeOK BlobRoundTrip RejectsMalformed
\* One blob is packed, perhaps altered and unpacked: the exchange ends.
CHECK_DEADLOCK FALSE
