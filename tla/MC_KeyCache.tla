---------------------------- MODULE MC_KeyCache ----------------------------
(* Model-checking instance of KeyCache: two callers, one root key id, two  *)
(* SIDs, L1/L2 indices 0..1 and two L0 periods.                            *)
EXTENDS KeyCache, TLC

CONSTANTS c1, c2, k1, s1, s2

MCCallers    == {c1, c2}
MCRootKeyIds == {k1}
MCSids       == {s1, s2}

\* No root key is ever loaded: every key comes from a GetKey RPC.
MCNoRootKeys == {}
\* The caller loads the root key k1.
MCRootKeys   == {k1}

MCSymmetry == Permutations(MCCallers) \cup Permutations(MCSids)
=============================================================================
