------------------------ MODULE MC_KeyIdentifierCodec ------------------------
(***************************************************************************)
(* Small field values for KeyIdentifierCodec.  Two root key ids differ in  *)
(* their first and last byte.  Key infos of odd length shift the names    *)
(* off the 2-byte grid; names hold an ASCII and a non-ASCII BMP character.*)
(* The cut points fall in the magic, in the UUID, at the end of the UUID, *)
(* in the length fields and at the end of the header.                     *)
(***************************************************************************)
EXTENDS KeyIdentifierCodec

MCRootKeyIds ==
    {[i \in 1..16 |-> 0], [i \in 1..16 |-> IF i \in {1, 16} THEN 171 ELSE 0]}

MCKeyInfos == {<<>>, <<7>>, <<7, 9, 1>>}

MCNames == {<<>>, <<97>>, <<256, 97>>}

\* Index values pack can write: 0, an L0 of today, the largest TLC integer.
MCIndices == {0, 361, 2147483647}

MCCutPoints == {0, 6, 30, 39, 40, 46, 51, 52, 53}

MCLenValues == {0, 1, 3, 200}

=============================================================================
