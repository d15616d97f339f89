---------------------------- MODULE MC_BlobCodec ----------------------------
(***************************************************************************)
(* Two key identifiers (a symmetric and a public-key one, with names and  *)
(* an odd-length key info), two SIDs, two wrapped CEKs and ciphertexts of *)
(* one and three bytes.                                                    *)
(***************************************************************************)
EXTENDS BlobCodec

MCKeyIds ==
    {[version |-> 1, flags |-> 0, l0 |-> 361, l1 |-> 2, l2 |-> 31,
      rk |-> [i \in 1..16 |-> 0], key_info |-> <<7, 9, 1>>,
      domain |-> <<97>>, forest |-> <<256, 97>>],
     [version |-> 1, flags |-> 1, l0 |-> 361, l1 |-> 3, l2 |-> 0,
      rk |-> [i \in 1..16 |-> 171], key_info |-> <<>>,
      domain |-> <<>>, forest |-> <<97>>]}

MCSids == {"S-1-5-21-1", "S-1-5-21-2"}

MCContents == {<<5>>, <<5, 6, 7>>}

MCTrailers == {<<0>>, <<5, 6>>}

=============================================================================
