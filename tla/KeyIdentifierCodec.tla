------------------------- MODULE KeyIdentifierCodec -------------------------
(***************************************************************************)
(* A KeyIdentifier on the wire: a sender packs it (KeyIdentifierFormat),  *)
(* the wire may truncate it or change one of its length fields or its     *)
(* magic, and the receiver unpacks what arrives.                          *)
(***************************************************************************)
EXTENDS KeyIdentifierFormat

CONSTANTS
    Versions,     \* values of the version field
    Flags,        \* values of the flags field
    Indices,      \* values of the L0, L1 and L2 fields
    RootKeyIds,   \* root key ids, each as its 16 bytes_le
    KeyInfos,     \* key_info byte strings
    Names,        \* domain and forest names, as sequences of BMP code points
    CutPoints,    \* lengths the wire may truncate the identifier to
    LenValues     \* values the wire may put in a length field

VARIABLES
    ki,        \* the KeyIdentifier the sender packs
    wire,      \* the bytes on the wire
    out,       \* [err] naming the error raised, or [err |-> "none", ki]
    tampered,  \* whether the wire changed the bytes
    stage      \* "start", "sent" or "done"

vars == <<ki, wire, out, tampered, stage>>

KeyIdentifier ==
    [version: Versions, flags: Flags, l0: Indices, l1: Indices, l2: Indices,
     rk: RootKeyIds, key_info: KeyInfos, domain: Names, forest: Names]

Errors == {"magic", "uuid", "decode"}

(***************************************************************************)
(* The sender, the wire and the receiver.                                  *)
(***************************************************************************)
Init ==
    /\ ki \in KeyIdentifier
    /\ wire = <<>>
    /\ out = [err |-> "pending"]
    /\ tampered = FALSE
    /\ stage = "start"

\* The sender packs.  When pack raises OverflowError nothing is sent.
Send ==
    /\ stage = "start"
    /\ Pack(ki).ok
    /\ wire' = Pack(ki).bytes
    /\ stage' = "sent"
    /\ UNCHANGED <<ki, out, tampered>>

\* The wire delivers only the first n bytes.
Truncate(n) ==
    /\ stage = "sent" /\ ~tampered
    /\ n < Len(wire)
    /\ wire' = Take(wire, n)
    /\ tampered' = TRUE
    /\ UNCHANGED <<ki, out, stage>>

\* The wire changes the 4-byte field at offset off to v.
SetField(off, v) ==
    /\ stage = "sent" /\ ~tampered
    /\ Bytes(wire, off, off + 4) # LE(v, 4)
    /\ wire' = [i \in DOMAIN wire |->
                  IF off < i /\ i <= off + 4 THEN LE(v, 4)[i - off] ELSE wire[i]]
    /\ tampered' = TRUE
    /\ UNCHANGED <<ki, out, stage>>

\* The receiver unpacks what arrived.
Receive ==
    /\ stage = "sent"
    /\ out' = Unpack(wire)
    /\ stage' = "done"
    /\ UNCHANGED <<ki, wire, tampered>>

Next ==
    \/ Send
    \/ Receive
    \/ \E n \in CutPoints : Truncate(n)
    \/ \E off \in {40, 44, 48}, v \in LenValues : SetField(off, v)
    \/ SetField(4, 0)    \* the magic mutated

Spec == Init /\ [][Next]_vars

(***************************************************************************)
(* Properties.                                                             *)
(***************************************************************************)
TypeOK ==
    /\ ki \in KeyIdentifier
    /\ wire \in Seq(Byte)
    /\ tampered \in BOOLEAN
    /\ stage \in {"start", "sent", "done"}
    /\ out.err \in Errors \cup {"pending", "none"}
    /\ out.err = "none" => out.ki.version \in Nat

\* Spec 8 round-trip law: KeyIdentifier.unpack(KeyIdentifier.pack(ki)) = ki
\* for every key identifier whose fields are in the ranges of spec 3, with
\* the NUL terminators pack appends and unpack strips, the three trailers
\* sliced in order by the lengths pack wrote.
RoundTrip == stage = "done" /\ ~tampered => out.err = "none" /\ out.ki = ki

\* Spec 7: a structural parse violation is InvalidFormat.  Whatever
\* unpack accepts is a well-formed identifier: packing the result gives
\* the bytes it was read from, up to trailing bytes unpack ignores, so
\* no length field was inconsistent with the data.
AcceptedIsWellFormed ==
    stage = "done" /\ out.err = "none" =>
        LET p == Pack(out.ki) IN p.ok /\ IsPrefix(p.bytes, wire)

=============================================================================
