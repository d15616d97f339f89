------------------------ MODULE KeyIdentifierFormat ------------------------
(***************************************************************************)
(* The byte format of a KeyIdentifier: KeyIdentifier.pack and             *)
(* KeyIdentifier.unpack (src/dpapi_ng/_blob.py) as operators over byte    *)
(* sequences, with Python's slice semantics (clamping, negative stops),   *)
(* int.to_bytes/from_bytes and the strict UTF-16LE codec modelled by what *)
(* they do.  A key identifier is a record with the fields of the          *)
(* dataclass; its root key id is the UUID's 16 bytes_le.                  *)
(***************************************************************************)
EXTENDS Integers, Sequences, SequencesExt

Byte == 0..255

\* KeyIdentifier.magic
Magic == <<75, 68, 83, 75>>    \* b"KDSK"

(***************************************************************************)
(* Python primitives.                                                      *)
(***************************************************************************)
Lo(a, b) == IF a <= b THEN a ELSE b
Hi(a, b) == IF a >= b THEN a ELSE b

\* view[:n], with a negative n counting from the end.
Take(s, n) == IF n >= 0 THEN SubSeq(s, 1, Lo(n, Len(s)))
                        ELSE SubSeq(s, 1, Hi(0, Len(s) + n))

\* view[n:] for n >= 0.
Drop(s, n) == SubSeq(s, Lo(n, Len(s)) + 1, Len(s))

\* view[a:b] for 0 <= a <= b.
Bytes(s, a, b) == Take(Drop(s, a), b - a)

\* A fault: little-endian bytes without reducing each one modulo 256.
LENoMod(n, w) == [i \in 1..w |-> n \div 2 ^ (8 * (i - 1))]

\* n.to_bytes(w, byteorder="little") when it does not raise.
LE(n, w) == [i \in 1..w |-> (n \div 2 ^ (8 * (i - 1))) % 256]

\* to_bytes raises OverflowError for a negative n or one of more than w
\* bytes.  TLC's integers are below 2^31, so every natural fits 4 bytes.
FitsUnsigned(n, w) == 0 <= n /\ (w >= 4 \/ n < 2 ^ (8 * w))

\* int.from_bytes(s, byteorder="little"); the empty view gives 0.
RECURSIVE FromLE(_)
FromLE(s) == IF s = <<>> THEN 0 ELSE Head(s) + 256 * FromLE(Tail(s))

\* str.encode("utf-16-le") of BMP code points.
Utf16Encode(str) == FlattenSeq([i \in DOMAIN str |-> LE(str[i], 2)])

IsHigh(u) == u \in 55296..56319    \* 0xD800..0xDBFF
IsLow(u)  == u \in 56320..57343    \* 0xDC00..0xDFFF

\* The strict decoder over 16-bit code units: a high surrogate must be
\* followed by a low one, a lone surrogate is an error.
RECURSIVE DecodeUnits(_)
DecodeUnits(us) ==
    IF us = <<>> THEN [ok |-> TRUE, str |-> <<>>]
    ELSE LET u == Head(us) IN
         IF IsLow(u) THEN [ok |-> FALSE, str |-> <<>>]
         ELSE IF IsHigh(u)
           THEN IF Len(us) >= 2 /\ IsLow(us[2])
                  THEN LET r == DecodeUnits(Tail(Tail(us)))
                       IN  [r EXCEPT !.str = <<65536 + (u - 55296) * 1024
                                                 + (us[2] - 56320)>> \o @]
                  ELSE [ok |-> FALSE, str |-> <<>>]
           ELSE LET r == DecodeUnits(Tail(us))
                IN  [r EXCEPT !.str = <<u>> \o @]

\* bytes.decode("utf-16-le"): an odd length is truncated data, an error.
Utf16Decode(b) ==
    IF Len(b) % 2 = 1 THEN [ok |-> FALSE, str |-> <<>>]
    ELSE DecodeUnits([i \in 1..(Len(b) \div 2) |-> b[2 * i - 1] + 256 * b[2 * i]])

(***************************************************************************)
(* A fault: the name slice that keeps the NUL terminator.                  *)
(***************************************************************************)
NameBytesWithNul(view, len) == Take(view, len)

\* The name bytes unpack takes: the stored length less the NUL pair.
NameBytes(view, len) == Take(view, len - 2)

(***************************************************************************)
(* The codec.                                                              *)
(***************************************************************************)
\* KeyIdentifier.pack: [ok, bytes]; ok is FALSE when to_bytes raises.
Pack(k) ==
    LET dn == Utf16Encode(k.domain \o <<0>>)
        fn == Utf16Encode(k.forest \o <<0>>)
    IN  [ok    |-> \A n \in {k.version, k.flags, k.l0, k.l1, k.l2} : FitsUnsigned(n, 4),
         bytes |-> LE(k.version, 4) \o Magic \o LE(k.flags, 4) \o LE(k.l0, 4)
                   \o LE(k.l1, 4) \o LE(k.l2, 4) \o k.rk
                   \o LE(Len(k.key_info), 4) \o LE(Len(dn), 4) \o LE(Len(fn), 4)
                   \o k.key_info \o dn \o fn]

\* KeyIdentifier.unpack: the KeyIdentifier, or the error raised.
Unpack(b) ==
    LET kl    == FromLE(Bytes(b, 40, 44))
        dl    == FromLE(Bytes(b, 44, 48))
        fl    == FromLE(Bytes(b, 48, 52))
        body  == Drop(b, 52)
        rest1 == Drop(body, kl)
        rest2 == Drop(rest1, dl)
        dom   == Utf16Decode(NameBytes(rest1, dl))
        fst   == Utf16Decode(NameBytes(rest2, fl))
    IN  IF Bytes(b, 4, 8) # Magic THEN [err |-> "magic"]
        ELSE IF Len(Bytes(b, 24, 40)) # 16 THEN [err |-> "uuid"]
        ELSE IF ~dom.ok \/ ~fst.ok THEN [err |-> "decode"]
        ELSE [err |-> "none", ki |->
              [version  |-> FromLE(Bytes(b, 0, 4)),
              flags    |-> FromLE(Bytes(b, 8, 12)),
              l0       |-> FromLE(Bytes(b, 12, 16)),
              l1       |-> FromLE(Bytes(b, 16, 20)),
              l2       |-> FromLE(Bytes(b, 20, 24)),
              rk       |-> Bytes(b, 24, 40),
              key_info |-> Take(body, kl),
              domain   |-> dom.str,
              forest   |-> fst.str]]

=============================================================================
