------------------------------ MODULE BlobCodec ------------------------------
(***************************************************************************)
(* DPAPINGBlob.pack and DPAPINGBlob.unpack (src/dpapi_ng/_blob.py) and    *)
(* the blob _encrypt_blob (src/dpapi_ng/_client.py) builds, at the level  *)
(* of the CMS fields the ASN.1 writer and reader carry.  The DER encoding *)
(* is a nested record; what follows the DER element is a byte sequence.  *)
(* The key identifier inside goes through KeyIdentifierFormat byte by     *)
(* byte.  A sender protects one secret in envelope or appended mode, the  *)
(* wire may alter one field of the structure or append bytes, and the     *)
(* receiver unpacks what arrives.                                         *)
(***************************************************************************)
EXTENDS Integers, Sequences

KIF == INSTANCE KeyIdentifierFormat

CONSTANTS
    KeyIds,    \* key identifiers new_kek returns, as KeyIdentifierFormat records
    Sids,      \* SID strings passed as protection_descriptor
    Ceks,      \* wrapped CEKs cek_encrypt returns
    Contents,  \* ciphertexts content_encrypt returns (byte sequences)
    Trailers,  \* byte sequences the wire may append after the blob
    None       \* Python's None

\* Object identifiers the code writes and checks.
EnvelopedDataOid == "1.2.840.113549.1.7.3"
DataOid          == "1.2.840.113549.1.7.1"
MsSoftwareOid    == "1.3.6.1.4.1.311.74.1"
MsSystemsOid     == "1.3.6.1.4.1.311.74.1.1"
Aes256WrapOid    == "2.16.840.1.101.3.4.1.45"
Aes256GcmOid     == "2.16.840.1.101.3.4.1.46"

\* The DER of SEQUENCE { OCTET STRING iv, INTEGER 16 } _encrypt_blob writes,
\* for an all-zero 12-byte IV.
GcmParams == <<48, 17, 4, 12>> \o [i \in 1..12 |-> 0] \o <<2, 1, 16>>

VARIABLES
    blob,      \* the DPAPINGBlob _encrypt_blob built
    sid,       \* the protection descriptor it was packed with
    inEnv,     \* blob_in_envelope
    wire,      \* [der, trailing]: the ContentInfo and the bytes after it
    out,       \* [err] naming the error raised, or [err |-> "none", blob]
    tampered,  \* the alteration the wire made, or "none"
    stage      \* "start", "sent" or "done"

vars == <<blob, sid, inEnv, wire, out, tampered, stage>>

\* sd_to_bytes(owner="S-1-5-18", group="S-1-5-18",
\*   dacl=[ace_to_bytes(sid, 3), ace_to_bytes("S-1-1-0", 2)]), named by its
\*   arguments: the builder is injective.
TargetSd(s) == <<"S-1-5-18", "S-1-5-18", <<<<s, 3>>, <<"S-1-1-0", 2>>>>>>

\* _encrypt_blob: the blob for the key identifier new_kek returned, the
\* target SD of the protection descriptor, the wrapped CEK and the content.
EncryptBlob(k, s, cek, content) ==
    [key_identifier |-> k, security_descriptor |-> TargetSd(s),
     enc_cek |-> cek, enc_cek_algorithm |-> Aes256WrapOid,
     enc_cek_parameters |-> None, enc_content |-> content,
     enc_content_algorithm |-> Aes256GcmOid, enc_content_parameters |-> GcmParams]

\* DPAPINGBlob.pack(protection_descriptor, blob_in_envelope).  The key-wrap
\* AlgorithmIdentifier is written with its OID only; the content parameters
\* are written when truthy; the content goes into [0] or after the DER.
Pack(b, pd, env) ==
    [der |->
       [content_type |-> EnvelopedDataOid,
        version      |-> 2,
        recipients   |->
          <<[choice  |-> "kekri",
             version |-> 4,
             kekid   |-> [key_identifier |-> KIF!Pack(b.key_identifier).bytes,
                          other |-> [key_attr_id |-> MsSoftwareOid,
                                     key_attr    |-> [content_type |-> MsSystemsOid,
                                                      type  |-> "SID",
                                                      value |-> pd]]],
             key_encryption_algorithm |-> [algorithm |-> b.enc_cek_algorithm,
                                           parameters |-> None],
             encrypted_key |-> b.enc_cek]>>,
        encrypted_content_info |->
          [content_type |-> DataOid,
           algorithm    |-> [algorithm  |-> b.enc_content_algorithm,
                             parameters |-> IF b.enc_content_parameters \in {None, <<>>}
                                              THEN None
                                              ELSE b.enc_content_parameters],
           content      |-> IF env THEN b.enc_content ELSE None]],
     trailing |-> IF env THEN <<>> ELSE b.enc_content]

(***************************************************************************)
(* Faults: taking the trailing bytes whenever there are any; ignoring     *)
(* them (no LAPS support); not checking the recipient count.              *)
(***************************************************************************)
EncContentPreferTrailing(eci, remaining) ==
    IF remaining # <<>> THEN remaining ELSE eci.content

EncContentNoFallback(eci, remaining) == eci.content

EnvelopeFormatOkAnyCount(ed) ==
    /\ ed.version = 2
    /\ ed.recipients[1].choice = "kekri"
    /\ ed.recipients[1].version = 4

\* enveloped_data.encrypted_content_info.content or remaining_data: None and
\* b"" are falsy.
EncContent(eci, remaining) ==
    IF eci.content \in {None, <<>>} THEN remaining ELSE eci.content

\* EnvelopedData version 2 with exactly one KEKRecipientInfo of version 4.
EnvelopeFormatOk(ed) ==
    /\ ed.version = 2
    /\ Len(ed.recipients) = 1
    /\ ed.recipients[1].choice = "kekri"
    /\ ed.recipients[1].version = 4

\* DPAPINGBlob.unpack: the blob, or the error raised, checks in code order.
Unpack(w) ==
    LET ed  == w.der
        ri  == ed.recipients[1]
        kid == KIF!Unpack(ri.kekid.key_identifier)
        pd  == ri.kekid.other.key_attr
    IN  IF ed.content_type # EnvelopedDataOid THEN [err |-> "unsupported"]
        ELSE IF ~EnvelopeFormatOk(ed) THEN [err |-> "format"]
        ELSE IF kid.err # "none" THEN [err |-> kid.err]
        ELSE IF \/ ri.kekid.other = None
                \/ ri.kekid.other.key_attr_id # MsSoftwareOid THEN [err |-> "format"]
        ELSE IF pd.content_type # MsSystemsOid \/ pd.type # "SID" THEN [err |-> "unsupported"]
        ELSE [err |-> "none", blob |->
               [key_identifier        |-> kid.ki,
                security_descriptor   |-> TargetSd(pd.value),
                enc_cek               |-> ri.encrypted_key,
                enc_cek_algorithm     |-> ri.key_encryption_algorithm.algorithm,
                enc_cek_parameters    |-> ri.key_encryption_algorithm.parameters,
                enc_content           |-> EncContent(ed.encrypted_content_info, w.trailing),
                enc_content_algorithm |-> ed.encrypted_content_info.algorithm.algorithm,
                enc_content_parameters |-> ed.encrypted_content_info.algorithm.parameters]]

(***************************************************************************)
(* The alterations of the wire: spec 8's negative tests and spec 7's     *)
(* failure conditions, each one field of the structure.                   *)
(***************************************************************************)
Alter(der, kind) ==
    LET ri == der.recipients[1] IN
    CASE kind = "content_type"   -> [der EXCEPT !.content_type = DataOid]
      [] kind = "cms_version"    -> [der EXCEPT !.version = 3]
      [] kind = "two_recipients" -> [der EXCEPT !.recipients = <<ri, ri>>]
      [] kind = "recipient_kind" -> [der EXCEPT !.recipients[1].choice = "kari"]
      [] kind = "kekri_version"  -> [der EXCEPT !.recipients[1].version = 2]
      [] kind = "magic"          ->
           [der EXCEPT !.recipients[1].kekid.key_identifier =
                         [i \in DOMAIN @ |-> IF i \in 5..8 THEN 0 ELSE @[i]]]
      [] kind = "no_other"       -> [der EXCEPT !.recipients[1].kekid.other = None]
      [] kind = "other_oid"      ->
           [der EXCEPT !.recipients[1].kekid.other.key_attr_id = "1.3.6.1.4.1.311.74.2"]
      [] kind = "descriptor_type" ->
           [der EXCEPT !.recipients[1].kekid.other.key_attr.type = "LOCAL"]

StructuralAlterations ==
    {"content_type", "cms_version", "two_recipients", "recipient_kind",
     "kekri_version", "magic", "no_other", "other_oid", "descriptor_type"}

(***************************************************************************)
(* The sender, the wire and the receiver.                                  *)
(***************************************************************************)
Init ==
    /\ \E k \in KeyIds, s \in Sids, cek \in Ceks, c \in Contents :
          /\ blob = EncryptBlob(k, s, cek, c)
          /\ sid = s
    /\ inEnv \in BOOLEAN
    /\ wire = [der |-> None, trailing |-> <<>>]
    /\ out = [err |-> "pending"]
    /\ tampered = "none"
    /\ stage = "start"

\* _encrypt_blob's final .pack(protection_descriptor); unprotecting an
\* appended-mode blob is how LAPS blobs arrive.
Send ==
    /\ stage = "start"
    /\ wire' = Pack(blob, sid, inEnv)
    /\ stage' = "sent"
    /\ UNCHANGED <<blob, sid, inEnv, out, tampered>>

\* The wire alters one field of the DER structure.
AlterField(kind) ==
    /\ stage = "sent" /\ tampered = "none"
    /\ wire' = [wire EXCEPT !.der = Alter(@, kind)]
    /\ tampered' = kind
    /\ UNCHANGED <<blob, sid, inEnv, out, stage>>

\* The wire appends bytes after the blob (a padded file, a second blob).
AppendTrailer(t) ==
    /\ stage = "sent" /\ tampered = "none"
    /\ wire' = [wire EXCEPT !.trailing = @ \o t]
    /\ tampered' = "trailing"
    /\ UNCHANGED <<blob, sid, inEnv, out, stage>>

\* ncrypt_unprotect_secret's DPAPINGBlob.unpack(data).
Receive ==
    /\ stage = "sent"
    /\ out' = Unpack(wire)
    /\ stage' = "done"
    /\ UNCHANGED <<blob, sid, inEnv, wire, tampered>>

Next ==
    \/ Send
    \/ Receive
    \/ \E kind \in StructuralAlterations : AlterField(kind)
    \/ \E t \in Trailers : AppendTrailer(t)

Spec == Init /\ [][Next]_vars

(***************************************************************************)
(* Properties.                                                             *)
(***************************************************************************)
TypeOK ==
    /\ inEnv \in BOOLEAN
    /\ sid \in Sids
    /\ stage \in {"start", "sent", "done"}
    /\ tampered \in StructuralAlterations \cup {"none", "trailing"}
    /\ wire.trailing \in Seq(KIF!Byte)
    /\ out.err \in {"pending", "none", "unsupported", "format", "magic", "uuid", "decode"}
    /\ out.err = "none" => out.blob.enc_content \in Seq(KIF!Byte)

\* Spec 8 round-trip law, in envelope and in appended mode: unprotect
\* unpacks exactly the blob protect's _encrypt_blob packed, its target SD
\* (the cache key) rebuilt from the SID, its key identifier through the
\* byte codec.  Bytes appended after an envelope-mode blob are ignored,
\* since the content was read from [0].
BlobRoundTrip ==
    stage = "done" /\ (tampered = "none" \/ (tampered = "trailing" /\ inEnv))
        => out.err = "none" /\ out.blob = blob

\* Spec 7 and spec 8's negative tests: a blob with any one structural
\* field changed (content type, CMS versions, recipient count or kind,
\* KDSK magic, kekid.other, its OID, the descriptor type) is rejected.
RejectsMalformed ==
    stage = "done" /\ tampered \in StructuralAlterations => out.err # "none"

=============================================================================
