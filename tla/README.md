# TLA+ models of dpapi-ng

This directory holds TLA+ models of `src/dpapi_ng/_client.py` and
`src/dpapi_ng/_blob.py`. These two files are the DPAPI-NG client:
`ncrypt_protect_secret` / `ncrypt_unprotect_secret`, their async twins,
the `KeyCache`, and the blob and key-identifier codecs. The models are
checked with TLC.

## 1. Inventory

### Components

| Component | Source | State it keeps | Operations |
|---|---|---|---|
| KeyCache | `_client.py` 355-544 | `_root_keys: id -> RootKey` and `_seed_keys: id -> target_sd -> l0 -> GroupKeyEnvelope` | `load_key` (upsert), `_get_key` (probe, with root-key synthesis through `setdefault`), `_store_key` (replace if strictly newer) |
| Orchestrators | `_client.py` 547-888 | none of their own; they share the cache they are given | `ncrypt_unprotect_secret`: unpack, probe, on a miss `lookup_dc` + `_sync_get_key`, store unless public key, `_decrypt_blob`. `ncrypt_protect_secret`: build the SD, probe at the current time index, on a miss GetKey(-1,-1,-1), store, `_encrypt_blob`. The async variants are the same with `await` at the DNS lookup and the RPC. |
| Current-time index | `_client.py` 287-339 | none (it reads the clock) | `l0/l1/l2` from `time.time_ns()`, then `compute_l2_key` from the cached seed |
| GetKey RPC client | `_client.py` 93-216 | none (one connection per call) | EPM map, bind, GetKey, result decoding; any step may raise |
| KeyIdentifier codec | `_blob.py` 20-121 | immutable value | `pack`, `unpack` (magic check, length-prefixed trailers) |
| Blob codec | `_blob.py` 124-285 | immutable value | `pack` (envelope or appended content), `unpack` (CMS checks, SID descriptor, target SD) |
| Not under `src/` | `_gkdi`, `_crypto`, `_security_descriptor`, `_rpc`, `_epm`, `_dns`, `_asn1`, `_pkcs7` | | only their contracts, as the spec describes them, are used |

### How they interact

The only mutable state that outlives a call is the `KeyCache` a caller
passes in. The state machine for one call is:

    parse -> probe cache -> hit ----------------------> store -> crypto
                         \-> miss -> DNS -> GetKey RPC /

The async variants suspend only at the DNS lookup and the RPC. So a probe
is atomic, and so is everything from an RPC reply to the end of the call.
Between one task's miss and its reply, other tasks probe, store and load
root keys. The sync variants can also be called from threads, and there
is no lock: `_store_key`'s read, compare and write can be split by a
thread switch.

### What is hard

* **Concurrent callers on one cache.** Replies arrive in any order. A
  late, lower reply must not replace a higher seed.
* **Root-key synthesis versus cached RPC seeds.** `_get_key` inserts the
  root-key envelope with `setdefault`. This never replaces an entry that
  is already in the slot.
* **Unlocked stores on threads.**
* **Float arithmetic in the time index.** `int(t / M)` is a rounded float
  division, not a floor.
* **Codec boundaries.** These are the length fields, unsigned
  `to_bytes` of signed indices, and the two placements of the content.
* **A server-driven RPC exchange.** Every bind ack, ept_map reply and
  GetKey response is the server's choice, and any await can raise.
  Every path must close its connection and check what it was sent.

### Properties that make each component correct

* **KeyCache.** Each slot holds the lexicographic maximum (L1, L2) of
  everything stored in it (spec §5, §8). A probe returns a seed that can
  derive the requested key, or None (spec §4.8). Public-key envelopes are
  never cached (spec §3).
* **Orchestrators.** A call fails only for a transport failure or a
  withheld private key, never for lack of a usable seed. An unprotect of
  a public-key blob adds no slot (spec §8).
* **Time index.** The index equals the MS-GKDI floor index.
* **GetKey RPC client.** Connections are scoped to their blocks on every
  path. A request goes out only on an accepted context.
* **Codecs.** `unpack(pack(x)) = x`. A wrong magic is rejected. Malformed
  lengths are rejected.

## 2. Plan

The modules are listed in order of importance. All seven items are built.

1. **KeyCache** (done). The cache plus both entry points as interleaving
   callers, for asyncio or threads, with `load_key` and a clock.
2. **KdsTime** (done). The current-time index with Python's float
   division, checked against the floor index.
3. **KeyIdentifierCodec** (done). Byte-level `pack`/`unpack` over small field
   values: the round trip, magic rejection, and what malformed lengths
   do.
4. **BlobCodec** (done). CMS fields at the level of the ASN.1 writer calls:
   envelope versus appended content, the validation chain of `unpack`,
   and the round trip for blobs `_encrypt_blob` produces. It composes
   KeyIdentifierCodec.
5. **KeyCacheAtomic** (done). An abstract cache in which each call takes
   effect in one step: at its invocation when its own slot holds a
   dominating seed, otherwise at its reply, raising only its own slot, or
   at its failure, changing nothing. KeyCache is shown to refine it with
   `INSTANCE ... WITH`. The refinement holds
   only for asyncio callers without `load_key` (see findings 1 and 2), so
   that is the configuration where it is checked.
6. **Public-key exclusion (spec §8)** (done). An action property over
   whole unprotect calls, checked as a violation run (finding 4).
7. **GetKeyRpc** (done). One `get_key` call step by step: two connections
   and their `with` blocks, both binds, ept_map and GetKey, with the
   server's replies and transport errors chosen nondeterministically.
   KeyCache's `RpcReply`/`RpcFail` are this call seen from outside.

## 3. Modules

### KeyCache.tla (with MC_KeyCache.tla)

| TLA+ | Code |
|---|---|
| `seedKeys[<<rk, sid, l0>>]` | `KeyCache._seed_keys[rk][target_sd][l0]`. A target SD is named by its SID, because the builder is injective. |
| `rootKeys` | the keys of `KeyCache._root_keys` |
| an envelope `[rk, l0, l1, l2, pub]` | `GroupKeyEnvelope`, without its key bytes |
| `GetKey`, `SetDefault`, `RootEnvelope`, `Dominates` | `KeyCache._get_key` |
| `StoreKey`, `Newer` | `KeyCache._store_key` |
| `ProtectionGke`, `CurrentIndex` | `_get_protection_gke_from_cache` |
| `CanDerive` | `compute_l2_key` / `get_kek` (spec-modelled: a seed derives only by walking down) |
| `UnprotectStart`, `UnprotectReply` | `ncrypt_unprotect_secret` before and after the RPC |
| `ProtectStart`, `ProtectReply` | `ncrypt_protect_secret` before and after the RPC |
| `RpcFail` | any exception from `lookup_dc` / `_sync_get_key`, which leaves the cache untouched; in the async variants this includes the `CancelledError` of a caller cancelled at either await (spec 4.9, Cancellation) |
| `RpcReply`, `StoreWrite` | the tail of a call. With `Threaded`, `_store_key`'s read (in `RpcReply`) and write (`StoreWrite`) are separate steps. |
| `LoadKey` | `KeyCache.load_key` |
| `Tick` | the clock, in L2 intervals |

**Abstractions.**

* The L1/L2 indices run over `0..KeyTop`, where the code has 31.
* The clock is exact here; the rounding is modelled in KdsTime.
* A failed key derivation is the refusal the spec prescribes for a
  non-dominating seed (`compute_l2_key` is not under `src/`).
* Only a shared cache is modelled. `cache or KeyCache()` with no cache is
  the single-caller case.

**Server behaviour.**

* For a blob, GetKey returns that exact node.
* For protect, it returns the node of the current time, under the given
  root key or one the server picks.
* Either reply may be a public key, when the caller may only encrypt.

**Properties.**

* `SlotIsMaxOffered`: each slot equals the lexicographic maximum of every
  envelope put in it. The maximum is kept in the history variable
  `maxOffered`.
* `NoSpuriousFailure`: no call ends in `derive_failed`. With no root key
  loaded it holds by construction (`_get_key` only returns a dominating
  seed), so it is checked only where `load_key` makes it fail (finding 1).
* `CallsAreAtomic`: per-call linearisability. KeyCache implements
  KeyCacheAtomic under the mapping `cache <- AbsCache` (the (L1, L2) of
  each slot), `started <- ops`, and the concrete `req`, `res` and `now`.
  In KeyCacheAtomic a caller's call is `Served` in one step when the slot
  of its own request (root key, SID, L0) dominates the requested index;
  otherwise it is `Invoke`d, recording the request, and later `Respond`s,
  raising only that request's slot with the node the server returns for
  it, or `Fail`s with the cache unchanged. So a start that hits must
  really hit its own slot, a start that misses must really miss, and a
  reply may not touch any other slot or go backwards.
* `ProtectedBlobsHit` (spec 8, test 3): unprotecting a blob that
  protect returned through this cache never goes to the RPC, whatever
  other callers stored in between. The history variable `protectedBlobs`
  records the key identifier of each such blob. Public-key blobs are
  left out.
* `PublicKeyExclusion`: an unprotect call whose blob names a public key
  leaves an empty slot empty.

**Runs.**

| Run | Config | Result | What it shows |
|---|---|---|---|
| async_cache | KeyCacheAsync.cfg | pass (3 calls, 268k states, about 60 s) | asyncio callers with replies in any order and RPC failures: the cache stays maximal, each call is linearisable on its own slot (`CallsAreAtomic`), and a protected blob unprotects from the cache (`ProtectedBlobsHit`) |
| threaded_types | KeyCacheThreadsTypes.cfg | pass (2 calls, 130k states) | `TypeOK` on the widest configuration: threads, `load_key`, the split store and the `derive_failed` path |
| root_key_stale_seed | KeyCacheRootKeyStale.cfg | **violation** | finding 1 |
| threaded_store_race | KeyCacheThreads.cfg | **violation** | finding 2 |
| public_key_exclusion | KeyCachePublicBlob.cfg | **violation** | finding 4 |

**Bounds.**

* 2 callers, 1 root key id, 2 SIDs.
* L1, L2 in 0..1 and L0 in 0..1, giving 8 clock steps.
* 3 calls in all, 2 in `threaded_types`. Checking the refinement over 4
  calls takes more than 5 minutes; two calls suffice to reach the
  stale root-key seed of finding 1 in `threaded_types`.

This is enough for every case the properties are about: two callers
racing on one slot, a reply lower than the stored seed, a root key loaded
between calls, a time step inside and across an L0 period, and a
public-key reply. Symmetry over callers and over SIDs is sound because
neither is ever compared except for equality. Deadlock is not checked:
the callers really stop after their last call.

### KdsTime.tla (with MC_KdsTime.tla)

`TrueDivTrunc(a, b)` is `int(a / b)` in CPython: the quotient correctly
rounded to `Prec` significant bits, ties to even, then truncated. It was
cross-checked against CPython for `Prec = 53`. The run scales the clock
down together with the precision: `Base = 3`, `Prec = 13`. This keeps the
rounding window near an L0 boundary at about the real 10 ticks.

| Run | Config | Result | What it shows |
|---|---|---|---|
| time_index_rounding | KdsTimeRounding.cfg | **violation** | finding 3 |

### KeyIdentifierFormat.tla, KeyIdentifierCodec.tla (with MC_KeyIdentifierCodec.tla)

KeyIdentifierFormat holds `KeyIdentifier.pack` and `KeyIdentifier.unpack`
as operators over byte sequences, so BlobCodec can use them too.

| TLA+ | Code |
|---|---|
| `Take`, `Drop`, `Bytes` (with `Lo`, `Hi`) | memoryview slices: clamped to the data, a negative stop counts from the end |
| `LE`, `FitsUnsigned` | `int.to_bytes(4, "little")`, which raises OverflowError for a negative value |
| `FromLE` | `int.from_bytes(..., "little")`; a short view gives a smaller number, the empty view 0 |
| `Utf16Encode`, `Utf16Decode`, `DecodeUnits` | `str.encode`/`bytes.decode("utf-16-le")`, strict: an odd length or a lone surrogate raises |
| `NameBytes` | `view[: len - 2]`, the name without its NUL pair |
| `Pack`, `Unpack` | `KeyIdentifier.pack`, `KeyIdentifier.unpack` (magic check, UUID of exactly 16 bytes, the three trailers) |

KeyIdentifierCodec is one exchange. `Send` packs the identifier (when
`pack` raises, nothing is sent). The wire may then `Truncate` it or
`SetField` one length field or the magic. `Receive` unpacks it.

* `RoundTrip`: an untampered identifier unpacks to itself.
* `AcceptedIsWellFormed`: whatever unpack accepts repacks to the bytes
  it was read from.

The inputs use odd-length key infos (so the names sit off the 2-byte
grid), ASCII and non-ASCII names, the empty name, and an index of
2^31-1. TLC's integers are signed 32-bit, so the u32 range above 2^31 is
out of reach; every value TLC has is an i32.

### BlobCodec.tla (with MC_BlobCodec.tla)

The DER of `ContentInfo` is a nested record with the fields the ASN.1
writer emits and the reader returns. The key identifier inside it is
bytes, packed and unpacked by KeyIdentifierFormat.

| TLA+ | Code |
|---|---|
| `EncryptBlob`, `GcmParams` | `_encrypt_blob` (`_client.py` 242-284): the fields it fills, `enc_cek_parameters = None` |
| `Pack` | `DPAPINGBlob.pack`, envelope (`[0]`) or appended placement |
| `Unpack`, `EnvelopeFormatOk`, `EncContent`, `TargetSd` | `DPAPINGBlob.unpack`: its checks in code order, `content or remaining_data`, the SD rebuilt from the SID |
| `Send`, `Receive` | `_encrypt_blob`'s `.pack(...)` and `ncrypt_unprotect_secret`'s `DPAPINGBlob.unpack(data)` |
| `AlterField`, `AppendTrailer` | the wire: one field of spec 7/8's negative tests changed, or bytes appended |

* `BlobRoundTrip`: in both modes, unprotect unpacks exactly the blob
  protect packed. Bytes appended after an envelope-mode blob are
  ignored.
* `RejectsMalformed`: each structural fault is rejected.

| Run | Config | Result | What it shows |
|---|---|---|---|
| keyid_round_trip | KeyIdentifierRoundTrip.cfg | pass (131k states) | the byte-level round trip, with every unpack error path reached |
| keyid_malformed | KeyIdentifierMalformed.cfg | **violation** | finding 5 |
| blob_round_trip | BlobRoundTrip.cfg | pass (800 states) | both placements round-trip; every structural fault is rejected |

### GetKeyRpc.tla (with MC_GetKeyRpc.tla)

One call of `_async_get_key` or `_sync_get_key`. The two functions have
the same control flow. The sync one passes a literal `0` as the ept_map
context, which equals `context_id`. `pc` is the connection the call is
on and its step: connect, bind, request, returned or raised. `conn` is
the state of each connection, `acks` the bind_ack results the server
sent, and `requests` the requests that went out. The server's replies
are inputs chosen with `\E` from the MC sets. `create_rpc_connection`,
`bind` and `request` may raise a transport error; `GetKey.unpack_response`
(not under `src/`) may reject the bytes.

| TLA+ | Code |
|---|---|
| `Contexts`, `Desired` | `_EPM_CONTEXTS`, `_ISD_KEY_CONTEXTS`, `contexts[0].context_id` |
| `ProcessBindResult` | `_process_bind_result`: positional results, `IndexError` past the requested contexts, `ValueError` when the desired one is not accepted |
| `TcpPort`, `ProcessEptMapResult` | `_process_ept_map_result`: status check, first `TCPFloor` over towers in order |
| `ProcessGetKeyResult` | `_process_get_key_result`: `stub_data[:len - pad_length]` with Python's negative stop |
| `Connect`, `ConnectFail` | `create_rpc_connection`, succeeding or raising before the block |
| `Bind`, `EptMap`, `GetKeyCall` | the bind, ept_map and GetKey steps of each block, with their result processing |
| `TransportFail`, `Raise`, `Exit` | an exception inside a block: `__exit__` closes the connection and the call raises |

* `ConnectionsScoped`: the two connections are never open together, and
  none is left open once the call returned or raised.
* `BindAccepted`: every request goes out on a context whose position in
  that connection's bind_ack says "accept".

Bounds: acks of 0 to 3 results (fewer, as many and more than the one or
two contexts requested); ept_map status 0 or an error; no tower, one full
tower, or a tower without a TCP floor before two towers with one; stub
data of 0, 3 or 8 bytes and pad lengths 0, 2 and 5, so pad lengths below,
equal to, and above the stub length all occur.

| Run | Config | Result | What it shows |
|---|---|---|---|
| get_key_rpc | GetKeyRpc.cfg | pass (709 states) | every path of the call, failing at every await, keeps connections scoped and requests on accepted contexts |

## 4. Findings

1. **`_get_key` returns a stale seed after `load_key`
   (`_client.py:531`).**
   * If an L0 slot holds a seed that does not dominate the request, the
     root-key branch calls `setdefault`. That returns the old seed, not
     the new envelope.
   * The call then cannot derive its key.
   * Every later call at that L0 fails the same way. No RPC is tried,
     because `_get_key` returned a value.
   * Trace: unprotect a blob at (0,0,0) through the RPC, `load_key`,
     then protect or unprotect at (0,0,1).
2. **Unlocked `_store_key` (`_client.py:542-544`).**
   * With the sync API on two threads, a store that read the slot as
     empty overwrites a higher envelope another thread stored in
     between.
   * This breaks the spec's "never backwards" rule.
   * It also breaks spec 8's test 3. Checked on the threaded
     configuration, `ProtectedBlobsHit` fails in 9 states. A thread
     protects with a seed at (0,0,1) and stores it. A second thread's
     older (0,0,0) store overwrites it. Unprotecting the first blob then
     goes to the RPC.
3. **Float L0 index (`_client.py:300`).**
   * Within about 10 FILETIME ticks before an L0 boundary, `int(t / M)`
     rounds up.
   * Protect then probes the cache for (L0+1, 31, 31), a key about ten
     days in the future.
4. **Public-key blobs are cached on unprotect (`_client.py:621`).**
   * `ncrypt_unprotect_secret` stores the server's reply unless the
     *returned envelope* is a public key (spec §3).
   * Spec §8 says unprotecting a blob whose *key identifier* names a
     public key adds no cache entry.
   * When the server returns the private seed for such a blob, the code
     caches it; the trace is one unprotect of a public-key blob through
     the RPC.
5. **Malformed key identifiers are accepted (`_blob.py:105`).**
   * `KeyIdentifier.unpack` never checks a length against the data.
     Slices clamp, a short view reads as a smaller integer, and a
     length below 2 makes `len - 2` a negative slice stop.
   * An identifier truncated to 40 bytes, the fixed fields through the
     root key id, well short of its 52-byte header, unpacks without
     error, with empty names. Spec 7 says a structural violation is
     `InvalidFormat`.
   * The blob then fails later, in key derivation or decryption, with
     a misleading error.

## 5. Fairness

No fairness is assumed and no liveness property is checked. Neither
`_sync_get_key` nor `_async_get_key` sets a timeout, so whether a call
that went to the RPC ever returns depends on the DC and the transport,
not on this code; a liveness property would restate that assumption.
Every run is a safety run over `Spec`.

## 6. Not modelled

* Key bytes, KDFs, AES and DH (`_gkdi`, `_crypto`). They are not under
  `src/`, and TLC cannot reach them.
* DNS and the RPC transport below `bind`/`request`: out of scope. So is
  the check of `GetKey.unpack_response` on the bytes
  `_process_get_key_result` hands it, which is why no property is stated
  about the `pad_length` slice.
  GetKeyRpc takes their results as nondeterministic inputs.
* The security-descriptor bytes.
* The DER bytes of the blob: `_asn1` and `_pkcs7` are not under `src/`,
  so BlobCodec stops at the fields they carry.
* Signed indices in `KeyIdentifier.pack` (`_blob.py:66`). Spec 3 types
  L0/L1/L2 as i32, while `pack` writes them with an unsigned `to_bytes`,
  which raises for -1. Every key identifier the code under `src/`
  builds comes from `unpack`, which reads them unsigned, so no run
  checks this.
* Key identifiers with u32 fields of 2^31 and above: TLC's integers are
  32-bit signed.
