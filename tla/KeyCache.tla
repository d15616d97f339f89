------------------------------ MODULE KeyCache ------------------------------
(***************************************************************************)
(* The KeyCache of src/dpapi_ng/_client.py together with the entry points *)
(* that share it: ncrypt_unprotect_secret and ncrypt_protect_secret (and  *)
(* their async twins, which suspend only at lookup_dc and the GetKey RPC). *)
(*                                                                         *)
(* A GroupKeyEnvelope is abstracted to the node of the seed tree it holds *)
(* (root key id, L0, L1, L2) and its is_public_key flag; key bytes are    *)
(* left out.  A target security descriptor is named by the SID it is      *)
(* built from: sd_to_bytes(owner, group, [ace(SID,3), ace(World,2)]) is   *)
(* injective in the SID.  Time is counted in L2 intervals.                *)
(***************************************************************************)
EXTENDS Integers, FiniteSets

CONSTANTS
    Callers,           \* callers sharing one KeyCache instance
    RootKeyIds,        \* KDS root key ids
    Sids,              \* protection descriptor SIDs
    NoKey,             \* Python None
    KeyTop,            \* highest L1 and L2 index (31 in the code)
    L0Max,             \* highest L0 index the clock reaches
    MaxOps,            \* bound on the number of protect/unprotect calls
    Threaded,          \* TRUE: sync API from threads; FALSE: asyncio tasks
    LoadableRootKeys   \* root keys some caller passes to load_key

ASSUME /\ KeyTop \in Nat /\ L0Max \in Nat /\ MaxOps \in Nat
       /\ Threaded \in BOOLEAN
       /\ LoadableRootKeys \subseteq RootKeyIds

VARIABLES
    seedKeys,    \* KeyCache._seed_keys, flattened to <<root_key_id, sid, l0>>
    rootKeys,    \* the ids in KeyCache._root_keys
    now,         \* time.time_ns(), in L2 intervals
    pc,          \* per caller: "idle", "rpc" (awaiting GetKey), "store"
    req,         \* per caller: the request of its current call
    pending,     \* per caller: envelope read but not yet written (threads)
    seen,        \* per caller: slot value _store_key read before its write
    res,         \* per caller: outcome of its last call
    ops,         \* number of calls started
    maxOffered,  \* history: lexicographic max of every envelope put in a slot
    protectedBlobs \* history: key identifiers of the blobs protect returned

vars == <<seedKeys, rootKeys, now, pc, req, pending, seen, res, ops, maxOffered,
          protectedBlobs>>

K       == KeyTop + 1
Idx     == 0 .. KeyTop
L0s     == 0 .. L0Max
MaxTime == (L0Max + 1) * K * K - 1
Slots   == RootKeyIds \X Sids \X L0s

Envelope == [rk: RootKeyIds, l0: L0s, l1: Idx, l2: Idx, pub: BOOLEAN]

\* A key identifier as DPAPINGBlob.unpack returns it, with the SID of its
\* protection descriptor; pub is key_identifier.is_public_key.
Blob == [rk: RootKeyIds, sid: Sids, l0: L0s, l1: Idx, l2: Idx, pub: BOOLEAN]

Request == [op: {"protect", "unprotect"}, rk: RootKeyIds \cup {NoKey},
            sid: Sids, l0: L0s, l1: Idx, l2: Idx, pub: BOOLEAN]

Outcome == {"none", "ok", "derive_failed", "denied", "rpc_failed"}

TimeOf(x) == (x.l0 * K + x.l1) * K + x.l2

\* Blobs that exist at time t: a key is only ever issued for a past index.
BlobsAt(t) == {b \in Blob : TimeOf(b) <= t}

SlotOf(rk, sid, l0) == <<rk, sid, l0>>

-----------------------------------------------------------------------------
(* Plausible faults in the helpers below; each is a variant a property of *)
(* this module must reject.                                                *)

\* The L2 index taken modulo 33 instead of 32.
CurrentIndexWrongModulus(t) == [l0 |-> t \div (K * K),
                                l1 |-> (t % (K * K)) \div K, l2 |-> t % (K + 1)]

\* A seed at the same L1 accepted whatever its L2.
DominatesL1Only(e, l1, l2) == e.l1 >= l1

\* A seed at the requested index itself not taken as usable.
DominatesStrict(e, l1, l2) == e.l1 > l1 \/ (e.l1 = l1 /\ e.l2 > l2)

\* The L1 tie dropped from the replace test.
NewerNoTie(key, existing) ==
    existing = NoKey \/ key.l1 > existing.l1 \/ key.l2 > existing.l2

\* The replace test of _store_key missing: every store overwrites.
StoreKeyAlways(sk, sid, key) == [sk EXCEPT ![SlotOf(key.rk, sid, key.l0)] = key]

\* The root envelope given index 32 instead of 31.
RootEnvelopePastTop(rk, l0) == [rk |-> rk, l0 |-> l0, l1 |-> K, l2 |-> K,
                                pub |-> FALSE]

-----------------------------------------------------------------------------
(* Helpers translated from _client.py                                      *)

\* _get_protection_gke_from_cache: the (L0, L1, L2) index of the current
\* time (the float rounding of the L0 division is modelled in KdsTime).
CurrentIndex(t) == [l0 |-> t \div (K * K), l1 |-> (t % (K * K)) \div K,
                    l2 |-> t % K]

\* KeyCache._get_key: a cached seed is usable for (l1, l2).
Dominates(e, l1, l2) == e.l1 > l1 \/ (e.l1 = l1 /\ e.l2 >= l2)

\* KeyCache._store_key: the envelope replaces the slot's value.
Newer(key, existing) ==
    \/ existing = NoKey
    \/ key.l1 > existing.l1
    \/ key.l1 = existing.l1 /\ key.l2 > existing.l2

\* KeyCache._get_key: the envelope built from a loaded root key.
RootEnvelope(rk, l0) == [rk |-> rk, l0 |-> l0, l1 |-> KeyTop, l2 |-> KeyTop,
                         pub |-> FALSE]

\* dict.setdefault on a slot.
SetDefault(sk, s, v) == IF sk[s] = NoKey THEN [sk EXCEPT ![s] = v] ELSE sk

\* A fault: the cache key leaves out target_sd, every SID shares one slot.
GetKeyAnySid(sk, rks, rk, sid, l0, l1, l2) ==
    LET s    == SlotOf(rk, CHOOSE x \in Sids : TRUE, l0)
        seed == sk[s]
        sk2  == SetDefault(sk, s, RootEnvelope(rk, l0))
    IN  IF seed # NoKey /\ Dominates(seed, l1, l2)
          THEN [env |-> seed, seeds |-> sk]
        ELSE IF rk \in rks
          THEN [env |-> sk2[s], seeds |-> sk2]
        ELSE [env |-> NoKey, seeds |-> sk]

\* KeyCache._get_key: [env |-> envelope or None, seeds |-> cache after].
GetKey(sk, rks, rk, sid, l0, l1, l2) ==
    LET s    == SlotOf(rk, sid, l0)
        seed == sk[s]
        sk2  == SetDefault(sk, s, RootEnvelope(rk, l0))
    IN  IF seed # NoKey /\ Dominates(seed, l1, l2)
          THEN [env |-> seed, seeds |-> sk]
        ELSE IF rk \in rks
          THEN [env |-> sk2[s], seeds |-> sk2]
        ELSE [env |-> NoKey, seeds |-> sk]

\* KeyCache._store_key
StoreKey(sk, sid, key) ==
    LET s == SlotOf(key.rk, sid, key.l0)
    IN  IF Newer(key, sk[s]) THEN [sk EXCEPT ![s] = key] ELSE sk

\* compute_l2_key / GroupKeyEnvelope.get_kek (in _gkdi, not under src/):
\* a seed derives the key of (l1, l2) only by walking down from it.
CanDerive(e, l1, l2) == e.l1 > l1 \/ (e.l1 = l1 /\ e.l2 >= l2)

\* _get_protection_gke_from_cache: [env, seeds, ok]; ok is FALSE when
\* compute_l2_key refuses to derive the current index from the cached seed.
ProtectionGke(sk, rks, rkid, sid, t) ==
    LET i == CurrentIndex(t)
        r == GetKey(sk, rks, rkid, sid, i.l0, i.l1, i.l2)
    IN  IF rkid = NoKey
          THEN [env |-> NoKey, seeds |-> sk, ok |-> TRUE]
        ELSE IF r.env = NoKey
          THEN [env |-> NoKey, seeds |-> r.seeds, ok |-> TRUE]
        ELSE [env   |-> [rk |-> rkid, l0 |-> i.l0, l1 |-> i.l1, l2 |-> i.l2,
                         pub |-> r.env.pub],
              seeds |-> r.seeds,
              ok    |-> CanDerive(r.env, i.l1, i.l2)]

\* _decrypt_blob: get_kek, cek_decrypt and content_decrypt.
DecryptOutcome(env, b) ==
    IF env.pub THEN "denied"
    ELSE IF CanDerive(env, b.l1, b.l2) THEN "ok" ELSE "derive_failed"

\* The history variable: a slot's lexicographic maximum over all offers.
LexGreater(a, b) == a.l1 > b.l1 \/ (a.l1 = b.l1 /\ a.l2 > b.l2)
Offer(m, s, e) ==
    IF m[s] = NoKey \/ LexGreater(e, m[s])
      THEN [m EXCEPT ![s] = [l1 |-> e.l1, l2 |-> e.l2]] ELSE m

\* The history of protect: the key identifier new_kek gives its blob.
Protected(op, sid, env) ==
    IF op = "protect" /\ ~env.pub
      THEN protectedBlobs \cup {[rk |-> env.rk, sid |-> sid, l0 |-> env.l0,
                                 l1 |-> env.l1, l2 |-> env.l2, pub |-> FALSE]}
      ELSE protectedBlobs

-----------------------------------------------------------------------------
(* Actions                                                                 *)

Init ==
    /\ seedKeys   = [s \in Slots |-> NoKey]
    /\ rootKeys   = {}
    /\ now        = 0
    /\ pc         = [c \in Callers |-> "idle"]
    /\ req        = [c \in Callers |-> NoKey]
    /\ pending    = [c \in Callers |-> NoKey]
    /\ seen       = [c \in Callers |-> NoKey]
    /\ res        = [c \in Callers |-> "none"]
    /\ ops        = 0
    /\ maxOffered = [s \in Slots |-> NoKey]
    /\ protectedBlobs = {}

\* The end of both entry points once a key is in hand: _store_key unless
\* the envelope is a public key, then the crypto with its outcome.
Complete(c, op, sid, env, sk, m, outcome) ==
    LET s == SlotOf(env.rk, sid, env.l0)
    IN  /\ seedKeys'   = IF env.pub THEN sk ELSE StoreKey(sk, sid, env)
        /\ maxOffered' = IF env.pub THEN m ELSE Offer(m, s, env)
        /\ res'        = [res EXCEPT ![c] = outcome]
        /\ pc'         = [pc EXCEPT ![c] = "idle"]
        /\ req'        = [req EXCEPT ![c] = NoKey]
        /\ protectedBlobs' = Protected(op, sid, env)
        /\ UNCHANGED <<pending, seen>>

\* The root-key envelope _get_key inserted, offered to the history.
RootOffer(sk2, rk, sid, l0) ==
    LET s == SlotOf(rk, sid, l0)
    IN  IF sk2[s] # seedKeys[s] THEN Offer(maxOffered, s, sk2[s]) ELSE maxOffered

\* ncrypt_unprotect_secret up to the GetKey RPC, or to the end on a hit.
UnprotectStart(c, b) ==
    LET r  == GetKey(seedKeys, rootKeys, b.rk, b.sid, b.l0, b.l1, b.l2)
        m  == RootOffer(r.seeds, b.rk, b.sid, b.l0)
    IN  /\ pc[c] = "idle"
        /\ ops < MaxOps
        /\ ops' = ops + 1
        /\ IF r.env = NoKey
             THEN /\ pc'  = [pc EXCEPT ![c] = "rpc"]
                  /\ req' = [req EXCEPT ![c] =
                              [op |-> "unprotect", rk |-> b.rk, sid |-> b.sid,
                               l0 |-> b.l0, l1 |-> b.l1, l2 |-> b.l2,
                               pub |-> b.pub]]
                  /\ seedKeys' = r.seeds
                  /\ UNCHANGED <<pending, seen, res, maxOffered, protectedBlobs>>
             ELSE Complete(c, "unprotect", b.sid, r.env, r.seeds, m, DecryptOutcome(r.env, b))
        /\ UNCHANGED <<rootKeys, now>>

\* ncrypt_protect_secret up to the GetKey RPC, or to the end on a hit.
ProtectStart(c, sid, rkid) ==
    LET g == ProtectionGke(seedKeys, rootKeys, rkid, sid, now)
        i == CurrentIndex(now)
        m == IF rkid = NoKey THEN maxOffered ELSE RootOffer(g.seeds, rkid, sid, i.l0)
    IN  /\ pc[c] = "idle"
        /\ ops < MaxOps
        /\ ops' = ops + 1
        /\ IF ~g.ok
             THEN /\ seedKeys' = g.seeds
                  /\ maxOffered' = m
                  /\ res' = [res EXCEPT ![c] = "derive_failed"]
                  /\ UNCHANGED <<pc, req, pending, seen, protectedBlobs>>
           ELSE IF g.env = NoKey
             THEN /\ pc'  = [pc EXCEPT ![c] = "rpc"]
                  /\ req' = [req EXCEPT ![c] =
                              [op |-> "protect", rk |-> rkid, sid |-> sid,
                               l0 |-> i.l0, l1 |-> i.l1, l2 |-> i.l2,
                               pub |-> FALSE]]
                  /\ seedKeys' = g.seeds
                  /\ maxOffered' = m
                  /\ UNCHANGED <<pending, seen, res, protectedBlobs>>
           ELSE Complete(c, "protect", sid, g.env, g.seeds, m, "ok")
        /\ UNCHANGED <<rootKeys, now>>

\* The outcome of a call once its envelope is in hand.
CallOutcome(c, env) ==
    IF req[c].op = "unprotect" THEN DecryptOutcome(env, req[c]) ELSE "ok"

\* The GetKey RPC answers: the rest of the entry point runs.  With threads
\* _store_key's read of the slot and its write are separate steps.
RpcReply(c, env) ==
    /\ pc[c] = "rpc"
    /\ IF Threaded /\ ~env.pub
         THEN /\ pc'      = [pc EXCEPT ![c] = "store"]
              /\ pending' = [pending EXCEPT ![c] = env]
              /\ seen'    = [seen EXCEPT ![c] =
                                seedKeys[SlotOf(env.rk, req[c].sid, env.l0)]]
              /\ UNCHANGED <<seedKeys, req, res, maxOffered, protectedBlobs>>
         ELSE Complete(c, req[c].op, req[c].sid, env, seedKeys, maxOffered, CallOutcome(c, env))
    /\ UNCHANGED <<rootKeys, now, ops>>

\* GetKey for a blob's key identifier returns that node of the tree; it is
\* a public key when the caller may only encrypt to the SID.
UnprotectReply(c) ==
    /\ pc[c] = "rpc"
    /\ req[c].op = "unprotect"
    /\ \E pub \in BOOLEAN :
         RpcReply(c, [rk |-> req[c].rk, l0 |-> req[c].l0, l1 |-> req[c].l1,
                      l2 |-> req[c].l2, pub |-> pub])

\* GetKey with L0 = L1 = L2 = -1 returns the server's current key, under
\* the requested root key or, when none was given, one the server picks.
ProtectReply(c) ==
    /\ pc[c] = "rpc"
    /\ req[c].op = "protect"
    /\ \E rk \in IF req[c].rk = NoKey THEN RootKeyIds ELSE {req[c].rk},
          pub \in BOOLEAN :
         LET i == CurrentIndex(now)
         IN  RpcReply(c, [rk |-> rk, l0 |-> i.l0, l1 |-> i.l1, l2 |-> i.l2,
                          pub |-> pub])

\* lookup_dc or the RPC raises: the exception leaves the cache as it was.
RpcFail(c) ==
    /\ pc[c] = "rpc"
    /\ pc'  = [pc EXCEPT ![c] = "idle"]
    /\ res' = [res EXCEPT ![c] = "rpc_failed"]
    /\ req' = [req EXCEPT ![c] = NoKey]
    /\ UNCHANGED <<seedKeys, rootKeys, now, pending, seen, ops, maxOffered,
                   protectedBlobs>>

\* The write half of _store_key on a thread, against the value it read.
StoreWrite(c) ==
    LET key == pending[c]
        s   == SlotOf(key.rk, req[c].sid, key.l0)
    IN  /\ pc[c] = "store"
        /\ seedKeys'   = IF Newer(key, seen[c])
                           THEN [seedKeys EXCEPT ![s] = key] ELSE seedKeys
        /\ maxOffered' = Offer(maxOffered, s, key)
        /\ res'        = [res EXCEPT ![c] = CallOutcome(c, key)]
        /\ pc'         = [pc EXCEPT ![c] = "idle"]
        /\ pending'    = [pending EXCEPT ![c] = NoKey]
        /\ seen'       = [seen EXCEPT ![c] = NoKey]
        /\ req'        = [req EXCEPT ![c] = NoKey]
        /\ protectedBlobs' = Protected(req[c].op, req[c].sid, key)
        /\ UNCHANGED <<rootKeys, now, ops>>

\* KeyCache.load_key: an upsert into _root_keys.
LoadKey(rk) ==
    /\ rk \in LoadableRootKeys
    /\ rootKeys' = rootKeys \cup {rk}
    /\ UNCHANGED <<seedKeys, now, pc, req, pending, seen, res, ops, maxOffered,
                   protectedBlobs>>

\* The clock advances by one L2 interval.
Tick ==
    /\ now < MaxTime
    /\ now' = now + 1
    /\ UNCHANGED <<seedKeys, rootKeys, pc, req, pending, seen, res, ops,
                   maxOffered, protectedBlobs>>

Next ==
    \/ \E c \in Callers :
         \/ \E b \in BlobsAt(now) : UnprotectStart(c, b)
         \/ \E sid \in Sids, rkid \in RootKeyIds \cup {NoKey} :
              ProtectStart(c, sid, rkid)
         \/ UnprotectReply(c)
         \/ ProtectReply(c)
         \/ RpcFail(c)
         \/ StoreWrite(c)
    \/ \E rk \in RootKeyIds : LoadKey(rk)
    \/ Tick

Spec == Init /\ [][Next]_vars

-----------------------------------------------------------------------------
(* Properties                                                              *)

TypeOK ==
    /\ seedKeys   \in [Slots -> Envelope \cup {NoKey}]
    /\ rootKeys   \subseteq RootKeyIds
    /\ now        \in 0 .. MaxTime
    /\ pc         \in [Callers -> {"idle", "rpc", "store"}]
    /\ req        \in [Callers -> Request \cup {NoKey}]
    /\ pending    \in [Callers -> Envelope \cup {NoKey}]
    /\ seen       \in [Callers -> Envelope \cup {NoKey}]
    /\ res        \in [Callers -> Outcome]
    /\ ops        \in 0 .. MaxOps
    /\ maxOffered \in [Slots -> [l1: Idx, l2: Idx] \cup {NoKey}]
    /\ protectedBlobs \subseteq Blob

\* Cache monotonicity (_store_key, _get_key): however the callers' lookups,
\* RPC replies and stores interleave, each slot holds the lexicographic
\* maximum (L1, L2) of every envelope ever stored in it; no store goes
\* backwards and none that advances the slot is lost.
SlotIsMaxOffered ==
    \A s \in Slots :
        IF seedKeys[s] = NoKey THEN maxOffered[s] = NoKey
        ELSE maxOffered[s] = [l1 |-> seedKeys[s].l1, l2 |-> seedKeys[s].l2]

\* No spurious failure (KeyCache._get_key with the entry points): a call
\* only fails when the RPC fails or the server withholds the private key;
\* never because the cache handed it a seed that cannot derive its key.
NoSpuriousFailure ==
    \A c \in Callers : res[c] # "derive_failed"

\* The refinement mapping: the cache as KeyCacheAtomic sees it, the (L1, L2)
\* of each slot's seed; a caller's request, outcome, the call count and the
\* clock are the concrete ones.
AbsCache ==
    [s \in Slots |-> IF seedKeys[s] = NoKey THEN NoKey
                     ELSE [l1 |-> seedKeys[s].l1, l2 |-> seedKeys[s].l2]]

Atomic == INSTANCE KeyCacheAtomic WITH cache <- AbsCache, started <- ops

\* Linearisability of the entry points over the shared KeyCache, call by
\* call: whatever the other callers' probes, RPC replies and stores in
\* between, each protect/unprotect call is served from the cache exactly
\* when its own slot (root key, target_sd, L0) holds a dominating seed,
\* and otherwise takes effect at its RPC reply by raising only its own
\* slot to the maximum of it and the returned node, or fails leaving the
\* cache as it was; it never ends in a failure to derive its key.
CallsAreAtomic == Atomic!Spec

\* Spec 8, test 3: protect then unprotect through a shared cache makes one
\* get_key call.  Whatever other callers probe and store in between, an
\* unprotect of a blob ncrypt_protect_secret returned through this cache
\* (its key identifier from new_kek of the envelope protect used) finds a
\* dominating seed in _get_key and never goes to the RPC.
ProtectedBlobsHit ==
    [][\A c \in Callers :
         (pc[c] = "idle" /\ pc'[c] = "rpc" /\ req'[c].op = "unprotect")
           => [rk |-> req'[c].rk, sid |-> req'[c].sid, l0 |-> req'[c].l0,
               l1 |-> req'[c].l1, l2 |-> req'[c].l2, pub |-> req'[c].pub]
                \notin protectedBlobs]_vars

\* Public-key exclusion (spec 8) for ncrypt_unprotect_secret: when a call
\* unprotecting a blob whose key identifier is a public key ends, the
\* cache gains no entry for the blob's slot that was not there before.
PublicKeyExclusion ==
    [][\A c \in Callers :
         (/\ pc[c] \in {"rpc", "store"} /\ pc'[c] = "idle"
          /\ req[c].op = "unprotect" /\ req[c].pub)
           => LET s == SlotOf(req[c].rk, req[c].sid, req[c].l0)
              IN  seedKeys[s] = NoKey => seedKeys'[s] = NoKey]_vars

=============================================================================
