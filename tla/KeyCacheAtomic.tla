--------------------------- MODULE KeyCacheAtomic ---------------------------
(***************************************************************************)
(* What a KeyCache shared by several callers promises, call by call.  A   *)
(* protect or unprotect call either takes effect in the step that invokes *)
(* it (a cache hit: the seed in the request's own slot dominates the      *)
(* requested index, the call succeeds and the cache is unchanged), or it  *)
(* records its request on a miss and later takes effect in one step: the  *)
(* key the server returns for that request raises only the slot of that   *)
(* request's root key, SID and L0, to the lexicographic maximum of what   *)
(* it held and the new node, or the call fails in the transport and the   *)
(* cache is as it was.  Slots hold the (L1, L2) of their seed.            *)
(***************************************************************************)
EXTENDS Integers

CONSTANTS Callers, RootKeyIds, Sids, NoKey, KeyTop, L0Max

VARIABLES
    cache,    \* per slot <<root key, SID, L0>>: the (L1, L2) held, or NoKey
    req,      \* per caller: the request of its call in progress, or NoKey
    res,      \* per caller: the outcome of its last call
    started,  \* number of calls invoked
    now       \* the clock, in L2 intervals

K       == KeyTop + 1
Idx     == 0 .. KeyTop
L0s     == 0 .. L0Max
MaxTime == (L0Max + 1) * K * K - 1
Slots   == RootKeyIds \X Sids \X L0s

Index(t) == [l0 |-> t \div (K * K), l1 |-> (t % (K * K)) \div K, l2 |-> t % K]
Before(x, t) == (x.l0 * K + x.l1) * K + x.l2 <= t

\* The requests a caller may invoke at time t: unprotect of a blob issued
\* at or before t, or protect at the current index under a root key or none.
Requests(t) ==
    [op: {"unprotect"}, rk: RootKeyIds, sid: Sids, l0: L0s, l1: Idx, l2: Idx,
     pub: BOOLEAN]
    \cup
    [op: {"protect"}, rk: RootKeyIds \cup {NoKey}, sid: Sids, l0: {Index(t).l0},
     l1: {Index(t).l1}, l2: {Index(t).l2}, pub: {FALSE}]

Valid(r) == r.op = "protect" \/ Before(r, now)

Holds(s, l1, l2) ==
    cache[s] # NoKey /\ (cache[s].l1 > l1 \/ (cache[s].l1 = l1 /\ cache[s].l2 >= l2))

Hit(r) == r.rk # NoKey /\ Holds(<<r.rk, r.sid, r.l0>>, r.l1, r.l2)

LexMax(a, b) == IF a.l1 > b.l1 \/ (a.l1 = b.l1 /\ a.l2 >= b.l2) THEN a ELSE b

Raise(old, n) == IF old = NoKey THEN n ELSE LexMax(old, n)

Init ==
    /\ cache   = [s \in Slots |-> NoKey]
    /\ req     = [c \in Callers |-> NoKey]
    /\ res     = [c \in Callers |-> "none"]
    /\ started = 0
    /\ now     = 0

\* A call served from the cache: it succeeds at once.
Served(c, r) ==
    /\ req[c] = NoKey /\ Valid(r) /\ Hit(r)
    /\ res' = [res EXCEPT ![c] = "ok"]
    /\ started' = started + 1
    /\ UNCHANGED <<cache, req, now>>

\* A call that misses the cache waits for the server.
Invoke(c, r) ==
    /\ req[c] = NoKey /\ Valid(r) /\ ~Hit(r)
    /\ req' = [req EXCEPT ![c] = r]
    /\ started' = started + 1
    /\ UNCHANGED <<cache, res, now>>

\* The server's key for the request takes effect: for unprotect the node
\* of the blob, for protect the current node under the requested root
\* key (any, when none was requested).  A public key is not cached and
\* denies unprotect.
Respond(c) ==
    LET r == req[c] IN
    /\ r # NoKey
    /\ \E rk \in IF r.rk = NoKey THEN RootKeyIds ELSE {r.rk}, pub \in BOOLEAN :
         LET n == IF r.op = "unprotect" THEN r ELSE Index(now)
         IN  /\ cache' = IF pub THEN cache
                         ELSE [cache EXCEPT ![<<rk, r.sid, n.l0>>] =
                                 Raise(@, [l1 |-> n.l1, l2 |-> n.l2])]
             /\ res' = [res EXCEPT ![c] =
                          IF pub /\ r.op = "unprotect" THEN "denied" ELSE "ok"]
    /\ req' = [req EXCEPT ![c] = NoKey]
    /\ UNCHANGED <<started, now>>

\* The transport raises: the cache is as it was.
Fail(c) ==
    /\ req[c] # NoKey
    /\ req' = [req EXCEPT ![c] = NoKey]
    /\ res' = [res EXCEPT ![c] = "rpc_failed"]
    /\ UNCHANGED <<cache, started, now>>

Tick ==
    /\ now < MaxTime
    /\ now' = now + 1
    /\ UNCHANGED <<cache, req, res, started>>

Next ==
    \/ \E c \in Callers :
         \/ \E r \in Requests(now) : Served(c, r) \/ Invoke(c, r)
         \/ Respond(c)
         \/ Fail(c)
    \/ Tick

Spec == Init /\ [][Next]_<<cache, req, res, started, now>>

=============================================================================
