------------------------------ MODULE GetKeyRpc ------------------------------
(***************************************************************************)
(* One call of _async_get_key / _sync_get_key: a connection to the        *)
(* endpoint mapper, its bind and ept_map request, then a connection to    *)
(* the ISD_KEY port it returned, its bind and the GetKey request.  The    *)
(* server chooses the bind acks, the ept_map status and towers and the    *)
(* response's stub data and auth padding; every await may raise a         *)
(* transport error.  The two functions have the same control flow.        *)
(***************************************************************************)
EXTENDS Integers, Sequences, SequencesExt

LOCAL KIF == INSTANCE KeyIdentifierFormat

CONSTANTS
    Ports,        \* TCP ports an ept_map tower may carry
    AckResults,   \* sequences of "accept"/"reject" a bind_ack may carry
    Statuses,     \* ept_map status values
    TowerLists,   \* tower lists of an ept_map response, towers of floors
    StubLens,     \* lengths of the GetKey response's stub data
    PadLens,      \* sec_trailer pad_length values (0: no trailer padding)
    None

\* _EPM_CONTEXTS and _ISD_KEY_CONTEXTS as their context ids, and the
\* context each call binds for: contexts[0].context_id.
Conns == {"epm", "isd"}
Contexts == [epm |-> <<0>>, isd |-> <<0, 1>>]
Desired(k) == Contexts[k][1]

VARIABLES
    pc,        \* [at: the connection the call is on, step]
    conn,      \* each connection: "unopened", "open" or "closed"
    acks,      \* the bind_ack results the server sent on each connection
    requests,  \* the requests sent, in order, as [conn, ctx]
    port,      \* isd_key_port, None before ept_map returned it
    resp,      \* the GetKey response: stub data and sec_trailer pad_length
    result     \* pending, the raw envelope bytes, or the error raised

vars == <<pc, conn, acks, requests, port, resp, result>>

Steps == {"connect", "bind", "request", "returned", "raised"}

(***************************************************************************)
(* Result processing.                                                      *)
(***************************************************************************)
\* A fault: the bind is taken as successful when any context was accepted.
ProcessBindResultAnyAccepted(requested, results, desired) ==
    IF \E i \in DOMAIN results : results[i] = "accept" THEN "ok" ELSE "ValueError"

\* _process_bind_result: results are positional, requested_contexts[idx]
\* raises IndexError when the ack has more results than contexts.
ProcessBindResult(requested, results, desired) ==
    LET accepted == {i \in DOMAIN results : results[i] = "accept"} IN
    IF \E i \in accepted : i > Len(requested) THEN "IndexError"
    ELSE IF desired \in {requested[i] : i \in accepted} THEN "ok"
    ELSE "ValueError"

\* A fault: the first floor's value is taken whatever kind of floor it is.
TcpPortFirstFloor(towers) ==
    IF FlattenSeq(towers) = <<>> THEN None ELSE Head(FlattenSeq(towers)).value

\* The port of the first TCPFloor, towers and floors in order.
TcpPort(towers) ==
    LET tcp == SelectSeq(FlattenSeq(towers), LAMBDA f : f.kind = "tcp") IN
    IF tcp = <<>> THEN None ELSE Head(tcp).value

\* _process_ept_map_result.
ProcessEptMapResult(status, towers) ==
    IF status # 0 \/ TcpPort(towers) = None THEN [err |-> "ValueError"]
    ELSE [err |-> "none", port |-> TcpPort(towers)]

\* _process_get_key_result: stub_data[:len(stub_data) - pad_length], a
\* Python slice, so a negative stop counts from the end.
ProcessGetKeyResult(stub, pad) == KIF!Take(stub, Len(stub) - pad)

\* A fault: the connection is not entered as a context manager.
ExitMissing(k) == conn

\* Leaving the with / async with block closes the connection.
Exit(k) == [conn EXCEPT ![k] = "closed"]

(***************************************************************************)
(* The call.                                                               *)
(***************************************************************************)
Init ==
    /\ pc = [at |-> "epm", step |-> "connect"]
    /\ conn = [k \in Conns |-> "unopened"]
    /\ acks = [k \in Conns |-> <<>>]
    /\ requests = <<>>
    /\ port = None
    /\ resp = [stub |-> <<>>, pad |-> 0]
    /\ result = [kind |-> "pending"]

\* An exception leaves the block of connection k: it is closed, the call raises.
Raise(k, e) ==
    /\ pc' = [at |-> k, step |-> "raised"]
    /\ result' = [kind |-> "error", err |-> e]
    /\ conn' = Exit(k)

\* create_rpc_connection (to port 135, then to isd_key_port).
Connect(k) ==
    /\ pc = [at |-> k, step |-> "connect"]
    /\ conn' = [conn EXCEPT ![k] = "open"]
    /\ pc' = [pc EXCEPT !.step = "bind"]
    /\ UNCHANGED <<acks, requests, port, resp, result>>

\* create_rpc_connection raises before the block is entered.
ConnectFail(k) ==
    /\ pc = [at |-> k, step |-> "connect"]
    /\ pc' = [at |-> k, step |-> "raised"]
    /\ result' = [kind |-> "error", err |-> "TransportError"]
    /\ UNCHANGED <<conn, acks, requests, port, resp>>

\* rpc.bind returns the server's ack; _process_bind_result checks it.
Bind(k, results) ==
    /\ pc = [at |-> k, step |-> "bind"]
    /\ acks' = [acks EXCEPT ![k] = results]
    /\ LET r == ProcessBindResult(Contexts[k], results, Desired(k)) IN
       IF r = "ok" THEN /\ pc' = [pc EXCEPT !.step = "request"]
                        /\ UNCHANGED <<conn, result>>
                   ELSE Raise(k, r)
    /\ UNCHANGED <<requests, port, resp>>

\* rpc.bind or rpc.request raises inside the block.
TransportFail(k) ==
    /\ pc.at = k /\ pc.step \in {"bind", "request"}
    /\ Raise(k, "TransportError")
    /\ UNCHANGED <<acks, requests, port, resp>>

\* The ept_map request; on success the block ends and the EPM connection closes.
EptMap(status, towers) ==
    /\ pc = [at |-> "epm", step |-> "request"]
    /\ requests' = Append(requests, [conn |-> "epm", ctx |-> Desired("epm")])
    /\ LET r == ProcessEptMapResult(status, towers) IN
       IF r.err = "none"
       THEN /\ port' = r.port
            /\ conn' = Exit("epm")
            /\ pc' = [at |-> "isd", step |-> "connect"]
            /\ UNCHANGED result
       ELSE Raise("epm", r.err) /\ UNCHANGED port
    /\ UNCHANGED <<acks, resp>>

\* The GetKey request and the return from inside the block.
\* GetKey.unpack_response (not part of this client) may reject the bytes.
GetKeyCall(stubLen, pad) ==
    /\ pc = [at |-> "isd", step |-> "request"]
    /\ requests' = Append(requests, [conn |-> "isd", ctx |-> Desired("isd")])
    /\ resp' = [stub |-> [i \in 1..stubLen |-> i], pad |-> pad]
    /\ \/ /\ result' = [kind |-> "envelope",
                        raw |-> ProcessGetKeyResult(resp'.stub, pad)]
          /\ pc' = [pc EXCEPT !.step = "returned"]
          /\ conn' = Exit("isd")
       \/ Raise("isd", "InvalidFormat")
    /\ UNCHANGED <<acks, port>>

Next ==
    \/ \E k \in Conns :
         \/ Connect(k)
         \/ ConnectFail(k)
         \/ TransportFail(k)
         \/ \E r \in AckResults : Bind(k, r)
    \/ \E s \in Statuses, t \in TowerLists : EptMap(s, t)
    \/ \E n \in StubLens, p \in PadLens : GetKeyCall(n, p)

Spec == Init /\ [][Next]_vars

(***************************************************************************)
(* Properties.                                                             *)
(***************************************************************************)
TypeOK ==
    /\ pc \in [at: Conns, step: Steps]
    /\ conn \in [Conns -> {"unopened", "open", "closed"}]
    /\ acks \in [Conns -> AckResults \cup {<<>>}]
    /\ requests \in Seq([conn: Conns, ctx: {0, 1}])
    /\ port \in Ports \cup {None}
    /\ result.kind \in {"pending", "envelope", "error"}

\* The with / async with blocks scope each connection: the EPM connection
\* is closed before the ISD_KEY one is opened, and once the call has
\* returned or raised, on any path, no connection is left open.
ConnectionsScoped ==
    /\ ~(conn.epm = "open" /\ conn.isd = "open")
    /\ pc.step \in {"returned", "raised"} => \A k \in Conns : conn[k] # "open"

\* DCE/RPC: a request is sent only on a presentation context the server
\* accepted in the bind_ack of that connection (the result at the
\* context's position), whatever results, in number or order, it sent.
BindAccepted ==
    \A i \in DOMAIN requests :
        LET r == requests[i] IN
        \E j \in DOMAIN acks[r.conn] :
            /\ acks[r.conn][j] = "accept"
            /\ j <= Len(Contexts[r.conn])
            /\ Contexts[r.conn][j] = r.ctx

=============================================================================
