----------------------------- MODULE MC_GetKeyRpc -----------------------------
EXTENDS GetKeyRpc

\* Acks of up to three results: fewer, as many and more than requested.
MCAckResults ==
    UNION {[1..n -> {"accept", "reject"}] : n \in 0..3}

\* Floors as ept_map returns them: interface and data-representation
\* UUID floors, the RPC protocol floor, the TCP floor, the IP floor.
UuidFloor == [kind |-> "uuid", value |-> 1]
RpcFloor  == [kind |-> "rpc_co", value |-> 0]
IpFloor   == [kind |-> "ip", value |-> 0]
Tcp(p)    == [kind |-> "tcp", value |-> p]

\* No tower; one full tower; a tower without a TCP floor before two with one.
MCTowerLists ==
    { <<>>,
      << <<UuidFloor, UuidFloor, RpcFloor, Tcp(49664), IpFloor>> >>,
      << <<UuidFloor, RpcFloor, IpFloor>>,
         <<UuidFloor, RpcFloor, Tcp(49665), IpFloor>>,
         <<UuidFloor, Tcp(49664)>> >> }

MCPorts == {49664, 49665}
MCStatuses == {0, 22}
MCStubLens == {0, 3, 8}
MCPadLens == {0, 2, 5}

=============================================================================
