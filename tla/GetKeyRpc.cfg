\* One get_key call against every server reply in the MC sets, with a
\* transport error possible at every await.
CONSTANTS
    Ports <- MCPorts
    AckResults <- MCAckResults
    Statuses <- MCStatuses
    TowerLists <- MCTowerLists
    StubLens <- MCStubLens
    PadLens <- MCPadLens
    None = None
SPECIFICATION Spec
INVARIANTS TypeOK ConnectionsScoped BindAccepted
\* The call ends when it has returned or raised.
CHECK_DEADLOCK FALSE
