CONSTANTS
    Addrs = {"a1", "a2"}
    Pwds = {p1, p2}
    NoEntry = NoEntry
    KeyOrder <- MCKeyOrder
    DefaultPassword = p1
    RpcLevels <- MCRpcLevels
    RpcPorts <- MCRpcPorts
    PortSets <- MCPortSets

SPECIFICATION Spec

\* A started miner blocks on quitChan and a process that exited takes no
\* further step: both are final states of the real program.
CHECK_DEADLOCK FALSE

INVARIANT MinerKeyOpens
INVARIANT RpcGivesUpOnlyWhenAllBusy
PROPERTY LateCtrlCExits
