\* One conversion per behaviour: it ends decoded, passed on, refused or in
\* a panic, so a final state is not a deadlock.
CONSTANTS
    Nil = Nil
    Garbage = Garbage
    ZeroHash = ZeroHash
    ZeroAddress = ZeroAddress
    h1 = h1
    a1 = a1
    d1 = d1
    s1 = s1
    au = au
    LocalBlocks <- MCLocalBlocks
    LocalTxs <- MCLocalTxs
    LocalHeaders <- MCLocalHeaders
    PeerBlocks <- MCPeerBlocks
    PeerTxs <- MCPeerTxs
    PeerHeaders <- MCPeerHeaders
INIT Init
NEXT Next
CHECK_DEADLOCK FALSE
INVARIANT RoundTrip
INVARIANT MissingIsZero
