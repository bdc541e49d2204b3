------------------------------ MODULE MCCodec ------------------------------
EXTENDS Codec

CONSTANTS h1, a1, d1, s1, au

(* Transactions the node builds: signed, amounts set, with and without a   *)
(* target and a recovered sender, of a negative and a positive type.       *)
MCTx == [data : {d1}, value : {0, -1}, nonce : {0, 1}, target : {Nil, a1},
         type : {0, -1}, gasLimit : {1}, gasPrice : {1}, hash : {h1},
         sign : {s1}, source : {Nil, a1}]

MCHeader == [hash : {h1}, height : {0, 1}, preHash : {ZeroHash, h1},
             curTime : {5}, proposer : {a1}, nonce : {1}, txTree : {ZeroHash},
             receiptTree : {ZeroHash}, stateTree : {ZeroHash}, baseTarget : {1},
             difficulty : {0, 3}, auth : {au}, sign : {s1}]

MCLocalTxs == {<<>>, Nil} \cup {<<t>> : t \in MCTx}

MCLocalBlocks == {Nil} \cup [header : MCHeader, transactions : {<<>>} \cup {<<t>> : t \in MCTx}]

(* What a peer may send: any field absent, a type beyond int8.             *)
MCPbTx == [data : {Nil, d1}, value : {Nil, -1}, nonce : {Nil, 1}, target : {Nil, a1},
           type : {Nil, 5, 260}, gasLimit : {Nil}, gasPrice : {Nil, 2},
           hash : {Nil, h1}, sign : {s1}]

MCPbHeader == [hash : {Nil, h1}, height : {Nil, 1}, preHash : {Nil},
               curTime : {Nil, 5}, proposer : {Nil, a1}, nonce : {Nil},
               txTree : {Nil}, receiptTree : {Nil}, stateTree : {Nil},
               baseTarget : {Nil, 1}, difficulty : {Nil, 3}, auth : {au}, sign : {s1}]

MCLocalHeaders == {Nil} \cup MCHeader

MCPeerHeaders == MCPbHeader

MCPeerTxs == {Nil} \cup {<<t>> : t \in MCPbTx}

MCPeerBlocks == [header : {Nil} \cup MCPbHeader, transactions : {Nil, <<>>}]
                \cup [header : {Nil}, transactions : {<<t>> : t \in MCPbTx}]
=============================================================================
