--------------------------- MODULE MCMinerStartup ---------------------------
(* Miner startup with two keys, two passwords (the first is the default),  *)
(* and the bucket holding a1 before a2.                                     *)
EXTENDS MinerStartup

MCKeyOrder == <<"a1", "a2">>

(* --rpc off, a service level, a level above rpcLevelDev.                  *)
MCRpcLevels == {0, 2, 4}

(* The default port, and one 40 ports below the top of the range.           *)
MCRpcPorts == {8101, 65500}

(* No other listener; the first 39 or all 40 of startRPC's ports taken,    *)
(* from either start; the top ports and port 0 taken, so that the sum      *)
(* wraps to a privileged port.                                              *)
MCPortSets == {{}, 8101..8139, 8101..8140, 65500..65535, 0..2 \cup 65500..65535}

=============================================================================
