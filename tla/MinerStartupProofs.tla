------------------------- MODULE MinerStartupProofs -------------------------
(***************************************************************************)
(* Proofs about MinerStartup for every set of addresses and passwords,    *)
(* every key order, every --rpc level, --rpcport and set of busy ports.   *)
(*                                                                         *)
(* MinerKeyOpens is inductive once the variables are typed: checkAddress  *)
(* is the only step that sets the account, and nothing after it writes    *)
(* the store, the password or the configured address.  The one fact that *)
(* needs an argument is that getFirstMinerAccount's CHOOSE picks an entry  *)
(* of the keystore: a non-empty set of key positions has a least element. *)
(*                                                                         *)
(* RpcGivesUpOnlyWhenAllBusy is not inductive: it speaks only of the end  *)
(* of startRPC's loop.  RpcLoopInv adds what the loop knows on the way:   *)
(* plus is 0 before it starts, and while it runs the plus ports from      *)
(* rpcPort on were all found in use.                                       *)
(***************************************************************************)
EXTENDS MinerStartup, WellFoundedInduction, SequenceTheorems, TLAPS

(* The main goroutine's places before startRPC's loop.                     *)
BeforeRpc == {"start", "address", "network", "core", "consensus", "rpc"}

MTypeOK ==
    /\ store \in [Addrs -> Pwds \cup {NoEntry}]
    /\ account \in Addrs \cup {NoEntry}
    /\ minerAddr \in Addrs \cup {NoEntry}
    /\ password \in Pwds
    /\ pc \in MainPcs
    /\ rpcPort \in 0..MaxPort
    /\ plus \in 0..PortTries
    /\ inUse \subseteq Int

(* The ports startRPC's loop found in use before the current one.         *)
RpcLoopInv ==
    /\ pc \in BeforeRpc => plus = 0
    /\ pc = "listen" =>
          /\ plus \in 0..(PortTries - 1)
          /\ \A i \in 0..(plus - 1) : (rpcPort + i) % 65536 \in inUse

IInv ==
    /\ MTypeOK
    /\ MinerKeyOpens
    /\ RpcLoopInv
    /\ RpcGivesUpOnlyWhenAllBusy

-----------------------------------------------------------------------------
(* A non-empty set of naturals has a least element: what makes the CHOOSE *)
(* of getFirstMinerAccount pick one of the matching key positions.         *)
LEMMA LeastElement ==
    ASSUME NEW S \in SUBSET Nat, S # {}
    PROVE  \E i \in S : \A j \in S : i <= j
<1>1. PICK i \in S : \A j \in S : ~(<<j, i>> \in OpToRel(<, Nat))
    BY NatLessThanWellFounded, WFMin
<1>2. \A j \in S : ~(j < i)
    BY <1>1, Zenon DEF OpToRel
<1>3. QED
    BY <1>2

(* getFirstMinerAccount returns NoEntry or a keystore address whose entry  *)
(* the password decrypts.                                                   *)
LEMMA FirstMinerOpens ==
    ASSUME MTypeOK, NEW p, FirstMinerAccount(p) # NoEntry
    PROVE  /\ FirstMinerAccount(p) \in Addrs
           /\ store[FirstMinerAccount(p)] = p
<1> DEFINE hits == {i \in 1..Len(KeyOrder) : store[KeyOrder[i]] = p}
           first == CHOOSE i \in hits : \A j \in hits : i <= j
<1>1. bucket /\ hits # {}
    BY DEF FirstMinerAccount, hits
<1>2. FirstMinerAccount(p) = KeyOrder[first]
    BY <1>1 DEF FirstMinerAccount, hits, first
<1>0. KeyOrder \in Seq(Addrs)
    BY MinerAssumption
<1>3. Len(KeyOrder) \in Nat
    BY <1>0, LenProperties
<1>4. hits \in SUBSET Nat
    BY <1>3 DEF hits
<1>5. \E i \in hits : \A j \in hits : i <= j
    BY <1>1, <1>4, LeastElement
<1>6. first \in hits
    BY <1>5 DEF first
<1>7. KeyOrder[first] \in Addrs
    BY <1>0, <1>6, ElementOfSeq DEF hits
<1>8. QED
    BY <1>2, <1>6, <1>7 DEF hits

-----------------------------------------------------------------------------
LEMMA InitIInv == Init => IInv
BY MinerAssumption DEF Init, IInv, MTypeOK, MinerKeyOpens, RpcLoopInv,
                       RpcGivesUpOnlyWhenAllBusy, BeforeRpc, MainPcs, PortTries

(* The steps that change none of the variables IInv speaks of.             *)
LEMMA OtherStepsIInv ==
    ASSUME IInv,
           UNCHANGED <<store, account, minerAddr, password, pc, rpcVars>>
    PROVE  IInv'
BY DEF rpcVars, IInv, MTypeOK, MinerKeyOpens, RpcLoopInv,
       RpcGivesUpOnlyWhenAllBusy

(* A step that stops the main goroutine and leaves the rest alone.         *)
LEMMA ExitIInv ==
    ASSUME IInv, pc' = "exited",
           UNCHANGED <<store, account, minerAddr, password, rpcVars>>
    PROVE  IInv'
BY DEF rpcVars, IInv, MTypeOK, MinerKeyOpens, RpcLoopInv,
       RpcGivesUpOnlyWhenAllBusy, MainPcs, BeforeRpc

LEMMA NextIInv == IInv /\ [Next]_vars => IInv'
<1> SUFFICES ASSUME IInv, [Next]_vars PROVE IInv'
    OBVIOUS
<1>1. CASE OpenKeystore
  <2>1. /\ pc = "start"
        /\ pc' \in {"address", "exited"}
        /\ UNCHANGED <<minerAddr, password, account>>
        /\ UNCHANGED rpcVars
    BY <1>1 DEF OpenKeystore, Fail
  <2>2. store' \in [Addrs -> Pwds \cup {NoEntry}]
    BY <1>1, MinerAssumption DEF OpenKeystore, Fail, IInv, MTypeOK
  <2>3. QED
    BY <2>1, <2>2 DEF rpcVars, IInv, MTypeOK, MinerKeyOpens, RpcLoopInv,
       RpcGivesUpOnlyWhenAllBusy, MainPcs, BeforeRpc
<1>2. CASE CheckMinerAddress
    <2>1. CASE /\ minerAddr # NoEntry
               /\ KS!LoadAccount(minerAddr, password) = "ok"
               /\ account' = minerAddr /\ pc' = "network"
        <3>1. store[minerAddr] = password
            BY <2>1 DEF KS!LoadAccount
        <3>2. QED
            BY <1>2, <2>1, <3>1 DEF CheckMinerAddress, rpcVars, IInv, MTypeOK,
               MinerKeyOpens, RpcLoopInv, RpcGivesUpOnlyWhenAllBusy, MainPcs,
               BeforeRpc
    <2>2. CASE /\ minerAddr = NoEntry
               /\ FirstMinerAccount(password) # NoEntry
               /\ account' = FirstMinerAccount(password) /\ pc' = "network"
        <3>1. /\ FirstMinerAccount(password) \in Addrs
              /\ store[FirstMinerAccount(password)] = password
            BY <2>2, FirstMinerOpens DEF IInv
        <3>2. QED
            BY <1>2, <2>2, <3>1 DEF CheckMinerAddress, rpcVars, IInv, MTypeOK,
               MinerKeyOpens, RpcLoopInv, RpcGivesUpOnlyWhenAllBusy, MainPcs,
               BeforeRpc
    <2>3. CASE pc' = "exited"
        BY <1>2, <2>3, ExitIInv DEF CheckMinerAddress
    <2>4. QED
        BY <1>2, <2>1, <2>2, <2>3 DEF CheckMinerAddress, Fail
<1>3. ASSUME NEW from \in {"network", "core", "consensus"},
             NEW to \in {"core", "consensus", "rpc"},
             InitStep(from, to)
      PROVE  IInv'
    BY <1>3 DEF InitStep, Fail, rpcVars, IInv, MTypeOK, MinerKeyOpens,
       RpcLoopInv, RpcGivesUpOnlyWhenAllBusy, MainPcs, BeforeRpc
<1>4. CASE StartRPC
    BY <1>4 DEF StartRPC, Fail, rpcVars, IInv, MTypeOK, MinerKeyOpens,
       RpcLoopInv, RpcGivesUpOnlyWhenAllBusy, MainPcs, BeforeRpc, PortTries
<1>5. CASE Listen
    <2>0. pc = "listen" /\ rpcPort \in Int /\ plus \in Int
        BY <1>5 DEF Listen, IInv, MTypeOK
    <2>1. CASE /\ Endpoint \in inUse /\ plus' = plus + 1 /\ plus + 1 < PortTries
               /\ UNCHANGED <<store, account, minerAddr, password, pc, rpcPort,
                              inUse, rpcResult>>
        <3>1. \A i \in 0..plus : (rpcPort + i) % 65536 \in inUse
            BY <2>0, <2>1 DEF IInv, MTypeOK, RpcLoopInv, Endpoint
        <3>2. QED
            BY <2>0, <2>1, <3>1 DEF IInv, MTypeOK, RpcLoopInv, MinerKeyOpens,
               RpcGivesUpOnlyWhenAllBusy, PortTries, BeforeRpc
    <2>2. CASE /\ Endpoint \in inUse /\ plus' = plus + 1 /\ ~(plus + 1 < PortTries)
               /\ pc' = "exited" /\ rpcResult' = "busy"
               /\ UNCHANGED <<store, account, minerAddr, password, rpcPort, inUse>>
        <3>1. pc = "listen" /\ plus = 39
            BY <1>5, <2>2 DEF Listen, IInv, MTypeOK, RpcLoopInv, PortTries
        <3>2. \A i \in 0..39 : (rpcPort + i) % 65536 \in inUse
            BY <2>2, <3>1 DEF IInv, RpcLoopInv, Endpoint
        <3>3. QED
            BY <2>2, <3>1, <3>2 DEF IInv, MTypeOK, RpcLoopInv, MinerKeyOpens,
               RpcGivesUpOnlyWhenAllBusy, MainPcs, BeforeRpc, PortTries
    <2>3. CASE /\ pc' = "msg" /\ rpcResult' = "serving"
               /\ inUse' = inUse \cup {rpcAt'} /\ rpcAt' \in Int
               /\ UNCHANGED <<store, account, minerAddr, password, rpcPort, plus>>
        BY <1>5, <2>3 DEF Listen, IInv, MTypeOK, RpcLoopInv, MinerKeyOpens,
           RpcGivesUpOnlyWhenAllBusy, MainPcs, BeforeRpc
    <2>4. CASE /\ pc' = "exited" /\ rpcResult' = "denied"
               /\ UNCHANGED <<store, account, minerAddr, password, rpcPort,
                              inUse, plus>>
        BY <2>4 DEF IInv, MTypeOK, RpcLoopInv, MinerKeyOpens,
           RpcGivesUpOnlyWhenAllBusy, MainPcs, BeforeRpc
    <2>5. QED
        <3>1. CASE Endpoint \in inUse
            BY <1>5, <2>1, <2>2, <3>1 DEF Listen, Fail
        <3>2. CASE Endpoint \notin inUse /\ pc' = "msg"
            <4>1. Endpoint \in Int
                BY <2>0 DEF Endpoint
            <4>2. QED
                BY <1>5, <2>3, <3>2, <4>1 DEF Listen, Fail, Ephemeral
        <3>3. CASE Endpoint \notin inUse /\ pc' # "msg"
            BY <1>5, <2>4, <3>3 DEF Listen, Fail
        <3>4. QED
            BY <3>1, <3>2, <3>3
<1>6. CASE Inited
    BY <1>6 DEF Inited, rpcVars, IInv, MTypeOK, MinerKeyOpens, RpcLoopInv,
       RpcGivesUpOnlyWhenAllBusy, MainPcs, BeforeRpc
<1>7. CASE PressCtrlC \/ ExitWakes
    BY <1>7, OtherStepsIInv DEF PressCtrlC, ExitWakes
<1>8. CASE ExitCloses
    <2>1. CASE pc' = pc
        BY <1>8, <2>1, OtherStepsIInv DEF ExitCloses
    <2>2. CASE pc' = "exited"
        BY <1>8, <2>2, ExitIInv DEF ExitCloses
    <2>3. QED
        BY <1>8, <2>1, <2>2 DEF ExitCloses
<1>9. CASE Quit
    BY <1>9, ExitIInv DEF Quit
<1>10. CASE UNCHANGED vars
    BY <1>10, OtherStepsIInv DEF vars
<1>11. QED
    BY <1>1, <1>2, <1>3, <1>4, <1>5, <1>6, <1>7, <1>8, <1>9, <1>10
       DEF Next, MainStep

(* Once checkAddress has returned, the miner runs with the configured      *)
(* address, or with the first keystore entry its --password decrypts, and *)
(* that password decrypts the account's key: for every keystore, key      *)
(* order, configuration and password.                                      *)
THEOREM KeyOpens == Spec => []MinerKeyOpens
<1>1. IInv => MinerKeyOpens
    BY DEF IInv
<1>2. QED
    BY <1>1, InitIInv, NextIInv, PTL DEF Spec

(* startRPC reports that no port is free only when all 40 ports from      *)
(* --rpcport on, counted modulo 2^16, were in use: for every port and     *)
(* every set of busy ports.                                                 *)
THEOREM RpcGivesUp == Spec => []RpcGivesUpOnlyWhenAllBusy
<1>1. IInv => RpcGivesUpOnlyWhenAllBusy
    BY DEF IInv
<1>2. QED
    BY <1>1, InitIInv, NextIInv, PTL DEF Spec

=============================================================================
