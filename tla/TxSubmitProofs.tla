--------------------------- MODULE TxSubmitProofs ---------------------------
(***************************************************************************)
(* Proofs about TxSubmit for all clients, accounts and bounds.            *)
(*                                                                         *)
(* ConsoleOkMeansPooled is not inductive: it says nothing of a Gx_tx      *)
(* answer still on its way to the console.  IInv adds that every "ok"     *)
(* answer belongs to the request in flight and that request's transaction *)
(* is pooled or committed, and the facts about sends and txn that keep    *)
(* the pooled records well typed.                                          *)
(***************************************************************************)
EXTENDS TxSubmit, TLAPS

(* Identities of the transactions the pool holds or a block committed.    *)
Ids == {t.id : t \in pool} \cup done

IInv ==
    /\ TypeOK
    /\ \A c \in Clients : cpc[c] # "idle" => sends[c] \in 1..MaxSends
    /\ \A c \in Clients : cpc[c] = "tx" => txn[c] \in 1..MaxNonce
    /\ \A c \in Clients : answer[c] # "none" => cpc[c] = "reply"
    /\ \A c \in Clients : answer[c] = "ok" => <<c, sends[c]>> \in Ids
    /\ ConsoleOkMeansPooled

LEMMA InitIInv == Init => IInv
BY TxSubmitAssumption DEF Init, IInv, TypeOK, Ids, ConsoleOkMeansPooled

(* Every step but a new sendtx keeps the identities it knew of.            *)
LEMMA IdsGrow ==
    ASSUME IInv, NEW a \in Accounts, Commit(a)
    PROVE  Ids \subseteq Ids'
BY DEF Commit, Ids

LEMMA NextIInv == IInv /\ [Next]_vars => IInv'
<1> SUFFICES ASSUME IInv, [Next]_vars PROVE IInv'
    OBVIOUS
<1> USE TxSubmitAssumption DEF IInv, TypeOK, ConsoleOkMeansPooled, Ids, SendTxArgs
<1>1. ASSUME NEW c \in Clients, NEW n \in SendTxArgs, SendTx(c, n)
      PROVE  IInv'
    <2>1. answer[c] = "none"
        BY <1>1 DEF SendTx
    <2>2. CASE UNCHANGED <<cpc, txn, sends>>
        BY <1>1, <2>2 DEF SendTx
    <2>3. CASE /\ sends' = [sends EXCEPT ![c] = @ + 1]
               /\ txn' = [txn EXCEPT ![c] = n]
               /\ cpc' = [cpc EXCEPT ![c] = IF n = 0 THEN "nonce" ELSE "tx"]
               /\ out' = [out EXCEPT ![c] = "none"]
        <3>1. sends[c] < MaxSends /\ UNCHANGED <<answer, committed, pool, done>>
            BY <1>1 DEF SendTx
        <3>2. sends' \in [Clients -> 0..MaxSends]
            BY <2>3, <3>1
        <3>3. \A d \in Clients : cpc'[d] # "idle" => sends'[d] \in 1..MaxSends
            BY <2>3, <3>1
        <3>4. \A d \in Clients : cpc'[d] = "tx" => txn'[d] \in 1..MaxNonce
            BY <2>3
        <3>5. \A d \in Clients : answer'[d] = "ok" => <<d, sends'[d]>> \in Ids'
            BY <2>1, <2>3, <3>1
        <3>6. ConsoleOkMeansPooled'
            BY <2>3, <3>1
        <3>7. TypeOK'
            BY <2>3, <3>1, <3>2
        <3>8. QED
            BY <2>1, <2>3, <3>1, <3>3, <3>4, <3>5, <3>6, <3>7
    <2>4. QED
        BY <1>1, <2>2, <2>3 DEF SendTx
<1>2. ASSUME NEW c \in Clients, NonceRPC(c) PROVE IInv'
    <2>1. answer[c] = "none"
        BY <1>2 DEF NonceRPC
    <2>2. Key[c] \in Accounts
        OBVIOUS
    <2>3. CASE /\ committed[Key[c]] < MaxNonce
               /\ txn' = [txn EXCEPT ![c] = committed[Key[c]] + 1]
               /\ cpc' = [cpc EXCEPT ![c] = "tx"]
               /\ UNCHANGED out
        <3>1. txn' \in [Clients -> 0..MaxNonce]
            BY <2>2, <2>3
        <3>2. \A d \in Clients : cpc'[d] = "tx" => txn'[d] \in 1..MaxNonce
            BY <2>2, <2>3
        <3>3. QED
            BY <1>2, <2>1, <2>3, <3>1, <3>2 DEF NonceRPC
    <2>4. CASE /\ cpc' = [cpc EXCEPT ![c] = "idle"]
               /\ out' = [out EXCEPT ![c] = "err"]
               /\ UNCHANGED txn
        BY <1>2, <2>1, <2>4 DEF NonceRPC
    <2>5. QED
        BY <1>2, <2>3, <2>4 DEF NonceRPC
<1>3. ASSUME NEW c \in Clients, TxRPC(c) PROVE IInv'
    <2>1. CurrentTx(c) \in TxRec
        BY <1>3 DEF TxRPC, CurrentTx, TxRec
    <2>2. CASE AddTransaction(CurrentTx(c))
        <3>1. CASE /\ pool' = pool \cup {CurrentTx(c)}
                   /\ answer' = [answer EXCEPT ![c] = "ok"]
                   /\ cpc' = [cpc EXCEPT ![c] = "reply"]
                   /\ UNCHANGED <<out, txn, sends, committed, done>>
            <4>1. <<c, sends[c]>> \in Ids'
                <5>1. CurrentTx(c) \in pool'
                    BY <3>1
                <5>2. CurrentTx(c).id = <<c, sends[c]>>
                    BY DEF CurrentTx
                <5>3. QED
                    BY <5>1, <5>2, Zenon
            <4>2. Ids \subseteq Ids'
                BY <3>1
            <4>3. QED
                BY <1>3, <2>1, <3>1, <4>1, <4>2 DEF TxRPC
        <3>5. CASE /\ cpc' = [cpc EXCEPT ![c] = "idle"]
                   /\ out' = [out EXCEPT ![c] = "err"]
                   /\ UNCHANGED <<pool, answer, txn, sends, committed, done>>
            BY <1>3, <3>5 DEF TxRPC
        <3>6. QED
            BY <1>3, <2>2, <3>1, <3>5 DEF TxRPC, SendTransactionOk
    <2>3. CASE ~AddTransaction(CurrentTx(c))
        BY <1>3, <2>3 DEF TxRPC, SendTransactionOk
    <2>4. QED
        BY <2>2, <2>3
<1>4. ASSUME NEW c \in Clients, Reply(c) PROVE IInv'
    BY <1>4 DEF Reply
<1>5. ASSUME NEW a \in Accounts, Commit(a) PROVE IInv'
    <2>1. Ids \subseteq Ids'
        BY <1>5, IdsGrow
    <2>2. PICK t \in pool : /\ t.src = a
                           /\ t.nonce = committed[a] + 1
                           /\ committed' = [committed EXCEPT ![a] = t.nonce]
                           /\ pool' = pool \ {t}
                           /\ done' = done \cup {t.id}
        BY <1>5 DEF Commit
    <2>3. TypeOK'
        BY <1>5, <2>2 DEF Commit, TxRec
    <2>4. QED
        BY <1>5, <2>1, <2>3 DEF Commit
<1>6. CASE UNCHANGED vars
    BY <1>6 DEF vars
<1>7. QED
    BY <1>1, <1>2, <1>3, <1>4, <1>5, <1>6 DEF Next, SendTxArgs

(* A console that printed success for a sendtx has its transaction in the *)
(* pool or in a block, for any number of consoles, accounts and bounds.   *)
THEOREM OkMeansPooled == Spec => []ConsoleOkMeansPooled
<1>1. IInv => ConsoleOkMeansPooled
    BY DEF IInv
<1>2. Spec => []IInv
    BY InitIInv, NextIInv, PTL DEF Spec
<1>3. QED
    BY <1>1, <1>2, PTL

(* Type correctness of the model's state.                                  *)
THEOREM TxTypeCorrect == Spec => []TypeOK
<1>1. IInv => TypeOK
    BY DEF IInv
<1>2. QED
    BY <1>1, InitIInv, NextIInv, PTL DEF Spec

=============================================================================
