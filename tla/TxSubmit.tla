------------------------------ MODULE TxSubmit ------------------------------
(***************************************************************************)
(* A transaction from the console to the chain: the sendtx command         *)
(* (src/cmd/cli/console.go), RemoteChainOpImpl.SendRaw and nonce           *)
(* (chain_op_remote.go), the node's Gx_nonce and Gx_tx RPC handlers and   *)
(* sendTransaction (rpc_api_gx.go), the pool's AddTransaction and the     *)
(* block that commits a sender's next nonce.                               *)
(*                                                                         *)
(* Several consoles (Clients) may hold the key of one account (Key) and   *)
(* send at the same time; the node serves each HTTP request on its own    *)
(* goroutine.  A transaction is identified by its client and the number   *)
(* of the client's sendtx command; hash, signature and payload are        *)
(* abstracted to that identity.                                            *)
(***************************************************************************)
EXTENDS Naturals, FiniteSets

CONSTANTS
    Clients,    \* console processes
    Accounts,   \* the accounts their unlocked keys belong to
    Key,        \* Clients -> Accounts
    MaxNonce,   \* largest nonce considered
    MaxSends    \* sendtx commands per console

ASSUME TxSubmitAssumption ==
    /\ Key \in [Clients -> Accounts]
    /\ MaxNonce \in Nat \ {0}
    /\ MaxSends \in Nat

VARIABLES
    cpc,        \* where each console's sendtx is
    txn,        \* txRawData.Nonce of the transaction being sent
    sends,      \* sendtx commands issued by each console
    answer,     \* the Result the node wrote for the pending Gx_tx request
    out,        \* what the console printed for its last sendtx
    committed,  \* the account's nonce in the latest committed state
    pool,       \* pending transactions [id, src, nonce]
    done        \* history: identities of committed transactions

vars == <<cpc, txn, sends, answer, out, committed, pool, done>>

TxRec == [id : Clients \X (1..MaxSends), src : Accounts, nonce : 1..MaxNonce]

TypeOK ==
    /\ cpc \in [Clients -> {"idle", "nonce", "tx", "reply"}]
    /\ txn \in [Clients -> 0..MaxNonce]
    /\ sends \in [Clients -> 0..MaxSends]
    /\ answer \in [Clients -> {"none", "ok", "fail"}]
    /\ out \in [Clients -> {"none", "ok", "err"}]
    /\ committed \in [Accounts -> 0..MaxNonce]
    /\ pool \subseteq TxRec
    /\ done \subseteq Clients \X (1..MaxSends)

Init ==
    /\ cpc = [c \in Clients |-> "idle"]
    /\ txn = [c \in Clients |-> 0]
    /\ sends = [c \in Clients |-> 0]
    /\ answer = [c \in Clients |-> "none"]
    /\ out = [c \in Clients |-> "none"]
    /\ committed = [a \in Accounts |-> 0]
    /\ pool = {}
    /\ done = {}

-----------------------------------------------------------------------------
(* The transaction client c is sending.                                    *)
CurrentTx(c) == [id |-> <<c, sends[c]>>, src |-> Key[c], nonce |-> txn[c]]

(* Nonces of the account's transactions waiting in the pool.               *)
PendingNonces(a) == {t.nonce : t \in {u \in pool : u.src = a}}

(* The pool's AddTransaction: a nonce already committed, or one another   *)
(* pending transaction of the sender holds, is refused with an error.     *)
AddTransaction(tx) ==
    tx.nonce > committed[tx.src] /\ tx.nonce \notin PendingNonces(tx.src)

(* The -nonce values of the sendtx commands genSendTxCmd's flags accept  *)
(* and parse lets through; the other flags are abstracted away.            *)
SendTxArgs == 0..MaxNonce

(* Mutant: sendTransaction drops the check of AddTransaction's result.    *)
SendTransactionNoCheck(tx) == TRUE

(* sendTransaction: no error when the signature is present (SendRaw signs *)
(* every transaction) and AddTransaction returned ok without error.        *)
SendTransactionOk(tx) == AddTransaction(tx)

(* sendtx: the flags parse (a -nonce of 0 means "ask the node"), then      *)
(* SendRaw reads the unlocked account with AccountInfo; it fails when no  *)
(* account is unlocked.  With a nonce given it signs and posts at once.   *)
SendTx(c, n) ==
    /\ cpc[c] = "idle"
    /\ sends[c] < MaxSends
    /\ \/ /\ out' = [out EXCEPT ![c] = "err"]
          /\ UNCHANGED <<cpc, txn, sends>>
       \/ /\ sends' = [sends EXCEPT ![c] = @ + 1]
          /\ txn' = [txn EXCEPT ![c] = n]
          /\ cpc' = [cpc EXCEPT ![c] = IF n = 0 THEN "nonce" ELSE "tx"]
          /\ out' = [out EXCEPT ![c] = "none"]
    /\ UNCHANGED <<answer, committed, pool, done>>

(* ca.nonce: Gx_nonce answers the committed nonce + 1 ("so that user can  *)
(* use it directly"); SendRaw stores it in tx.Nonce, signs and posts.     *)
(* http.Post may fail: SendRaw returns the error.                          *)
NonceRPC(c) ==
    /\ cpc[c] = "nonce"
    /\ \/ /\ committed[Key[c]] < MaxNonce
          /\ txn' = [txn EXCEPT ![c] = committed[Key[c]] + 1]
          /\ cpc' = [cpc EXCEPT ![c] = "tx"]
          /\ UNCHANGED out
       \/ /\ cpc' = [cpc EXCEPT ![c] = "idle"]
          /\ out' = [out EXCEPT ![c] = "err"]
          /\ UNCHANGED txn
    /\ UNCHANGED <<sends, answer, committed, pool, done>>

(* Gx_tx: decode, check type and target, hash, sendTransaction (the       *)
(* signature is present, AddTransaction), and the Result: the hash on     *)
(* success, the pool's error otherwise.  The post may not reach the node. *)
TxRPC(c) ==
    /\ cpc[c] = "tx"
    /\ \/ /\ pool' = IF AddTransaction(CurrentTx(c))
                     THEN pool \cup {CurrentTx(c)} ELSE pool
          /\ answer' = [answer EXCEPT ![c] =
                          IF SendTransactionOk(CurrentTx(c)) THEN "ok" ELSE "fail"]
          /\ cpc' = [cpc EXCEPT ![c] = "reply"]
          /\ UNCHANGED out
       \/ /\ cpc' = [cpc EXCEPT ![c] = "idle"]
          /\ out' = [out EXCEPT ![c] = "err"]
          /\ UNCHANGED <<pool, answer>>
    /\ UNCHANGED <<txn, sends, committed, done>>

(* request reads the response and handleCmd prints it; a connection lost *)
(* after the node answered is an error to the console.                     *)
Reply(c) ==
    /\ cpc[c] = "reply"
    /\ \/ out' = [out EXCEPT ![c] = IF answer[c] = "ok" THEN "ok" ELSE "err"]
       \/ out' = [out EXCEPT ![c] = "err"]
    /\ cpc' = [cpc EXCEPT ![c] = "idle"]
    /\ answer' = [answer EXCEPT ![c] = "none"]
    /\ UNCHANGED <<txn, sends, committed, pool, done>>

(* A block commits the account's next nonce from the pool and removes it. *)
Commit(a) ==
    /\ \E t \in pool :
          /\ t.src = a
          /\ t.nonce = committed[a] + 1
          /\ committed' = [committed EXCEPT ![a] = t.nonce]
          /\ pool' = pool \ {t}
          /\ done' = done \cup {t.id}
    /\ UNCHANGED <<cpc, txn, sends, answer, out>>

Next ==
    \/ \E c \in Clients, n \in SendTxArgs : SendTx(c, n)
    \/ \E c \in Clients : NonceRPC(c) \/ TxRPC(c) \/ Reply(c)
    \/ \E a \in Accounts : Commit(a)

Spec == Init /\ [][Next]_vars

-----------------------------------------------------------------------------
(* When the console prints a successful sendtx, its transaction is in the *)
(* pool or already in a block: the node's Result (sendTransaction on      *)
(* AddTransaction's answer) and the console's output agree with the pool. *)
ConsoleOkMeansPooled ==
    \A c \in Clients :
        out[c] = "ok" =>
            <<c, sends[c]>> \in {t.id : t \in pool} \cup done

(* The nonce SendRaw fills in from Gx_nonce can be used directly, as the *)
(* handler's comment says: no transaction of the same account waiting in *)
(* the pool already holds it.                                              *)
AutoNonceUsable ==
    [][\A c \in Clients :
         (cpc[c] = "nonce" /\ cpc'[c] = "tx")
            => txn'[c] \notin PendingNonces(Key[c])]_vars

=============================================================================
