----------------------------- MODULE MCTxSubmit -----------------------------
(* Two consoles holding the key of one account, each sending twice.        *)
EXTENDS TxSubmit

MCKey == [c \in Clients |-> CHOOSE a \in Accounts : TRUE]

=============================================================================
