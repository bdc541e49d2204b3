----------------------------- MODULE NetDispatch -----------------------------
(***************************************************************************)
(* The network Server of src/network/server.go: Send, Broadcast and       *)
(* TransmitToNeighbor hand marshalled messages to the transport (NetCore, *)
(* not under src/) or, for a message addressed to the node itself, to    *)
(* handleMessage directly; handleMessage decodes the bytes NetCore        *)
(* received and starts one handleMessageInner goroutine per message,      *)
(* which publishes the body on the bus topic of the message code.          *)
(*                                                                         *)
(* Every message is a record in msgs, its index its identity; bodies are  *)
(* abstracted away, bytes are well formed or not.                          *)
(***************************************************************************)
EXTENDS Naturals, Sequences

CONSTANTS
    Self,       \* this node's ID
    Peers,      \* other nodes' IDs
    Codes,      \* message codes sent or received
    MaxMsgs     \* messages in a behaviour

ASSUME NetDispatchAssumption ==
    /\ Self \notin Peers
    /\ Codes \subseteq Nat
    /\ MaxMsgs \in Nat

VARIABLES
    msgs,       \* every message sent or received, in order
    outbox,     \* messages handed to NetCore (sendToNode or broadcast)
    pending,    \* messages whose handleMessageInner goroutine has not run
    bus         \* what the goroutines published: [topic, msg]

vars == <<msgs, outbox, pending, bus>>

Ids == 1..Len(msgs)

(* The message codes of interface.go, by message.                          *)
MsgCode == [BlockInfoNotify |-> 1, BlockReq |-> 2, BlockResponse |-> 3,
            NewBlock |-> 4, ChainPieceBlockReq |-> 5, ChainPieceBlock |-> 6,
            TxSyncNotify |-> 7, TxSyncReq |-> 8, TxSyncResponse |-> 9]

(* The bus topics of middleware/notify for the same messages.              *)
EventTopic == [BlockInfoNotify |-> "block_info_notify", BlockReq |-> "block_req",
               BlockResponse |-> "block_response", NewBlock |-> "new_block",
               ChainPieceBlockReq |-> "chain_piece_block_req",
               ChainPieceBlock |-> "chain_piece_block",
               TxSyncNotify |-> "tx_sync_notify", TxSyncReq |-> "tx_sync_req",
               TxSyncResponse |-> "tx_sync_response"]

(* handleMessageInner's switch on the code: the topic of the message with *)
(* that code, "" for a code it does not know.                              *)
TopicOf(code) ==
    IF \E m \in DOMAIN MsgCode : MsgCode[m] = code
    THEN EventTopic[CHOOSE m \in DOMAIN MsgCode : MsgCode[m] = code]
    ELSE ""

Init ==
    /\ msgs = <<>>
    /\ outbox = {}
    /\ pending = {}
    /\ bus = <<>>

-----------------------------------------------------------------------------
(* Mutant: handleMessage goes on after an unmarshal error.                *)
HandleMessageNoCheck(n, wellFormed) == pending' = pending \cup {n}

(* handleMessage on bytes from `from`: an unmarshal error is logged and   *)
(* the message dropped; otherwise `go s.handleMessageInner`.               *)
HandleMessage(n, wellFormed) ==
    pending' = IF wellFormed THEN pending \cup {n} ELSE pending

(* Mutant: Send does not recognise its own ID and hands it to NetCore.    *)
SendNoSelf(id, code) ==
    /\ Len(msgs) < MaxMsgs
    /\ msgs' = Append(msgs, [from |-> Self, to |-> id, code |-> code, ok |-> TRUE])
    /\ outbox' = outbox \cup {Len(msgs) + 1}
    /\ UNCHANGED <<pending, bus>>

(* Send(id, msg): marshal; to itself through sendSelf into handleMessage, *)
(* to another node on a new goroutine through NetCore.                     *)
Send(id, code) ==
    /\ Len(msgs) < MaxMsgs
    /\ msgs' = Append(msgs, [from |-> Self, to |-> id, code |-> code, ok |-> TRUE])
    /\ IF id = Self
       THEN HandleMessage(Len(msgs) + 1, TRUE) /\ UNCHANGED outbox
       ELSE outbox' = outbox \cup {Len(msgs) + 1} /\ UNCHANGED pending
    /\ UNCHANGED bus

(* Broadcast and TransmitToNeighbor: marshal and NetCore.broadcast, with  *)
(* or without relaying; neither reaches the node's own handlers.           *)
Broadcast(code, relay) ==
    /\ Len(msgs) < MaxMsgs
    /\ msgs' = Append(msgs, [from |-> Self,
                             to |-> IF relay THEN "all" ELSE "neighbours",
                             code |-> code, ok |-> TRUE])
    /\ outbox' = outbox \cup {Len(msgs) + 1}
    /\ UNCHANGED <<pending, bus>>

(* NetCore calls handleMessage with bytes a peer sent, well formed or not. *)
Receive(from, code, wellFormed) ==
    /\ Len(msgs) < MaxMsgs
    /\ msgs' = Append(msgs, [from |-> from, to |-> Self, code |-> code,
                             ok |-> wellFormed])
    /\ HandleMessage(Len(msgs) + 1, wellFormed)
    /\ UNCHANGED <<outbox, bus>>

(* handleMessageInner: the topic of the code, and Bus.Publish when there  *)
(* is one; a code without a topic is ignored.                              *)
HandleMessageInner(n) ==
    /\ n \in pending
    /\ pending' = pending \ {n}
    /\ bus' = IF TopicOf(msgs[n].code) # ""
              THEN Append(bus, [topic |-> TopicOf(msgs[n].code), msg |-> n])
              ELSE bus
    /\ UNCHANGED <<msgs, outbox>>

Next ==
    \/ \E id \in Peers \cup {Self}, code \in Codes : Send(id, code)
    \/ \E code \in Codes, relay \in BOOLEAN : Broadcast(code, relay)
    \/ \E from \in Peers, code \in Codes, ok \in BOOLEAN : Receive(from, code, ok)
    \/ \E n \in pending : HandleMessageInner(n)

(* The Go scheduler eventually runs every goroutine that was started.      *)
Spec == Init /\ [][Next]_vars
            /\ \A n \in 1..MaxMsgs : WF_vars(HandleMessageInner(n))

-----------------------------------------------------------------------------
(* Messages the node's handlers should see: well-formed ones from a peer  *)
(* and those the node sent to itself, whose code has a topic.              *)
Delivered(n) ==
    /\ n \in Ids
    /\ msgs[n].to = Self
    /\ msgs[n].ok
    /\ TopicOf(msgs[n].code) # ""

(* Every such message is eventually published on its topic: a send to     *)
(* the node's own ID loops back through handleMessage like a message from *)
(* a peer (spec, network dispatch bridge).                                 *)
DeliveredPublished ==
    \A n \in 1..MaxMsgs :
        Delivered(n) ~> (\E i \in 1..Len(bus) : bus[i].msg = n)

(* Every event on the bus is a message addressed to the node, from a     *)
(* peer or from itself, that decoded, on the topic of its own code, and    *)
(* no message is published twice: handleMessage drops what does not        *)
(* unmarshal and starts one handleMessageInner goroutine per message,      *)
(* however the goroutines interleave with new sends and receives.          *)
PublishedOnce ==
    /\ \A i \in 1..Len(bus) :
          /\ Delivered(bus[i].msg)
          /\ bus[i].topic = TopicOf(msgs[bus[i].msg].code)
    /\ \A i, j \in 1..Len(bus) : bus[i].msg = bus[j].msg => i = j

=============================================================================
