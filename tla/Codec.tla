------------------------------- MODULE Codec -------------------------------
(***************************************************************************)
(* The protobuf conversions of src/global/types/pb_serial.go: Transaction, *)
(* BlockHeader and Block to their pb messages and back, and the Marshal / *)
(* UnMarshal functions a node applies to what it builds, what a peer sent *)
(* and what it decoded and passes on.                                      *)
(*                                                                         *)
(* A Go value is a record of its fields; nil, and a pb field that is       *)
(* absent, is the model value Nil.  Hashes, addresses, signatures, data   *)
(* and auth codes are model values (their byte form is fixed-length or    *)
(* copied as is); big integers and counters are integers.  proto.Marshal  *)
(* and proto.Unmarshal are exact on well-formed messages (not under src/) *)
(* and Unmarshal refuses Garbage.                                          *)
(***************************************************************************)
EXTENDS Integers, Sequences

CONSTANTS
    Nil,            \* Go's nil; an absent optional pb field
    Garbage,        \* bytes proto.Unmarshal refuses
    ZeroHash,       \* common.Hash{}
    ZeroAddress,    \* the address BytesToAddress makes of no bytes
    LocalBlocks,    \* blocks (and Nil) the node itself marshals
    LocalTxs,       \* transaction slices the node itself marshals
    LocalHeaders,   \* block headers (and Nil) the node itself marshals
    PeerBlocks,     \* pb.Block messages peers send
    PeerTxs,        \* pb.TransactionSlice messages peers send
    PeerHeaders     \* pb.BlockHeader messages peers send

VARIABLES
    kind,       \* "block", "header" or "txs": the Marshal/UnMarshal pair used
    origin,     \* "local": built by the node; "peer": received bytes
    orig,       \* the value the node marshalled
    wire,       \* the pb message on the wire, or Garbage
    back,       \* what UnMarshal returned
    rewire,     \* the pb message of the decoded value passed on
    status      \* "built", "sent", "decoded", "relayed", "rejected", "panic"

vars == <<kind, origin, orig, wire, back, rewire, status>>

-----------------------------------------------------------------------------
(* Go's int8(x) of an int32: the low byte, two's complement.               *)
Int8(x) == ((x + 128) % 256) - 128

(* Mutant: the ensure helpers dereference without the nil check.          *)
ensureNoNilCheck(p) == p

(* ensureUint64, ensureInt32, ensureInt64: an absent pointer reads as 0.   *)
ensureUint64(p) == IF p = Nil THEN 0 ELSE p

(* byteToHash: no bytes is the zero hash.                                  *)
byteToHash(b) == IF b = Nil THEN ZeroHash ELSE b

(* BigInt.SetBytesWithSign of no bytes is 0 (not under src/).             *)
SetBytesWithSign(b) == IF b = Nil THEN 0 ELSE b

(* common.BytesToAddress of no bytes is the zero address.                  *)
BytesToAddress(b) == IF b = Nil THEN ZeroAddress ELSE b

(* big.Int.Bytes(): the absolute value, big-endian, without sign.          *)
BigBytes(d) == IF d < 0 THEN -d ELSE d

(* The fields of pb.Transaction: those of Transaction but Source.          *)
TxWireFields == {"data", "value", "nonce", "target", "type",
                 "gasLimit", "gasPrice", "hash", "sign"}

(* The fields of Transaction, and of BlockHeader and pb.BlockHeader.       *)
TxFields == {"data", "value", "nonce", "target", "type", "gasLimit",
             "gasPrice", "hash", "sign", "source"}

HeaderFields == {"hash", "height", "preHash", "curTime", "proposer", "nonce",
                 "txTree", "receiptTree", "stateTree", "baseTarget",
                 "difficulty", "auth", "sign"}

(* A slice: a function on 1..Len(s).                                       *)
IsSlice(s) == Len(s) \in Nat /\ DOMAIN s = 1..Len(s)

(* A Transaction the node builds: Nonce (uint64), Type (int8) and Hash     *)
(* (common.Hash) are value types; Value, GasLimit and GasPrice are set,   *)
(* since the hash of the transaction is computed over them (core.go).     *)
NodeTx(t) ==
    /\ t = [f \in TxFields |-> t[f]]
    /\ t.nonce \in Nat
    /\ t.type \in Int /\ -128 <= t.type /\ t.type <= 127
    /\ \A f \in {"value", "gasLimit", "gasPrice"} : t[f] \in Int
    /\ t.hash # Nil

NodeTxs(s) == IsSlice(s) /\ \A i \in 1..Len(s) : NodeTx(s[i])

(* A BlockHeader the node builds: hashes, the proposer and the numbers are *)
(* value types; the cumulative difficulty, a sum of difficulties, is set   *)
(* (GenHash writes its bytes) and not negative.                            *)
NodeHeader(h) ==
    /\ h = [f \in HeaderFields |-> h[f]]
    /\ \A f \in {"height", "nonce", "baseTarget", "difficulty"} : h[f] \in Nat
    /\ h.curTime \in Int
    /\ \A f \in {"hash", "preHash", "txTree", "receiptTree", "stateTree",
                  "proposer"} : h[f] # Nil

(* What proto.Unmarshal gives for a peer's bytes: messages with every     *)
(* field, any of them absent.                                               *)
PbTxs(s) ==
    /\ IsSlice(s)
    /\ \A i \in 1..Len(s) : s[i] # Nil /\ s[i] = [f \in TxWireFields |-> s[i][f]]

PbHeader(h) == h = [f \in HeaderFields |-> h[f]]

ASSUME CodecAssumption ==
    /\ Nil \notin Int
    /\ \A s \in LocalTxs : s = Nil \/ NodeTxs(s)
    /\ \A h \in LocalHeaders : h = Nil \/ NodeHeader(h)
    /\ \A b \in LocalBlocks :
          b = Nil \/ /\ b = [header |-> b.header, transactions |-> b.transactions]
                     /\ b.header = Nil \/ NodeHeader(b.header)
                     /\ NodeTxs(b.transactions)
    /\ \A s \in PeerTxs : s = Nil \/ PbTxs(s)
    /\ \A h \in PeerHeaders : PbHeader(h)
    /\ \A b \in PeerBlocks :
          /\ b # Nil
          /\ b = [header |-> b.header, transactions |-> b.transactions]
          /\ b.header = Nil \/ PbHeader(b.header)
          /\ b.transactions = Nil \/ PbTxs(b.transactions)

(* &Transaction{}: what pbToTransaction returns for a nil message.         *)
EmptyTx == [data |-> Nil, value |-> Nil, nonce |-> 0, target |-> Nil,
            type |-> 0, gasLimit |-> Nil, gasPrice |-> Nil, hash |-> ZeroHash,
            sign |-> Nil, source |-> Nil]

pbToTransaction(t) ==
    IF t = Nil THEN EmptyTx
    ELSE [data     |-> t.data,
          value    |-> SetBytesWithSign(t.value),
          nonce    |-> ensureUint64(t.nonce),
          target   |-> t.target,
          gasLimit |-> SetBytesWithSign(t.gasLimit),
          gasPrice |-> SetBytesWithSign(t.gasPrice),
          hash     |-> byteToHash(t.hash),
          type     |-> Int8(ensureUint64(t.type)),
          sign     |-> t.sign,
          source   |-> Nil]

(* A nil slice decodes to an empty one.                                    *)
PbToTransactions(txs) ==
    IF txs = Nil THEN <<>>
    ELSE [i \in 1..Len(txs) |-> pbToTransaction(txs[i])]

PbToBlockHeader(h) ==
    IF h = Nil THEN Nil
    ELSE [hash        |-> byteToHash(h.hash),
          height      |-> ensureUint64(h.height),
          preHash     |-> byteToHash(h.preHash),
          curTime     |-> ensureUint64(h.curTime),
          proposer    |-> BytesToAddress(h.proposer),
          nonce       |-> ensureUint64(h.nonce),
          txTree      |-> byteToHash(h.txTree),
          receiptTree |-> byteToHash(h.receiptTree),
          stateTree   |-> byteToHash(h.stateTree),
          baseTarget  |-> ensureUint64(h.baseTarget),
          difficulty  |-> IF h.difficulty # Nil THEN h.difficulty ELSE 0,
          auth        |-> h.auth,
          sign        |-> h.sign]

PbToBlock(b) ==
    IF b = Nil THEN Nil
    ELSE [header       |-> PbToBlockHeader(b.header),
          transactions |-> PbToTransactions(b.transactions)]

(* Mutant: transactionToPb forgets to set the Type pointer.                *)
transactionToPbNoType(t) ==
    IF t = Nil THEN Nil
    ELSE [f \in TxWireFields |-> IF f = "type" THEN Nil ELSE t[f]]

(* transactionToPb copies every field but Source; int32(t.Type) keeps the  *)
(* value of an int8.                                                       *)
transactionToPb(t) ==
    IF t = Nil THEN Nil ELSE [f \in TxWireFields |-> t[f]]

TransactionsToPb(txs) ==
    IF txs = Nil THEN Nil
    ELSE [i \in 1..Len(txs) |-> transactionToPb(txs[i])]

(* BlockHeaderToPb dereferences h without a check (h.CurTime.Unix()).       *)
BlockHeaderToPb(h) ==
    [h EXCEPT !.difficulty = BigBytes(h.difficulty)]

BlockToPb(b) ==
    IF b = Nil THEN Nil
    ELSE [header       |-> BlockHeaderToPb(b.header),
          transactions |-> TransactionsToPb(b.transactions)]

(* A Marshal that returns no bytes: proto.Unmarshal of none is the empty   *)
(* message.                                                                *)
EmptyBlockMsg == [header |-> Nil, transactions |-> Nil]

(* The transaction slices the node marshals, alone or in a block.         *)
BuiltTxs == (LocalTxs \ {Nil}) \cup {b.transactions : b \in LocalBlocks \ {Nil}}

(* Go's nil is none of the pb messages the node builds from its values.    *)
ASSUME NilIsNoMessage ==
    /\ \A s \in BuiltTxs :
          /\ TransactionsToPb(s) # Nil
          /\ \A i \in 1..Len(s) : transactionToPb(s[i]) # Nil
    /\ \A b \in LocalBlocks \ {Nil} : BlockToPb(b) # Nil

-----------------------------------------------------------------------------
Init ==
    /\ rewire = Nil
    /\ back = Nil
    /\ \/ /\ origin = "local" /\ status = "built" /\ wire = Nil
          /\ \/ kind = "block" /\ orig \in LocalBlocks
             \/ kind = "txs" /\ orig \in LocalTxs
             \/ kind = "header" /\ orig \in LocalHeaders
       \/ /\ origin = "peer" /\ status = "sent" /\ orig = Nil
          /\ \/ kind = "block" /\ wire \in PeerBlocks \cup {Garbage}
             \/ kind = "txs" /\ wire \in PeerTxs \cup {Garbage}
             \/ kind = "header" /\ wire \in PeerHeaders \cup {Garbage}

(* MarshalBlock: nil when BlockToPb gives nil, a panic on a block without  *)
(* a header; MarshalTransactions wraps the slice in a TransactionSlice;   *)
(* MarshalBlockHeader calls BlockHeaderToPb before its nil check, so a nil *)
(* header panics.                                                          *)
Marshal(v) ==
    CASE kind = "txs"                      -> TransactionsToPb(v)
      [] kind = "header"                   -> BlockHeaderToPb(v)
      [] v = Nil                           -> EmptyBlockMsg
      [] OTHER                             -> BlockToPb(v)

CanMarshal(v) ==
    CASE kind = "txs"    -> TRUE
      [] kind = "header" -> v # Nil
      [] OTHER           -> v = Nil \/ v.header # Nil

MarshalLocal ==
    /\ status = "built"
    /\ IF CanMarshal(orig)
       THEN wire' = Marshal(orig) /\ status' = "sent"
       ELSE status' = "panic" /\ UNCHANGED wire
    /\ UNCHANGED <<kind, origin, orig, back, rewire>>

(* UnMarshalBlock, UnMarshalBlockHeader, UnMarshalTransactions: an        *)
(* Unmarshal error is returned; otherwise the conversion of the message.   *)
UnMarshal ==
    /\ status = "sent"
    /\ IF wire = Garbage
       THEN status' = "rejected" /\ UNCHANGED back
       ELSE /\ back' = CASE kind = "block"  -> PbToBlock(wire)
                         [] kind = "header" -> PbToBlockHeader(wire)
                         [] OTHER           -> PbToTransactions(wire)
            /\ status' = "decoded"
    /\ UNCHANGED <<kind, origin, orig, wire, rewire>>

(* The decoded value is marshalled again to be stored or passed on.        *)
Relay ==
    /\ status = "decoded"
    /\ IF CanMarshal(back)
       THEN rewire' = Marshal(back) /\ status' = "relayed"
       ELSE status' = "panic" /\ UNCHANGED rewire
    /\ UNCHANGED <<kind, origin, orig, wire, back>>

Next == MarshalLocal \/ UnMarshal \/ Relay

Spec == Init /\ [][Next]_vars

-----------------------------------------------------------------------------
(* The transactions of a value, whichever kind it is.                      *)
TxsOf(v) ==
    CASE kind = "txs"    -> v
      [] kind = "header" -> <<>>
      [] OTHER           -> v.transactions

(* The header of a value, or Nil.                                          *)
HeaderOf(v) ==
    CASE kind = "txs"    -> Nil
      [] kind = "header" -> v
      [] OTHER           -> v.header

(* What decoding what the node encoded must give back: every field, the   *)
(* sender (Source) excepted, which RecoverSource derives from the         *)
(* signature again.                                                        *)
WithoutSources(txs) == [i \in 1..Len(txs) |-> [txs[i] EXCEPT !.source = Nil]]

(* Round trip: UnMarshal of what Marshal produced for a block with a      *)
(* header, a header or a transaction slice gives the value back exactly,  *)
(* but for the senders (spec, Encoding).                                   *)
RoundTrip ==
    (origin = "local" /\ status \in {"decoded", "relayed"} /\ orig # Nil) =>
        back = CASE kind = "txs"    -> WithoutSources(orig)
                 [] kind = "header" -> orig
                 [] OTHER           -> [orig EXCEPT !.transactions = WithoutSources(@)]

(* Missing optional numeric fields of a peer's message decode to zero      *)
(* (spec, Encoding): the nonce, type and amounts of every transaction and *)
(* the numbers of the header.                                              *)
MissingIsZero ==
    (origin = "peer" /\ status \in {"decoded", "relayed"}) =>
        /\ \A i \in 1..Len(TxsOf(back)) :
              \A f \in {"nonce", "type", "value", "gasLimit", "gasPrice"} :
                  TxsOf(wire)[i][f] = Nil => TxsOf(back)[i][f] = 0
        /\ HeaderOf(wire) # Nil =>
              \A f \in {"height", "curTime", "nonce", "baseTarget", "difficulty"} :
                  HeaderOf(wire)[f] = Nil => HeaderOf(back)[f] = 0

(* Decoding keeps the type a peer's transaction declares: it is not read   *)
(* as another type (spec: decode is exact, malformed bytes are refused).   *)
TypeDecodedExactly ==
    (origin = "peer" /\ status = "decoded") =>
        \A i \in 1..Len(TxsOf(back)) :
            TxsOf(wire)[i].type # Nil => TxsOf(back)[i].type = TxsOf(wire)[i].type

=============================================================================
