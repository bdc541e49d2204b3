---------------------------- MODULE CodecProofs ----------------------------
(***************************************************************************)
(* Proofs of the Codec invariants for every instance the assumptions     *)
(* allow.  Each conversion is a lemma: decoding the message of a value    *)
(* the node builds gives the value back, and an absent field decodes to   *)
(* zero.  The invariant CInv ties the wire to what was marshalled and the *)
(* decoded value to the wire: RoundTrip and MissingIsZero are not         *)
(* inductive alone, since they speak of back and not of how it was made.  *)
(***************************************************************************)
EXTENDS Codec, SequenceTheorems, TLAPS

(* int8 of a value in the int8 range is the value itself.                  *)
LEMMA Int8Exact ==
    ASSUME NEW x \in Int, -128 <= x, x <= 127
    PROVE  Int8(x) = x
BY DEF Int8

(* A transaction the node builds comes back from its pb message without   *)
(* its sender.                                                             *)
LEMMA TxRoundTrip ==
    ASSUME NEW t, NodeTx(t), transactionToPb(t) # Nil
    PROVE  pbToTransaction(transactionToPb(t)) = [t EXCEPT !.source = Nil]
<1> DEFINE m == [f \in TxWireFields |-> t[f]]
<1>1. transactionToPb(t) = m
  BY CodecAssumption DEF transactionToPb, m
<1>2. /\ SetBytesWithSign(t.value) = t.value
      /\ SetBytesWithSign(t.gasLimit) = t.gasLimit
      /\ SetBytesWithSign(t.gasPrice) = t.gasPrice
      /\ ensureUint64(t.nonce) = t.nonce
      /\ byteToHash(t.hash) = t.hash
  BY CodecAssumption DEF NodeTx, SetBytesWithSign, ensureUint64, byteToHash
<1>3. Int8(ensureUint64(t.type)) = t.type
  BY CodecAssumption, Int8Exact DEF NodeTx, ensureUint64
<1>4. pbToTransaction(m) =
        [data     |-> t.data, value |-> t.value, nonce |-> t.nonce,
         target   |-> t.target, gasLimit |-> t.gasLimit, gasPrice |-> t.gasPrice,
         hash     |-> t.hash, type |-> t.type, sign |-> t.sign, source |-> Nil]
  BY <1>1, <1>2, <1>3 DEF pbToTransaction, m, TxWireFields
<1>5. [t EXCEPT !.source = Nil] =
        [data     |-> t.data, value |-> t.value, nonce |-> t.nonce,
         target   |-> t.target, gasLimit |-> t.gasLimit, gasPrice |-> t.gasPrice,
         hash     |-> t.hash, type |-> t.type, sign |-> t.sign, source |-> Nil]
  BY DEF NodeTx, TxFields
<1>6. QED
  BY <1>1, <1>4, <1>5
(* A transaction slice the node builds comes back from its pb message      *)
(* without the senders.                                                    *)
LEMMA TxsRoundTrip ==
    ASSUME NEW s \in BuiltTxs
    PROVE  PbToTransactions(TransactionsToPb(s)) = WithoutSources(s)
<1>1. NodeTxs(s)
  BY CodecAssumption DEF BuiltTxs
<1>2. /\ Len(s) \in Nat
      /\ TransactionsToPb(s) = [i \in 1..Len(s) |-> transactionToPb(s[i])]
      /\ TransactionsToPb(s) # Nil
  BY <1>1, NilIsNoMessage DEF NodeTxs, IsSlice, TransactionsToPb, BuiltTxs
<1>3. Len(TransactionsToPb(s)) = Len(s)
  BY <1>2
<1>4. \A i \in 1..Len(s) :
        pbToTransaction(transactionToPb(s[i])) = [s[i] EXCEPT !.source = Nil]
  BY <1>1, NilIsNoMessage, TxRoundTrip DEF NodeTxs
<1>5. QED
  BY <1>2, <1>3, <1>4 DEF PbToTransactions, WithoutSources

(* A header the node builds comes back from its pb message exactly.        *)
LEMMA HeaderRoundTrip ==
    ASSUME NEW h, NodeHeader(h), h # Nil
    PROVE  /\ BlockHeaderToPb(h) = h
           /\ PbToBlockHeader(BlockHeaderToPb(h)) = h
<1>1. BlockHeaderToPb(h) = h
  <2>1. BigBytes(h.difficulty) = h.difficulty
    BY DEF NodeHeader, BigBytes
  <2>2. "difficulty" \in DOMAIN h
    BY DEF NodeHeader, HeaderFields
  <2>3. [h EXCEPT !.difficulty = h.difficulty] = h
    <3>1. h = [f \in HeaderFields |-> h[f]]
      BY DEF NodeHeader
    <3>2. QED
      BY <2>2, <3>1
  <2>4. QED
    BY <2>1, <2>3 DEF BlockHeaderToPb
<1>2. /\ \A f \in {"hash", "preHash", "txTree", "receiptTree", "stateTree"} :
            byteToHash(h[f]) = h[f]
      /\ \A f \in {"height", "curTime", "nonce", "baseTarget"} :
            ensureUint64(h[f]) = h[f]
      /\ BytesToAddress(h.proposer) = h.proposer
      /\ h.difficulty # Nil
  BY CodecAssumption DEF NodeHeader, byteToHash, ensureUint64, BytesToAddress
<1>3. PbToBlockHeader(h) = h
  <2>1. PbToBlockHeader(h) =
          [hash |-> h.hash, height |-> h.height, preHash |-> h.preHash,
           curTime |-> h.curTime, proposer |-> h.proposer, nonce |-> h.nonce,
           txTree |-> h.txTree, receiptTree |-> h.receiptTree,
           stateTree |-> h.stateTree, baseTarget |-> h.baseTarget,
           difficulty |-> h.difficulty, auth |-> h.auth, sign |-> h.sign]
    BY <1>2 DEF PbToBlockHeader
  <2>2. QED
    BY <2>1 DEF NodeHeader, HeaderFields
<1>4. QED
  BY <1>1, <1>3
(* A block with a header comes back from its pb message, but for the      *)
(* senders of its transactions.                                            *)
LEMMA BlockRoundTrip ==
    ASSUME NEW b \in LocalBlocks, b # Nil, b.header # Nil
    PROVE  PbToBlock(BlockToPb(b)) = [b EXCEPT !.transactions = WithoutSources(@)]
<1>1. /\ b = [header |-> b.header, transactions |-> b.transactions]
      /\ NodeHeader(b.header)
  BY CodecAssumption
<1>2. b.transactions \in BuiltTxs
  BY DEF BuiltTxs
<1>3. /\ BlockToPb(b) = [header       |-> BlockHeaderToPb(b.header),
                         transactions |-> TransactionsToPb(b.transactions)]
      /\ BlockToPb(b) # Nil
  BY NilIsNoMessage DEF BlockToPb
<1>4. PbToBlock(BlockToPb(b)) =
        [header       |-> PbToBlockHeader(BlockHeaderToPb(b.header)),
         transactions |-> PbToTransactions(TransactionsToPb(b.transactions))]
  BY <1>3 DEF PbToBlock
<1>5. PbToBlock(BlockToPb(b)) =
        [header |-> b.header, transactions |-> WithoutSources(b.transactions)]
  BY <1>1, <1>2, <1>4, HeaderRoundTrip, TxsRoundTrip
<1>6. [b EXCEPT !.transactions = WithoutSources(@)] =
        [header |-> b.header, transactions |-> WithoutSources(b.transactions)]
  BY <1>1
<1>7. QED
  BY <1>5, <1>6

(* The numeric fields of a transaction message that are absent decode to 0. *)
NumTxFields == {"nonce", "type", "value", "gasLimit", "gasPrice"}

(* The numbers of a header message that are absent decode to 0.           *)
NumHeaderFields == {"height", "curTime", "nonce", "baseTarget", "difficulty"}

(* An absent number of a peer's transaction decodes to zero.               *)
LEMMA TxMissingIsZero ==
    ASSUME NEW m, m # Nil, NEW f \in NumTxFields, m[f] = Nil
    PROVE  pbToTransaction(m)[f] = 0
BY DEF pbToTransaction, NumTxFields, SetBytesWithSign, ensureUint64, Int8

(* An absent number of a peer's header decodes to zero.                    *)
LEMMA HeaderMissingIsZero ==
    ASSUME NEW h, h # Nil, NEW f \in NumHeaderFields, h[f] = Nil
    PROVE  PbToBlockHeader(h)[f] = 0
BY DEF PbToBlockHeader, NumHeaderFields, ensureUint64

(* Every absent number of every transaction of a peer's slice decodes to   *)
(* zero; a nil slice decodes to an empty one.                              *)
LEMMA TxsMissingIsZero ==
    ASSUME NEW s, s = Nil \/ PbTxs(s)
    PROVE  /\ IsSlice(PbToTransactions(s))
           /\ \A i \in 1..Len(PbToTransactions(s)) : \A f \in NumTxFields :
                 s[i][f] = Nil => PbToTransactions(s)[i][f] = 0
<1>1. CASE s = Nil
  BY <1>1 DEF PbToTransactions, IsSlice
<1>2. CASE s # Nil /\ PbTxs(s)
  <2>1. /\ Len(s) \in Nat
        /\ PbToTransactions(s) = [i \in 1..Len(s) |-> pbToTransaction(s[i])]
    BY <1>2 DEF PbTxs, IsSlice, PbToTransactions
  <2>2. /\ Len(PbToTransactions(s)) = Len(s)
        /\ IsSlice(PbToTransactions(s))
    BY <2>1 DEF IsSlice
  <2>3. QED
    BY <1>2, <2>1, <2>2, TxMissingIsZero DEF PbTxs
<1>3. QED
  BY <1>1, <1>2
-----------------------------------------------------------------------------
(* What UnMarshal makes of a wire message of the current kind.             *)
Decode(w) ==
    CASE kind = "block"  -> PbToBlock(w)
      [] kind = "header" -> PbToBlockHeader(w)
      [] OTHER           -> PbToTransactions(w)

CTypeOK ==
    /\ kind \in {"block", "header", "txs"}
    /\ origin \in {"local", "peer"}
    /\ status \in {"built", "sent", "decoded", "relayed", "rejected", "panic"}

(* A local conversion starts from a value the node builds.                 *)
LocalOrig ==
    origin = "local" =>
        /\ kind = "block" => orig \in LocalBlocks
        /\ kind = "txs" => orig \in LocalTxs
        /\ kind = "header" => orig \in LocalHeaders

(* Once sent, the wire holds what Marshal made of the node's value.        *)
LocalWire ==
    (origin = "local" /\ status \in {"sent", "decoded", "relayed"}) =>
        CanMarshal(orig) /\ wire = Marshal(orig)

(* A peer's conversion starts on the wire, with a message peers send.      *)
PeerWire ==
    origin = "peer" =>
        /\ status # "built"
        /\ kind = "block" => wire \in PeerBlocks \cup {Garbage}
        /\ kind = "txs" => wire \in PeerTxs \cup {Garbage}
        /\ kind = "header" => wire \in PeerHeaders \cup {Garbage}

(* What was decoded is the conversion of the wire, which was not Garbage.  *)
Decoded ==
    status \in {"decoded", "relayed"} => wire # Garbage /\ back = Decode(wire)

CInv == CTypeOK /\ LocalOrig /\ LocalWire /\ PeerWire /\ Decoded
LEMMA InitCInv == Init => CInv
BY DEF Init, CInv, CTypeOK, LocalOrig, LocalWire, PeerWire, Decoded

LEMMA NextCInv == CInv /\ [Next]_vars => CInv'
<1> SUFFICES ASSUME CInv, [Next]_vars PROVE CInv'
  OBVIOUS
<1>1. CASE MarshalLocal
  <2>1. origin = "local"
    BY <1>1 DEF MarshalLocal, CInv, CTypeOK, PeerWire
  <2>2. CASE CanMarshal(orig)
    <3>1. /\ wire' = Marshal(orig) /\ status' = "sent"
          /\ UNCHANGED <<kind, origin, orig, back, rewire>>
      BY <1>1, <2>2 DEF MarshalLocal
    <3>2. (CanMarshal(orig) /\ wire = Marshal(orig))'
      BY <2>2, <3>1 DEF CanMarshal, Marshal
    <3>3. QED
      BY <2>1, <3>1, <3>2 DEF CInv, CTypeOK, LocalOrig, LocalWire, PeerWire, Decoded
  <2>3. CASE ~CanMarshal(orig)
    BY <1>1, <2>1, <2>3
       DEF MarshalLocal, CInv, CTypeOK, LocalOrig, LocalWire, PeerWire, Decoded,
           CanMarshal, Marshal
  <2>4. QED
    BY <2>2, <2>3
<1>2. CASE UnMarshal
  <2>1. CASE wire = Garbage
    BY <1>2, <2>1
       DEF UnMarshal, CInv, CTypeOK, LocalOrig, LocalWire, PeerWire, Decoded,
           CanMarshal, Marshal
  <2>2. CASE wire # Garbage
    <3>1. back' = Decode(wire) /\ status' = "decoded"
      BY <1>2, <2>2 DEF UnMarshal, Decode
    <3>2. QED
      BY <1>2, <2>2, <3>1
         DEF UnMarshal, CInv, CTypeOK, LocalOrig, LocalWire, PeerWire, Decoded, Decode,
           CanMarshal, Marshal
  <2>3. QED
    BY <2>1, <2>2
<1>3. CASE Relay
  BY <1>3 DEF Relay, CInv, CTypeOK, LocalOrig, LocalWire, PeerWire, Decoded, Decode,
           CanMarshal, Marshal
<1>4. CASE UNCHANGED vars
  BY <1>4 DEF vars, CInv, CTypeOK, LocalOrig, LocalWire, PeerWire, Decoded, Decode,
              CanMarshal, Marshal
<1>5. QED
  BY <1>1, <1>2, <1>3, <1>4 DEF Next
(* The wire of a decoded local conversion is what Marshal made of a value  *)
(* the node builds, so decoding gives that value back.                     *)
LEMMA CInvRoundTrip == CInv => RoundTrip
<1> SUFFICES ASSUME CInv, origin = "local", status \in {"decoded", "relayed"},
                    orig # Nil
             PROVE  RoundTrip
  BY DEF RoundTrip
<1>1. CanMarshal(orig) /\ back = Decode(Marshal(orig))
  BY DEF CInv, LocalWire, Decoded
<1>2. CASE kind = "txs"
  <2>1. orig \in BuiltTxs
    BY <1>2 DEF CInv, LocalOrig, BuiltTxs
  <2>2. back = PbToTransactions(TransactionsToPb(orig))
    BY <1>1, <1>2 DEF Decode, Marshal
  <2>3. QED
    BY <1>2, <2>1, <2>2, TxsRoundTrip DEF RoundTrip
<1>3. CASE kind = "header"
  <2>1. orig \in LocalHeaders /\ NodeHeader(orig)
    BY <1>3, CodecAssumption DEF CInv, LocalOrig
  <2>2. back = PbToBlockHeader(BlockHeaderToPb(orig))
    BY <1>1, <1>3 DEF Decode, Marshal
  <2>3. QED
    BY <1>3, <2>1, <2>2, HeaderRoundTrip DEF RoundTrip
<1>4. CASE kind = "block"
  <2>1. orig \in LocalBlocks /\ orig.header # Nil
    BY <1>1, <1>4 DEF CInv, LocalOrig, CanMarshal
  <2>2. back = PbToBlock(BlockToPb(orig))
    BY <1>1, <1>4 DEF Decode, Marshal
  <2>3. QED
    BY <1>4, <2>1, <2>2, BlockRoundTrip DEF RoundTrip
<1>5. QED
  BY <1>2, <1>3, <1>4 DEF CInv, CTypeOK

(* A decoded peer message is one peers send, and its absent numbers decode *)
(* to zero field by field.                                                 *)
LEMMA CInvMissingIsZero == CInv => MissingIsZero
<1> SUFFICES ASSUME CInv, origin = "peer", status \in {"decoded", "relayed"}
             PROVE  MissingIsZero
  BY DEF MissingIsZero
<1>1. wire # Garbage /\ back = Decode(wire)
  BY DEF CInv, Decoded
<1>2. CASE kind = "txs"
  <2>1. (wire = Nil \/ PbTxs(wire)) /\ back = PbToTransactions(wire)
    BY <1>1, <1>2, CodecAssumption DEF CInv, PeerWire, Decode
  <2>2. TxsOf(back) = back /\ TxsOf(wire) = wire /\ HeaderOf(wire) = Nil
    BY <1>2 DEF TxsOf, HeaderOf
  <2>3. QED
    BY <2>1, <2>2, TxsMissingIsZero DEF MissingIsZero, NumTxFields
<1>3. CASE kind = "header"
  <2>1. back = PbToBlockHeader(wire)
    BY <1>1, <1>3 DEF Decode
  <2>2. TxsOf(back) = <<>> /\ HeaderOf(back) = back /\ HeaderOf(wire) = wire
    BY <1>3 DEF TxsOf, HeaderOf
  <2>3. QED
    BY <2>1, <2>2, HeaderMissingIsZero DEF MissingIsZero, NumHeaderFields
<1>4. CASE kind = "block"
  <2>1. /\ wire \in PeerBlocks
        /\ wire # Nil
        /\ wire.header = Nil \/ PbHeader(wire.header)
        /\ wire.transactions = Nil \/ PbTxs(wire.transactions)
    BY <1>1, <1>4, CodecAssumption DEF CInv, PeerWire
  <2>2. back = [header       |-> PbToBlockHeader(wire.header),
                transactions |-> PbToTransactions(wire.transactions)]
    BY <1>1, <1>4, <2>1 DEF Decode, PbToBlock
  <2>3. /\ TxsOf(back) = PbToTransactions(wire.transactions)
        /\ TxsOf(wire) = wire.transactions
        /\ HeaderOf(back) = PbToBlockHeader(wire.header)
        /\ HeaderOf(wire) = wire.header
    BY <1>4, <2>2 DEF TxsOf, HeaderOf
  <2>4. QED
    BY <2>1, <2>3, TxsMissingIsZero, HeaderMissingIsZero
       DEF MissingIsZero, NumTxFields, NumHeaderFields
<1>5. QED
  BY <1>2, <1>3, <1>4 DEF CInv, CTypeOK

(* Decoding what the node encoded gives the value back but for the        *)
(* senders, in every behaviour of MarshalLocal, UnMarshal and Relay.       *)
THEOREM RoundTripHolds == Spec => []RoundTrip
<1>1. CInv => RoundTrip
  BY CInvRoundTrip
<1>2. QED
  BY <1>1, InitCInv, NextCInv, PTL DEF Spec

(* Every number a peer's message leaves out decodes to zero.               *)
THEOREM MissingIsZeroHolds == Spec => []MissingIsZero
<1>1. CInv => MissingIsZero
  BY CInvMissingIsZero
<1>2. QED
  BY <1>1, InitCInv, NextCInv, PTL DEF Spec
=============================================================================
