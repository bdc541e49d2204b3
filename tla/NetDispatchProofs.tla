------------------------- MODULE NetDispatchProofs -------------------------
(***************************************************************************)
(* Proof that the network Server publishes only well-formed messages      *)
(* addressed to the node, each once, for every set of peers and codes and *)
(* every bound.  PublishedOnce alone is not inductive: a pending message  *)
(* could be malformed, sent to a peer, or already on the bus.  PendingInv *)
(* says that handleMessage starts a goroutine only for a message that      *)
(* decoded and is addressed to the node, and that its goroutine has not   *)
(* published yet.                                                          *)
(***************************************************************************)
EXTENDS NetDispatch, SequenceTheorems, TLAPS

MsgRec == [from : Peers \cup {Self}, to : Peers \cup {Self, "all", "neighbours"},
           code : Codes, ok : BOOLEAN]

BusRec == [topic : {TopicOf(c) : c \in Codes}, msg : Nat]

NTypeOK ==
    /\ msgs \in Seq(MsgRec)
    /\ bus \in Seq(BusRec)
    /\ pending \subseteq Ids

(* Every started goroutine handles a message that decoded and is          *)
(* addressed to the node, and has not published it yet.                    *)
PendingInv ==
    \A n \in pending :
        /\ msgs[n].to = Self
        /\ msgs[n].ok
        /\ \A i \in 1..Len(bus) : bus[i].msg # n

NInv == NTypeOK /\ PendingInv /\ PublishedOnce

LEMMA InitNInv == Init => NInv
BY DEF Init, NInv, NTypeOK, PendingInv, PublishedOnce, Ids

(* The positions of a sequence and the one Append adds.                  *)
LEMMA NextPosition ==
  ASSUME NEW S, NEW s \in Seq(S)
  PROVE  /\ 1..Len(s) \subseteq 1..(Len(s) + 1)
         /\ Len(s) + 1 \in 1..(Len(s) + 1)
         /\ Len(s) + 1 \notin 1..Len(s)
<1>1. Len(s) \in Nat
  OBVIOUS
<1>2. QED
  BY <1>1

(* A step that appends the message r to msgs and may start its goroutine: *)
(* the earlier messages, and what is known of them, stay as they were.     *)
LEMMA AppendMsgNInv ==
  ASSUME NInv, NEW r \in MsgRec,
         msgs' = Append(msgs, r),
         \/ pending' = pending
         \/ pending' = pending \cup {Len(msgs) + 1} /\ r.to = Self /\ r.ok,
         UNCHANGED bus
  PROVE  NInv'
  <1> DEFINE n == Len(msgs) + 1
  <1>1. /\ msgs' \in Seq(MsgRec)
        /\ Len(msgs') = n
        /\ msgs'[n] = r
        /\ \A k \in 1..Len(msgs) : msgs'[k] = msgs[k]
    BY AppendProperties DEF NInv, NTypeOK
  <1>2. \A i \in 1..Len(bus) : bus[i].msg \in 1..Len(msgs)
    BY DEF NInv, PublishedOnce, Delivered, Ids
  <1>3. NTypeOK'
    <2>1. Len(msgs) \in Nat /\ pending \subseteq 1..Len(msgs)
      BY DEF NInv, NTypeOK, Ids
    <2>2. pending' \subseteq 1..(Len(msgs) + 1)
      <3>1. CASE pending' = pending
        BY <2>1, <3>1
      <3>2. CASE pending' = pending \cup {Len(msgs) + 1}
        <4>1. /\ 1..Len(msgs) \subseteq 1..(Len(msgs) + 1)
              /\ Len(msgs) + 1 \in 1..(Len(msgs) + 1)
          BY NextPosition DEF NInv, NTypeOK
        <4>2. QED
          BY <2>1, <3>2, <4>1, Zenon
      <3>3. QED
        BY <3>1, <3>2
    <2>3. QED
      BY <1>1, <2>2 DEF NInv, NTypeOK, Ids
  <1>0. Len(msgs) \in Nat /\ pending \subseteq 1..Len(msgs)
    BY DEF NInv, NTypeOK, Ids
  <1>4. PendingInv'
    <2> SUFFICES ASSUME NEW m \in pending'
                 PROVE  /\ msgs'[m].to = Self
                        /\ msgs'[m].ok
                        /\ \A i \in 1..Len(bus') : bus'[i].msg # m
      BY DEF PendingInv
    <2>1. CASE m \in pending
      <3>1. m \in 1..Len(msgs) /\ msgs'[m] = msgs[m]
        BY <1>0, <1>1, <2>1
      <3>2. QED
        BY <2>1, <3>1 DEF NInv, PendingInv
    <2>2. CASE m \notin pending
      <3>1. m = n /\ r.to = Self /\ r.ok
        BY <2>2 DEF n
      <3>2. QED
        BY <1>0, <1>1, <1>2, <3>1 DEF n
    <2>3. QED
      BY <2>1, <2>2
  <1>5. PublishedOnce'
    <2>1. \A k \in 1..Len(msgs) : Delivered(k) => Delivered(k)'
      <3>1. 1..Len(msgs) \subseteq 1..Len(msgs')
        BY <1>1, NextPosition DEF NInv, NTypeOK, n
      <3>2. QED
        BY <1>1, <3>1 DEF Delivered, Ids
    <2>2. QED
      BY <1>1, <1>2, <2>1 DEF NInv, PublishedOnce
  <1>6. QED
    BY <1>3, <1>4, <1>5 DEF NInv

(* handleMessageInner of a pending message: it leaves pending and, when   *)
(* its code has a topic, is published for the first and only time.         *)
LEMMA InnerNInv ==
  ASSUME NInv, NEW n \in pending, HandleMessageInner(n)
  PROVE  NInv'
  <1>0. /\ msgs \in Seq(MsgRec)
        /\ bus \in Seq(BusRec)
        /\ n \in 1..Len(msgs)
    BY DEF NInv, NTypeOK, Ids
  <1>1. /\ msgs[n].to = Self
        /\ msgs[n].ok
        /\ \A i \in 1..Len(bus) : bus[i].msg # n
        /\ msgs[n].code \in Codes
    <2>1. msgs[n] \in MsgRec
      BY <1>0, ElementOfSeq
    <2>2. QED
      BY <2>1 DEF NInv, PendingInv, MsgRec
  <1>2. UNCHANGED msgs /\ pending' = pending \ {n}
    BY DEF HandleMessageInner
  <1>3. NTypeOK' /\ PendingInv' /\ PublishedOnce' => NInv'
    BY DEF NInv
  <1>4. CASE TopicOf(msgs[n].code) # ""
    <2> DEFINE e == [topic |-> TopicOf(msgs[n].code), msg |-> n]
    <2>1. e \in BusRec
      BY <1>0, <1>1 DEF BusRec, e
    <2>2. bus' = Append(bus, e)
      BY <1>4 DEF HandleMessageInner, e
    <2>3. /\ bus' \in Seq(BusRec)
          /\ Len(bus') = Len(bus) + 1
          /\ bus'[Len(bus) + 1] = e
          /\ \A i \in 1..Len(bus) : bus'[i] = bus[i]
      BY <1>0, <2>1, <2>2, AppendProperties
    <2>4. 1..Len(bus') = 1..Len(bus) \cup {Len(bus) + 1}
      BY <1>0, <2>3
    <2>5. Delivered(n)
      BY <1>0, <1>1, <1>4 DEF Delivered, Ids
    <2>6. NTypeOK'
      BY <1>2, <2>3 DEF NInv, NTypeOK, Ids
    <2>7. PendingInv'
      BY <1>0, <1>2, <2>3, <2>4 DEF NInv, PendingInv, e
    <2>8. PublishedOnce'
      <3>0. \A k : Delivered(k)' = Delivered(k)
        BY <1>2 DEF Delivered, Ids
      <3>1. ASSUME NEW i \in 1..Len(bus')
            PROVE  /\ Delivered(bus'[i].msg)
                   /\ bus'[i].topic = TopicOf(msgs[bus'[i].msg].code)
        <4>1. CASE i \in 1..Len(bus)
          BY <2>3, <4>1 DEF NInv, PublishedOnce
        <4>2. CASE i = Len(bus) + 1
          BY <2>3, <2>5, <4>2 DEF e
        <4>3. QED
          BY <2>4, <4>1, <4>2
      <3>2. ASSUME NEW i \in 1..Len(bus'), NEW j \in 1..Len(bus'),
                   bus'[i].msg = bus'[j].msg
            PROVE  i = j
        <4>1. CASE i \in 1..Len(bus) /\ j \in 1..Len(bus)
          BY <2>3, <3>2, <4>1 DEF NInv, PublishedOnce
        <4>2. CASE i \in 1..Len(bus) /\ j = Len(bus) + 1
          BY <1>1, <2>3, <3>2, <4>2 DEF e
        <4>3. CASE i = Len(bus) + 1 /\ j \in 1..Len(bus)
          BY <1>1, <2>3, <3>2, <4>3 DEF e
        <4>4. CASE i = Len(bus) + 1 /\ j = Len(bus) + 1
          BY <4>4
        <4>5. QED
          BY <2>4, <4>1, <4>2, <4>3, <4>4
      <3>3. QED
        BY <1>2, <3>0, <3>1, <3>2, Zenon DEF PublishedOnce
    <2>9. QED
      BY <1>3, <2>6, <2>7, <2>8
  <1>5. CASE TopicOf(msgs[n].code) = ""
    <2>1. UNCHANGED bus
      BY <1>5 DEF HandleMessageInner
    <2>2. QED
      BY <1>2, <1>3, <2>1 DEF NInv, NTypeOK, PendingInv, PublishedOnce,
         Delivered, Ids
  <1>6. QED
    BY <1>4, <1>5

LEMMA NextNInv == NInv /\ [Next]_vars => NInv'
  <1> SUFFICES ASSUME NInv, [Next]_vars PROVE NInv'
    OBVIOUS
  <1>1. ASSUME NEW id \in Peers \cup {Self}, NEW code \in Codes, Send(id, code)
        PROVE  NInv'
    <2> DEFINE r == [from |-> Self, to |-> id, code |-> code, ok |-> TRUE]
    <2>1. r \in MsgRec
      BY DEF MsgRec
    <2>2. \/ pending' = pending
          \/ pending' = pending \cup {Len(msgs) + 1} /\ r.to = Self /\ r.ok
      BY <1>1 DEF Send, HandleMessage
    <2>3. QED
      BY <1>1, <2>1, <2>2, AppendMsgNInv DEF Send
  <1>2. ASSUME NEW code \in Codes, NEW relay \in BOOLEAN, Broadcast(code, relay)
        PROVE  NInv'
    <2> DEFINE r == [from |-> Self, to |-> IF relay THEN "all" ELSE "neighbours",
                     code |-> code, ok |-> TRUE]
    <2>1. r \in MsgRec
      BY DEF MsgRec
    <2>2. QED
      BY <1>2, <2>1, AppendMsgNInv DEF Broadcast
  <1>3. ASSUME NEW from \in Peers, NEW code \in Codes, NEW ok \in BOOLEAN,
               Receive(from, code, ok)
        PROVE  NInv'
    <2> DEFINE r == [from |-> from, to |-> Self, code |-> code, ok |-> ok]
    <2>1. r \in MsgRec
      BY DEF MsgRec
    <2>2. \/ pending' = pending
          \/ pending' = pending \cup {Len(msgs) + 1} /\ r.to = Self /\ r.ok
      BY <1>3 DEF Receive, HandleMessage
    <2>3. QED
      BY <1>3, <2>1, <2>2, AppendMsgNInv DEF Receive
  <1>4. ASSUME NEW n \in pending, HandleMessageInner(n) PROVE NInv'
    BY <1>4, InnerNInv
  <1>5. CASE UNCHANGED vars
    BY <1>5 DEF vars, NInv, NTypeOK, PendingInv, PublishedOnce, Delivered, Ids
  <1>6. QED
    BY <1>1, <1>2, <1>3, <1>4, <1>5 DEF Next

(* The Server publishes only messages addressed to the node that decoded, *)
(* on the topic of their code, and never one twice, whatever the order in *)
(* which the handleMessageInner goroutines run.                            *)
THEOREM PublishedOnceHolds == Spec => []PublishedOnce
  <1>1. NInv => PublishedOnce
    BY DEF NInv
  <1>2. QED
    BY <1>1, InitNInv, NextNInv, PTL DEF Spec
=============================================================================
