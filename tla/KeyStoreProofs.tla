--------------------------- MODULE KeyStoreProofs ---------------------------
(***************************************************************************)
(* Proofs about the account manager of KeyStore, for every set of         *)
(* addresses, passwords and durations and every bound.                     *)
(*                                                                         *)
(* KeyReleasedOnlyToUnlocker is not inductive: a step of AccountInfo may   *)
(* return a cached object that is not unlockAccount, unless we know that   *)
(* the only cached object with status "unlocked" is unlockAccount, that    *)
(* unlockAccount still carries the address, password and expiry the last  *)
(* successful UnLock gave it, and that the cache agrees with the file.     *)
(***************************************************************************)
EXTENDS KeyStore, SequenceTheorems, TLAPS

(* The only cached object whose status is "unlocked" is unlockAccount,    *)
(* expired or not.                                                         *)
CachedUnlockedIsCurrent ==
    \A a \in Addrs :
        (cache[a] # 0 /\ infos[cache[a]].status = Unlocked) =>
            cache[a] = unlockAcc

(* unlockAccount is the object of the last successful UnLock, unchanged   *)
(* but for its status.                                                     *)
UnlockMatchesHistory ==
    unlockAcc # 0 =>
        /\ infos[unlockAcc].addr = lastUnlock.addr
        /\ infos[unlockAcc].pwd = lastUnlock.pwd
        /\ infos[unlockAcc].expire = lastUnlock.until

IInv ==
    /\ TypeOK
    /\ CacheMatchesStore
    /\ CachedUnlockedIsCurrent
    /\ UnlockMatchesHistory
    /\ KeyReleasedOnlyToUnlocker

-----------------------------------------------------------------------------
LEMMA InitIInv == Init => IInv
  BY ConstAssumption
  DEF Init, IInv, TypeOK, Results, Result, NoUnlock, Ops, CacheMatchesStore,
      CachedUnlockedIsCurrent, UnlockMatchesHistory, KeyReleasedOnlyToUnlocker

(* A step that only records a result other than a released account.      *)
LEMMA ResultOnlyIInv ==
  ASSUME IInv,
         UNCHANGED <<bucket, store, infos, cache, unlockAcc, now, lastUnlock>>,
         result' \in Results,
         result'.op \notin {"AccountInfo", "ExportKey"}
  PROVE  IInv'
  BY DEF IInv, TypeOK, CacheMatchesStore, CachedUnlockedIsCurrent,
         UnlockMatchesHistory, KeyReleasedOnlyToUnlocker, IsUnlocked

(* storeAccount followed by am.accounts.Store, as in NewAccount and       *)
(* NewAccountByImportKey: a new locked object replaces the cached one.    *)
LEMMA StoreAndCacheIInv ==
  ASSUME IInv, NEW a \in Addrs, NEW p \in Pwds,
         StoreAndCache(a, p),
         UNCHANGED <<unlockAcc, now, lastUnlock>>,
         result' \in Results,
         result'.op \notin {"AccountInfo", "ExportKey"}
  PROVE  IInv'
  <1> DEFINE n == Len(infos) + 1
  <1>1. /\ infos' \in Seq(InfoRec)
        /\ Len(infos') = n
        /\ infos'[n] = NewInfo(a, p)
        /\ \A j \in 1..Len(infos) : infos'[j] = infos[j]
    <2>1. NewInfo(a, p) \in InfoRec
      BY DEF NewInfo, InfoRec
    <2>2. QED
      BY <2>1, AppendProperties DEF StoreAndCache, IInv, TypeOK
  <1>2. TypeOK'
    BY <1>1, ConstAssumption DEF StoreAndCache, IInv, TypeOK
  <1>3. CacheMatchesStore'
    BY <1>1 DEF StoreAndCache, IInv, TypeOK, CacheMatchesStore, NewInfo
  <1>4. CachedUnlockedIsCurrent'
    BY <1>1 DEF StoreAndCache, IInv, TypeOK, CachedUnlockedIsCurrent, NewInfo,
           Locked, Unlocked
  <1>5. UnlockMatchesHistory'
    BY <1>1 DEF StoreAndCache, IInv, TypeOK, UnlockMatchesHistory
  <1>6. KeyReleasedOnlyToUnlocker'
    BY DEF KeyReleasedOnlyToUnlocker
  <1>7. QED
    BY <1>2, <1>3, <1>4, <1>5, <1>6 DEF IInv

(* What GrantUnlock does to the AccountInfo objects: i is unlocked until  *)
(* now + d, the previous unlockAccount is locked when it belongs to       *)
(* another address, and nothing else changes.                              *)
LEMMA GrantUnlockInfos ==
  ASSUME IInv, NEW a \in Addrs, NEW p \in Pwds, NEW d \in Durations,
         NEW infos0 \in Seq(InfoRec), NEW i \in 1..Len(infos0),
         Len(infos) <= Len(infos0),
         GrantUnlock(i, a, p, d, infos0)
  PROVE  LET relock == unlockAcc # 0 /\ infos0[unlockAcc].addr # a IN
         /\ infos' \in Seq(InfoRec)
         /\ Len(infos') = Len(infos0)
         /\ \A j \in 1..Len(infos0) :
              /\ infos'[j].addr = infos0[j].addr
              /\ infos'[j].pwd = infos0[j].pwd
              /\ infos'[j].expire = IF j = i THEN now + d ELSE infos0[j].expire
              /\ infos'[j].status = IF j = i THEN Unlocked
                                    ELSE IF relock /\ j = unlockAcc THEN Locked
                                    ELSE infos0[j].status
  <1> USE ConstAssumption
  <1> DEFINE relock == unlockAcc # 0 /\ infos0[unlockAcc].addr # a
             infos1 == IF relock
                       THEN [infos0 EXCEPT ![unlockAcc].status = Locked]
                       ELSE infos0
  <1>1. \A j \in 1..Len(infos0) : infos0[j] \in InfoRec
    BY ElementOfSeq
  <1>2. /\ infos1 \in Seq(InfoRec)
        /\ Len(infos1) = Len(infos0)
        /\ \A j \in 1..Len(infos0) :
             /\ infos1[j].addr = infos0[j].addr
             /\ infos1[j].pwd = infos0[j].pwd
             /\ infos1[j].expire = infos0[j].expire
             /\ infos1[j].status = IF relock /\ j = unlockAcc THEN Locked
                                   ELSE infos0[j].status
    <2>1. CASE relock
      <3>1. unlockAcc \in 1..Len(infos0)
        BY <2>1 DEF IInv, TypeOK
      <3>2. [infos0[unlockAcc] EXCEPT !.status = Locked] \in InfoRec
        BY <1>1, <3>1 DEF InfoRec, Locked
      <3>3. infos1 = [infos0 EXCEPT ![unlockAcc] =
                         [infos0[unlockAcc] EXCEPT !.status = Locked]]
        BY <2>1
      <3>4. /\ infos1 \in Seq(InfoRec)
            /\ Len(infos1) = Len(infos0)
            /\ \A j \in 1..Len(infos0) :
                 infos1[j] = IF j = unlockAcc
                             THEN [infos0[unlockAcc] EXCEPT !.status = Locked]
                             ELSE infos0[j]
        BY <3>1, <3>2, <3>3, ExceptSeq
      <3>5. ASSUME NEW j \in 1..Len(infos0)
            PROVE  /\ infos1[j].addr = infos0[j].addr
                   /\ infos1[j].pwd = infos0[j].pwd
                   /\ infos1[j].expire = infos0[j].expire
                   /\ infos1[j].status = IF j = unlockAcc THEN Locked
                                         ELSE infos0[j].status
        <4>1. CASE j = unlockAcc
          <5>1. infos0[j] \in InfoRec
            BY <1>1
          <5>2. infos1[j] = [infos0[j] EXCEPT !.status = Locked]
            BY <3>4, <4>1
          <5>3. QED
            BY <5>1, <5>2, <4>1 DEF InfoRec
        <4>2. CASE j # unlockAcc
          BY <3>4, <4>2
        <4>3. QED
          BY <4>1, <4>2
      <3>6. QED
        BY <2>1, <3>4, <3>5
    <2>2. CASE ~relock
      BY <2>2
    <2>3. QED
      BY <2>1, <2>2
  <1>3. /\ infos' \in Seq(InfoRec)
        /\ Len(infos') = Len(infos0)
        /\ \A j \in 1..Len(infos0) :
             /\ infos'[j].addr = infos0[j].addr
             /\ infos'[j].pwd = infos0[j].pwd
             /\ infos'[j].expire = IF j = i THEN now + d ELSE infos0[j].expire
             /\ infos'[j].status = IF j = i THEN Unlocked
                                   ELSE IF relock /\ j = unlockAcc THEN Locked
                                   ELSE infos0[j].status
    <2>1. infos' = [infos1 EXCEPT ![i] = [infos1[i] EXCEPT !.status = Unlocked,
                                                          !.expire = now + d]]
      BY DEF GrantUnlock
    <2>2. \A j \in 1..Len(infos1) : infos1[j] \in InfoRec
      BY <1>2, ElementOfSeq
    <2>3. now + d \in Nat
      BY DEF IInv, TypeOK
    <2> DEFINE r == [infos1[i] EXCEPT !.status = Unlocked, !.expire = now + d]
    <2>4. infos1[i] \in InfoRec
      BY <1>2, <2>2
    <2>5. r \in InfoRec /\ r.addr = infos1[i].addr /\ r.pwd = infos1[i].pwd
          /\ r.status = Unlocked /\ r.expire = now + d
      BY <2>3, <2>4 DEF InfoRec, Unlocked
    <2>6. /\ infos' \in Seq(InfoRec)
          /\ Len(infos') = Len(infos0)
          /\ \A j \in 1..Len(infos0) : infos'[j] = IF j = i THEN r ELSE infos1[j]
      BY <1>2, <2>1, <2>5, ExceptSeq
    <2>7. ASSUME NEW j \in 1..Len(infos0)
          PROVE  /\ infos'[j].addr = infos0[j].addr
                 /\ infos'[j].pwd = infos0[j].pwd
                 /\ infos'[j].expire = IF j = i THEN now + d ELSE infos0[j].expire
                 /\ infos'[j].status = IF j = i THEN Unlocked
                                       ELSE IF relock /\ j = unlockAcc THEN Locked
                                       ELSE infos0[j].status
      <3>1. CASE j = i
        <4>1. infos'[j] = r
          BY <2>6, <3>1
        <4>2. infos1[i].addr = infos0[i].addr /\ infos1[i].pwd = infos0[i].pwd
          BY <1>2
        <4>3. QED
          BY <2>5, <3>1, <4>1, <4>2
      <3>2. CASE j # i
        <4>1. infos'[j] = infos1[j]
          BY <2>6, <3>2
        <4>2. QED
          BY <1>2, <3>2, <4>1
      <3>3. QED
        BY <3>1, <3>2
    <2>8. QED
      BY <2>6, <2>7
  <1>4. QED
    BY <1>3

(* The locked section of UnLock, for the object i of a in infos0, where   *)
(* infos0 extends infos and the cache maps a to i: the previous           *)
(* unlockAccount is locked when it belongs to another address.            *)
LEMMA GrantUnlockIInv ==
  ASSUME IInv, NEW a \in Addrs, NEW p \in Pwds, NEW d \in Durations,
         NEW infos0 \in Seq(InfoRec), NEW i \in 1..Len(infos0),
         Len(infos0) <= MaxInfos,
         Len(infos) <= Len(infos0),
         \A j \in 1..Len(infos) : infos0[j] = infos[j],
         infos0[i].addr = a, infos0[i].pwd = p, store[a] = p,
         cache' \in [Addrs -> 0..Len(infos0)],
         cache'[a] = i,
         \A b \in Addrs \ {a} : cache'[b] = cache[b],
         GrantUnlock(i, a, p, d, infos0),
         UNCHANGED <<bucket, store, now>>
  PROVE  IInv'
  <1> USE ConstAssumption
  <1> DEFINE relock == unlockAcc # 0 /\ infos0[unlockAcc].addr # a
             infos1 == IF relock
                       THEN [infos0 EXCEPT ![unlockAcc].status = Locked]
                       ELSE infos0
  <1>3. /\ infos' \in Seq(InfoRec)
        /\ Len(infos') = Len(infos0)
        /\ \A j \in 1..Len(infos0) :
             /\ infos'[j].addr = infos0[j].addr
             /\ infos'[j].pwd = infos0[j].pwd
             /\ infos'[j].expire = IF j = i THEN now + d ELSE infos0[j].expire
             /\ infos'[j].status = IF j = i THEN Unlocked
                                   ELSE IF relock /\ j = unlockAcc THEN Locked
                                   ELSE infos0[j].status
    BY GrantUnlockInfos
  <1>4. /\ unlockAcc' = i
        /\ lastUnlock' = [addr |-> a, pwd |-> p, until |-> now + d]
        /\ result' = Result("UnLock", "ok", a)
    BY DEF GrantUnlock
  <1>5. TypeOK'
    <2>1. lastUnlock' \in [addr : Addrs \cup {NoEntry}, pwd : Pwds \cup {NoEntry},
                           until : Nat]
      BY <1>4 DEF IInv, TypeOK
    <2>2. result' \in Results
      BY <1>4 DEF Result, Results, Ops
    <2>3. unlockAcc' \in 0..Len(infos')
      BY <1>3, <1>4
    <2>4. QED
      BY <1>3, <2>1, <2>2, <2>3 DEF IInv, TypeOK
  <1>6. CacheMatchesStore'
    <2> SUFFICES ASSUME NEW b \in Addrs, cache'[b] # 0
                 PROVE  /\ infos'[cache'[b]].addr = b
                        /\ store'[b] = infos'[cache'[b]].pwd
      BY DEF CacheMatchesStore
    <2>1. CASE b = a
      BY <2>1, <1>3
    <2>2. CASE b # a
      <3>1. cache[b] \in 1..Len(infos) /\ infos0[cache[b]] = infos[cache[b]]
        BY <2>2 DEF IInv, TypeOK
      <3>2. QED
        BY <2>2, <3>1, <1>3 DEF IInv, CacheMatchesStore
    <2>3. QED
      BY <2>1, <2>2
  <1>7. CachedUnlockedIsCurrent'
    <2> SUFFICES ASSUME NEW b \in Addrs, cache'[b] # 0,
                        infos'[cache'[b]].status = Unlocked
                 PROVE  cache'[b] = unlockAcc'
      BY DEF CachedUnlockedIsCurrent
    <2>1. CASE b = a
      BY <2>1, <1>4
    <2>2. CASE b # a
      <3> DEFINE j == cache[b]
      <3>1. j \in 1..Len(infos) /\ infos0[j] = infos[j] /\ infos[j].addr = b
        BY <2>2 DEF IInv, TypeOK, CacheMatchesStore
      <3>2. j # i
        BY <2>2, <3>1
      <3>3. j \in 1..Len(infos0)
        BY <3>1
      <3>4. infos'[j].status = IF relock /\ j = unlockAcc THEN Locked
                               ELSE infos[j].status
        BY <1>3, <3>1, <3>2, <3>3
      <3>5. infos[j].status = Unlocked => j = unlockAcc
        BY <3>1 DEF IInv, CachedUnlockedIsCurrent
      <3>6. j = unlockAcc => relock
        BY <3>1, <2>2 DEF IInv, TypeOK
      <3>7. QED
        BY <2>2, <3>4, <3>5, <3>6 DEF Locked, Unlocked
    <2>3. QED
      BY <2>1, <2>2
  <1>8. UnlockMatchesHistory'
    BY <1>3, <1>4 DEF UnlockMatchesHistory
  <1>9. KeyReleasedOnlyToUnlocker'
    BY <1>4 DEF KeyReleasedOnlyToUnlocker, Result
  <1>10. QED
    BY <1>5, <1>6, <1>7, <1>8, <1>9 DEF IInv

(* currentUnLockedAddr returns an address or the empty one.               *)
LEMMA CurrentAddrType ==
  ASSUME IInv PROVE CurrentUnLockedAddr \in Addrs \cup {NoEntry}
  <1>1. CASE unlockAcc # 0
    <2>1. infos[unlockAcc] \in InfoRec
      BY <1>1, ElementOfSeq DEF IInv, TypeOK
    <2>2. QED
      BY <2>1 DEF CurrentUnLockedAddr, InfoRec
  <1>2. QED
    BY <1>1 DEF CurrentUnLockedAddr

(* AccountInfo and ExportKey: what they release belongs to the last       *)
(* successful UnLock, whose expiry has not passed.                         *)
LEMMA ReadUnlockedIInv ==
  ASSUME IInv, NEW op \in {"AccountInfo", "ExportKey"}, ReadUnlocked(op)
  PROVE  IInv'
  <1> DEFINE c == CurrentUnLockedAddr
  <1>1. UNCHANGED <<bucket, store, infos, cache, unlockAcc, now, lastUnlock>>
    BY DEF ReadUnlocked
  <1>2. result' \in Results
    BY CurrentAddrType DEF ReadUnlocked, Result, Results, Ops
  <1>3. CASE Authorized(c)
    <2>1. result' = Result(op, "ok", c)
      BY <1>3 DEF ReadUnlocked
    <2>2. unlockAcc # 0 /\ IsUnlocked(unlockAcc) /\ c = infos[unlockAcc].addr
      BY <1>3 DEF Authorized, CurrentUnLockedAddr
    <2>3. cache[c] = unlockAcc
      BY <1>3, CurrentAddrType DEF Authorized, IsUnlocked, IInv,
         CachedUnlockedIsCurrent
    <2>4. /\ lastUnlock.addr = c
          /\ lastUnlock.pwd = store[c]
          /\ now < lastUnlock.until
      BY <1>3, <2>2, <2>3, CurrentAddrType DEF Authorized, IsUnlocked, IInv,
         UnlockMatchesHistory, CacheMatchesStore
    <2>5. KeyReleasedOnlyToUnlocker'
      BY <1>1, <2>1, <2>4 DEF KeyReleasedOnlyToUnlocker, Result
    <2>6. QED
      BY <1>1, <1>2, <2>5 DEF IInv, TypeOK, CacheMatchesStore,
         CachedUnlockedIsCurrent, UnlockMatchesHistory
  <1>4. CASE ~Authorized(c)
    <2>1. result' = Result(op, "err", c)
      BY <1>4 DEF ReadUnlocked
    <2>2. KeyReleasedOnlyToUnlocker'
      BY <2>1 DEF KeyReleasedOnlyToUnlocker, Result
    <2>3. QED
      BY <1>1, <1>2, <2>2 DEF IInv, TypeOK, CacheMatchesStore,
         CachedUnlockedIsCurrent, UnlockMatchesHistory
  <1>5. QED
    BY <1>3, <1>4

LEMMA NextIInv == IInv /\ [Next]_vars => IInv'
  <1> SUFFICES ASSUME IInv, [Next]_vars PROVE IInv'
    OBVIOUS
  <1> USE ConstAssumption
  <1>1. ASSUME NEW p \in Pwds, NewAccount(p) PROVE IInv'
    <2>1. PICK a \in Addrs :
            \/ /\ StoreAndCache(a, p)
               /\ result' = Result("NewAccount", "ok", a)
            \/ /\ result' = Result("NewAccount", "err", a)
               /\ UNCHANGED <<bucket, store, infos, cache>>
      BY <1>1 DEF NewAccount
    <2>2. UNCHANGED <<unlockAcc, now, lastUnlock>>
      BY <1>1 DEF NewAccount
    <2>3. result' \in Results /\ result'.op \notin {"AccountInfo", "ExportKey"}
      BY <2>1 DEF Result, Results, Ops
    <2>4. QED
      BY <2>1, <2>2, <2>3, StoreAndCacheIInv, ResultOnlyIInv
  <1>2. ASSUME NEW a \in Addrs, NEW p \in Pwds, ImportKey(a, p) PROVE IInv'
    <2>1. result' \in Results /\ result'.op \notin {"AccountInfo", "ExportKey"}
      BY <1>2 DEF ImportKey, Result, Results, Ops
    <2>2. QED
      BY <1>2, <2>1, StoreAndCacheIInv, ResultOnlyIInv DEF ImportKey
  <1>3. ASSUME NEW a \in Addrs, NEW p \in Pwds, NEW d \in Durations,
               UnLock(a, p, d) PROVE IInv'
    <2>0. UNCHANGED <<bucket, store, now>>
      BY <1>3 DEF UnLock
    <2>1. CASE /\ cache[a] # 0
               /\ infos[cache[a]].pwd # p
               /\ result' = Result("UnLock", "err", a)
               /\ UNCHANGED <<infos, cache, unlockAcc, lastUnlock>>
      BY <2>0, <2>1, ResultOnlyIInv DEF Result, Results, Ops
    <2>2. CASE /\ cache[a] # 0
               /\ infos[cache[a]].pwd = p
               /\ GrantUnlock(cache[a], a, p, d, infos)
               /\ UNCHANGED cache
      <3>1. /\ cache[a] \in 1..Len(infos)
            /\ infos[cache[a]].addr = a
            /\ store[a] = p
        BY <2>2 DEF IInv, TypeOK, CacheMatchesStore
      <3>2. /\ infos \in Seq(InfoRec)
            /\ Len(infos) <= MaxInfos
            /\ cache' \in [Addrs -> 0..Len(infos)]
        BY <2>2 DEF IInv, TypeOK
      <3>3. QED
        BY <2>0, <2>2, <3>1, <3>2, GrantUnlockIInv
    <2>3. CASE /\ cache[a] = 0
               /\ LoadAccount(a, p) = "err"
               /\ result' = Result("UnLock", "err", a)
               /\ UNCHANGED <<infos, cache, unlockAcc, lastUnlock>>
      BY <2>0, <2>3, ResultOnlyIInv DEF Result, Results, Ops
    <2>4. CASE /\ cache[a] = 0
               /\ LoadAccount(a, p) = "ok"
               /\ Len(infos) < MaxInfos
               /\ cache' = [cache EXCEPT ![a] = Len(infos) + 1]
               /\ GrantUnlock(Len(infos) + 1, a, p, d,
                              Append(infos, NewInfo(a, p)))
      <3> DEFINE infos0 == Append(infos, NewInfo(a, p))
                 n == Len(infos) + 1
      <3>1. NewInfo(a, p) \in InfoRec
        BY DEF NewInfo, InfoRec
      <3>2. /\ infos0 \in Seq(InfoRec)
            /\ Len(infos0) = n
            /\ infos0[n] = NewInfo(a, p)
            /\ \A j \in 1..Len(infos) : infos0[j] = infos[j]
        BY <3>1, AppendProperties DEF IInv, TypeOK
      <3>3. /\ n \in 1..Len(infos0)
            /\ Len(infos0) <= MaxInfos
            /\ Len(infos) <= Len(infos0)
            /\ infos0[n].addr = a /\ infos0[n].pwd = p
        BY <2>4, <3>2 DEF IInv, TypeOK, NewInfo
      <3>4. /\ cache' \in [Addrs -> 0..Len(infos0)]
            /\ cache'[a] = n
            /\ \A b \in Addrs \ {a} : cache'[b] = cache[b]
        BY <2>4, <3>2 DEF IInv, TypeOK
      <3>5. store[a] = p
        BY <2>4 DEF LoadAccount
      <3>6. QED
        BY <2>0, <2>4, <3>2, <3>3, <3>4, <3>5, GrantUnlockIInv
    <2>5. CASE /\ cache[a] = 0
               /\ LoadAccount(a, p) = "nil"
               /\ infos' = <<>>
               /\ cache' = [x \in Addrs |-> 0]
               /\ unlockAcc' = 0
               /\ lastUnlock' = NoUnlock
               /\ result' = Result("UnLock", "panic", a)
      BY <2>0, <2>5 DEF NoUnlock, Result, Results, IInv, TypeOK, Ops,
         CacheMatchesStore, CachedUnlockedIsCurrent,
         UnlockMatchesHistory, KeyReleasedOnlyToUnlocker
    <2>6. QED
      BY <1>3, <2>1, <2>2, <2>3, <2>4, <2>5 DEF UnLock
  <1>4. CASE AccountInfo \/ ExportKey
    BY <1>4, ReadUnlockedIInv DEF AccountInfo, ExportKey
  <1>5. CASE DeleteAccount
    <2> DEFINE c == CurrentUnLockedAddr
    <2>0. UNCHANGED <<bucket, infos, unlockAcc, now, lastUnlock>>
      BY <1>5 DEF DeleteAccount
    <2>1. result' \in Results /\ result'.op = "DeleteAccount"
      BY <1>5, CurrentAddrType DEF DeleteAccount, Result, Results, Ops
    <2>2. CASE ~Authorized(c)
      BY <1>5, <2>0, <2>1, <2>2, ResultOnlyIInv DEF DeleteAccount
    <2>3. CASE Authorized(c)
      <3>1. c \in Addrs
        BY <2>3, CurrentAddrType DEF Authorized
      <3>2. /\ cache' = [cache EXCEPT ![c] = 0]
            /\ store' \in {store, [store EXCEPT ![c] = NoEntry]}
        BY <1>5, <2>3 DEF DeleteAccount
      <3>3. TypeOK'
        BY <2>0, <2>1, <3>1, <3>2 DEF IInv, TypeOK
      <3>4. CacheMatchesStore'
        BY <2>0, <3>1, <3>2 DEF IInv, TypeOK, CacheMatchesStore
      <3>5. CachedUnlockedIsCurrent'
        BY <2>0, <3>1, <3>2 DEF IInv, TypeOK, CachedUnlockedIsCurrent
      <3>6. UnlockMatchesHistory'
        BY <2>0 DEF IInv, UnlockMatchesHistory
      <3>7. KeyReleasedOnlyToUnlocker'
        BY <2>1 DEF KeyReleasedOnlyToUnlocker
      <3>8. QED
        BY <3>3, <3>4, <3>5, <3>6, <3>7 DEF IInv
    <2>4. QED
      BY <2>2, <2>3
  <1>6. CASE Tick
    BY <1>6 DEF Tick, Result, Results, Ops, IInv, TypeOK, CacheMatchesStore,
       CachedUnlockedIsCurrent, UnlockMatchesHistory, KeyReleasedOnlyToUnlocker
  <1>7. CASE Restart
    BY <1>7 DEF Restart, NoUnlock, Result, Results, IInv, TypeOK, Ops,
       CacheMatchesStore, CachedUnlockedIsCurrent,
       UnlockMatchesHistory, KeyReleasedOnlyToUnlocker
  <1>8. CASE UNCHANGED vars
    BY <1>8 DEF vars, IInv, TypeOK, CacheMatchesStore, CachedUnlockedIsCurrent,
       UnlockMatchesHistory, KeyReleasedOnlyToUnlocker, IsUnlocked
  <1>9. QED
    BY <1>1, <1>2, <1>3, <1>4, <1>5, <1>6, <1>7, <1>8 DEF Next

-----------------------------------------------------------------------------
(* IInv holds in every reachable state of the account manager.           *)
LEMMA AlwaysIInv == Spec => []IInv
  BY InitIInv, NextIInv, PTL DEF Spec

(* Every state the console's account manager reaches is well typed:        *)
(* cache entries point into the list of AccountInfo objects and the       *)
(* unlocked account is nil or one of them.                                 *)
THEOREM TypeCorrect == Spec => []TypeOK
  <1>1. IInv => TypeOK
    BY DEF IInv
  <1>2. QED
    BY <1>1, AlwaysIInv, PTL

(* AccountInfo and ExportKey (account_op.go) only ever hand out the       *)
(* account, or the private key, of the address that the last successful   *)
(* UnLock opened with that address's stored password, before its expiry.  *)
THEOREM KeyReleased == Spec => []KeyReleasedOnlyToUnlocker
  <1>1. IInv => KeyReleasedOnlyToUnlocker
    BY DEF IInv
  <1>2. QED
    BY <1>1, AlwaysIInv, PTL

(* Every cached AccountInfo object carries its own address and the        *)
(* password the bolt keystore holds for it, through NewAccount,           *)
(* ImportKey, DeleteAccount failures and restarts.                         *)
THEOREM CacheConsistent == Spec => []CacheMatchesStore
  <1>1. IInv => CacheMatchesStore
    BY DEF IInv
  <1>2. QED
    BY <1>1, AlwaysIInv, PTL

(* UnLock locks the previously unlocked account before opening another,  *)
(* so no two cached accounts are unlocked and unexpired at once.          *)
THEOREM OneUnlocked == Spec => []SingleUnlocked
  <1>1. IInv => SingleUnlocked
    <2> SUFFICES ASSUME IInv, NEW a \in Addrs, NEW b \in Addrs,
                        cache[a] # 0, cache[b] # 0,
                        IsUnlocked(cache[a]), IsUnlocked(cache[b])
                 PROVE  a = b
      BY DEF SingleUnlocked
    <2>1. cache[a] = unlockAcc /\ cache[b] = unlockAcc
      BY DEF IInv, CachedUnlockedIsCurrent, IsUnlocked
    <2>2. infos[cache[a]].addr = a /\ infos[cache[b]].addr = b
      BY DEF IInv, CacheMatchesStore
    <2>3. QED
      BY <2>1, <2>2
  <1>2. QED
    BY <1>1, AlwaysIInv, PTL

-----------------------------------------------------------------------------
(* A step that leaves every object unlocked no later than before, or       *)
(* allocates only locked ones, grants nothing.                             *)
LEMMA NoGrant ==
  ASSUME IInv, infos' \in Seq(InfoRec),
         \A j \in 1..Len(infos') :
            infos'[j].status = Unlocked =>
                /\ j \in 1..Len(infos)
                /\ infos[j].status = Unlocked
                /\ infos[j].expire = infos'[j].expire
  PROVE  UnlockGranted
BY DEF UnlockGranted

(* The step of UnLock's locked section grants the unlock of object i only, *)
(* with the password that opens the keystore entry of its address.        *)
LEMMA GrantUnlockGranted ==
  ASSUME IInv, NEW a \in Addrs, NEW p \in Pwds, NEW d \in Durations,
         NEW infos0 \in Seq(InfoRec), NEW i \in 1..Len(infos0),
         Len(infos) <= Len(infos0),
         \A j \in 1..Len(infos) : infos0[j] = infos[j],
         \A j \in (Len(infos) + 1)..Len(infos0) : j = i,
         infos0[i].addr = a, store[a] = p,
         GrantUnlock(i, a, p, d, infos0),
         UNCHANGED store
  PROVE  UnlockGranted
  <1> DEFINE relock == unlockAcc # 0 /\ infos0[unlockAcc].addr # a
  <1>1. /\ Len(infos') = Len(infos0)
        /\ \A j \in 1..Len(infos0) :
             /\ infos'[j].addr = infos0[j].addr
             /\ infos'[j].expire = IF j = i THEN now + d ELSE infos0[j].expire
             /\ infos'[j].status = IF j = i THEN Unlocked
                                   ELSE IF relock /\ j = unlockAcc THEN Locked
                                   ELSE infos0[j].status
    BY GrantUnlockInfos
  <1>2. /\ result' = Result("UnLock", "ok", a)
        /\ lastUnlock'.pwd = p
    BY DEF GrantUnlock
  <1> SUFFICES ASSUME NEW j \in 1..Len(infos'),
                      infos'[j].status = Unlocked,
                      ~(/\ j \in 1..Len(infos)
                        /\ infos[j].status = Unlocked
                        /\ infos[j].expire = infos'[j].expire)
               PROVE  /\ result' = Result("UnLock", "ok", infos'[j].addr)
                      /\ lastUnlock'.pwd = store'[infos'[j].addr]
    BY DEF UnlockGranted
  <1>3. j = i
    <2>1. CASE j \in 1..Len(infos)
      BY <1>1, <2>1 DEF Locked, Unlocked
    <2>2. CASE j \notin 1..Len(infos)
      BY <1>1, <2>2
    <2>3. QED
      BY <2>1, <2>2
  <1>4. QED
    BY <1>1, <1>2, <1>3

(* Every step of the account manager satisfies UnlockGranted.              *)
LEMMA NextUnlockGranted == IInv /\ [Next]_vars => UnlockGranted
  <1> SUFFICES ASSUME IInv, [Next]_vars PROVE UnlockGranted
    OBVIOUS
  <1> USE ConstAssumption
  <1>0. infos \in Seq(InfoRec)
    BY DEF IInv, TypeOK
  <1>1. CASE UNCHANGED infos
    BY <1>0, <1>1, NoGrant
  <1>2. ASSUME NEW a \in Addrs, NEW p \in Pwds, StoreAndCache(a, p)
        PROVE  UnlockGranted
    <2>1. NewInfo(a, p) \in InfoRec
      BY DEF NewInfo, InfoRec
    <2>2. /\ infos' \in Seq(InfoRec)
          /\ Len(infos') = Len(infos) + 1
          /\ infos'[Len(infos) + 1] = NewInfo(a, p)
          /\ \A j \in 1..Len(infos) : infos'[j] = infos[j]
      BY <1>0, <1>2, <2>1, AppendProperties DEF StoreAndCache
    <2>3. QED
      BY <2>2, NoGrant DEF NewInfo, Locked, Unlocked
  <1>3. CASE infos' = <<>>
    BY <1>3, NoGrant
  <1>4. ASSUME NEW a \in Addrs, NEW p \in Pwds, NEW d \in Durations,
               UnLock(a, p, d)
        PROVE  UnlockGranted
    <2>0. UNCHANGED store
      BY <1>4 DEF UnLock
    <2>1. CASE /\ cache[a] # 0
               /\ infos[cache[a]].pwd = p
               /\ GrantUnlock(cache[a], a, p, d, infos)
      <3>1. /\ cache[a] \in 1..Len(infos)
            /\ infos[cache[a]].addr = a
            /\ store[a] = p
        BY <2>1 DEF IInv, TypeOK, CacheMatchesStore
      <3>2. QED
        BY <1>0, <2>0, <2>1, <3>1, GrantUnlockGranted
    <2>2. CASE /\ cache[a] = 0
               /\ LoadAccount(a, p) = "ok"
               /\ GrantUnlock(Len(infos) + 1, a, p, d,
                              Append(infos, NewInfo(a, p)))
      <3> DEFINE infos0 == Append(infos, NewInfo(a, p))
      <3>1. NewInfo(a, p) \in InfoRec
        BY DEF NewInfo, InfoRec
      <3>2. /\ infos0 \in Seq(InfoRec)
            /\ Len(infos0) = Len(infos) + 1
            /\ infos0[Len(infos) + 1] = NewInfo(a, p)
            /\ \A j \in 1..Len(infos) : infos0[j] = infos[j]
        BY <1>0, <3>1, AppendProperties
      <3>3. infos0[Len(infos) + 1].addr = a /\ store[a] = p
        BY <2>2, <3>2 DEF NewInfo, LoadAccount
      <3>4. /\ Len(infos) + 1 \in 1..Len(infos0)
            /\ Len(infos) <= Len(infos0)
            /\ \A j \in (Len(infos) + 1)..Len(infos0) : j = Len(infos) + 1
        BY <1>0, <3>2
      <3>5. QED
        BY <2>0, <2>2, <3>2, <3>3, <3>4, GrantUnlockGranted DEF infos0
    <2>3. QED
      BY <1>1, <1>3, <1>4, <2>1, <2>2 DEF UnLock
  <1>5. QED
    BY <1>1, <1>2, <1>3, <1>4
       DEF Next, NewAccount, ImportKey, AccountInfo, ExportKey, ReadUnlocked,
           DeleteAccount, Tick, Restart, vars

(* A cached AccountInfo object is unlocked, or its unlock renewed, only by *)
(* a successful UnLock of its address with the password that decrypts its *)
(* keystore entry, although UnLock on a cached object checks only the     *)
(* cached password hash (account_op.go:341).                               *)
THEOREM UnlockNeedsKeyPassword == Spec => UnlockOnlyWithKeyPassword
  BY AlwaysIInv, NextUnlockGranted, PTL DEF Spec, UnlockOnlyWithKeyPassword

-----------------------------------------------------------------------------
(* Refinement of AccountContract.                                          *)
(*                                                                         *)
(* The crash of UnLock maps to the contract's Crash, which needs an empty *)
(* keystore: the bucket is only ever created by storeAccount, together    *)
(* with an entry, so without it there is no key.                           *)
NoBucketEmpty == ~bucket => \A a \in Addrs : store[a] = NoEntry

LEMMA NoBucketStep == IInv /\ NoBucketEmpty /\ [Next]_vars => NoBucketEmpty'
  <1> SUFFICES ASSUME IInv, NoBucketEmpty, [Next]_vars PROVE NoBucketEmpty'
    OBVIOUS
  <1>1. CASE UNCHANGED <<bucket, store>>
    BY <1>1 DEF NoBucketEmpty
  <1>2. CASE bucket' = TRUE
    BY <1>2 DEF NoBucketEmpty
  <1>3. CASE /\ UNCHANGED bucket
             /\ \E c \in Addrs : store' = [store EXCEPT ![c] = NoEntry]
    BY <1>3 DEF NoBucketEmpty, IInv, TypeOK
  <1>4. QED
    <2>1. ASSUME NEW p \in Pwds, NewAccount(p)
          PROVE  UNCHANGED <<bucket, store>> \/ bucket' = TRUE
      BY <2>1 DEF NewAccount, StoreAndCache
    <2>2. ASSUME NEW a \in Addrs, NEW p \in Pwds, ImportKey(a, p)
          PROVE  UNCHANGED <<bucket, store>> \/ bucket' = TRUE
      BY <2>2 DEF ImportKey, StoreAndCache
    <2>3. CASE DeleteAccount
      <3>1. UNCHANGED bucket
        BY <2>3 DEF DeleteAccount
      <3>2. CASE Authorized(CurrentUnLockedAddr)
        <4>1. CurrentUnLockedAddr \in Addrs
          BY <3>2, CurrentAddrType DEF Authorized
        <4>2. \/ UNCHANGED store
              \/ store' = [store EXCEPT ![CurrentUnLockedAddr] = NoEntry]
          BY <2>3, <3>2 DEF DeleteAccount
        <4>3. QED
          BY <3>1, <4>1, <4>2, <1>1, <1>3
      <3>3. CASE ~Authorized(CurrentUnLockedAddr)
        BY <2>3, <3>3, <3>1, <1>1 DEF DeleteAccount
      <3>4. QED
        BY <3>2, <3>3
    <2>4. QED
      BY <1>1, <1>2, <1>3, <2>1, <2>2, <2>3
         DEF Next, UnLock, AccountInfo, ExportKey, ReadUnlocked, Tick, Restart,
             vars

(* The session is a record of an address, its password and an expiry, or  *)
(* none.                                                                   *)
LEMMA SessionType ==
  ASSUME IInv
  PROVE  SessionOf \in [addr : Addrs, pwd : Pwds, until : Nat] \cup {NoUnlock}
  <1>1. CASE unlockAcc # 0
    <2>1. infos[unlockAcc] \in InfoRec
      BY <1>1, ElementOfSeq DEF IInv, TypeOK
    <2>2. QED
      BY <2>1 DEF SessionOf, InfoRec
  <1>2. QED
    BY <1>1 DEF SessionOf

(* The contract's live session is what AccountInfo, ExportKey and         *)
(* DeleteAccount check: currentUnLockedAddr, getAccountInfo and            *)
(* aci.unlocked() pass exactly when the session has not expired, and then *)
(* currentUnLockedAddr is the session's address.                           *)
LEMMA LiveIsAuthorized ==
  ASSUME IInv
  PROVE  /\ AC!Live <=> Authorized(CurrentUnLockedAddr)
         /\ AC!Live => CurrentUnLockedAddr = SessionOf.addr
  <1> USE ConstAssumption
  <1>1. CASE /\ unlockAcc # 0
             /\ infos[unlockAcc].status = Unlocked
             /\ cache[infos[unlockAcc].addr] = unlockAcc
    <2>1. infos[unlockAcc] \in InfoRec
      BY <1>1, ElementOfSeq DEF IInv, TypeOK
    <2>2. SessionOf = [addr |-> infos[unlockAcc].addr,
                       pwd |-> infos[unlockAcc].pwd,
                       until |-> infos[unlockAcc].expire]
      BY <1>1 DEF SessionOf
    <2>3. AC!Live <=> now < infos[unlockAcc].expire
      BY <2>1, <2>2 DEF AC!Live, AC!NoSession, InfoRec
    <2>4. QED
      BY <1>1, <2>1, <2>3, <2>2 DEF Authorized, CurrentUnLockedAddr, IsUnlocked,
         InfoRec
  <1>2. CASE ~(/\ unlockAcc # 0
              /\ infos[unlockAcc].status = Unlocked
              /\ cache[infos[unlockAcc].addr] = unlockAcc)
    <2>1. ~AC!Live
      BY <1>2 DEF SessionOf, AC!Live, AC!NoSession, NoUnlock
    <2>2. ~Authorized(CurrentUnLockedAddr)
      <3> SUFFICES ASSUME Authorized(CurrentUnLockedAddr) PROVE FALSE
        OBVIOUS
      <3>1. /\ unlockAcc # 0
            /\ IsUnlocked(unlockAcc)
            /\ CurrentUnLockedAddr = infos[unlockAcc].addr
        BY DEF Authorized, CurrentUnLockedAddr
      <3>2. cache[CurrentUnLockedAddr] = unlockAcc
        BY <3>1, CurrentAddrType DEF Authorized, IsUnlocked, IInv,
           CachedUnlockedIsCurrent
      <3>3. QED
        BY <1>2, <3>1, <3>2 DEF IsUnlocked
    <2>3. QED
      BY <2>1, <2>2
  <1>3. QED
    BY <1>1, <1>2

(* storeAccount then am.accounts.Store: a new locked object is cached for *)
(* a, so a session of a ends and any other session is untouched.           *)
LEMMA StoreAndCacheSession ==
  ASSUME IInv, NEW a \in Addrs, NEW p \in Pwds, StoreAndCache(a, p),
         UNCHANGED unlockAcc
  PROVE  SessionOf' = IF SessionOf.addr = a THEN NoUnlock ELSE SessionOf
  <1> USE ConstAssumption
  <1> DEFINE u == unlockAcc
             n == Len(infos) + 1
  <1>0. /\ infos \in Seq(InfoRec)
        /\ u \in 0..Len(infos)
        /\ cache \in [Addrs -> 0..Len(infos)]
    BY DEF IInv, TypeOK
  <1>1. /\ \A j \in 1..Len(infos) : infos'[j] = infos[j]
        /\ cache' = [cache EXCEPT ![a] = n]
    BY <1>0, AppendProperties DEF StoreAndCache
  <1>2. CASE u = 0
    BY <1>2 DEF SessionOf, NoUnlock
  <1>3. CASE u # 0
    <2>1. /\ u \in 1..Len(infos)
          /\ infos'[u] = infos[u]
          /\ infos[u] \in InfoRec
      BY <1>0, <1>1, <1>3, ElementOfSeq
    <2>2. CASE infos[u].addr = a
      <3>1. cache'[a] # u
        BY <1>0, <1>1, <2>1
      <3>2. SessionOf' = NoUnlock
        BY <1>3, <2>1, <2>2, <3>1 DEF SessionOf
      <3>3. SessionOf.addr # a => SessionOf = NoUnlock
        BY <2>2 DEF SessionOf
      <3>4. QED
        BY <3>2, <3>3
    <2>3. CASE infos[u].addr # a
      <3>1. infos[u].addr \in Addrs
        BY <2>1 DEF InfoRec
      <3>2. cache'[infos[u].addr] = cache[infos[u].addr]
        BY <1>0, <1>1, <2>3, <3>1
      <3>3. SessionOf' = SessionOf
        BY <2>1, <3>2 DEF SessionOf
      <3>4. SessionOf.addr # a
        BY <2>3 DEF SessionOf, NoUnlock
      <3>5. QED
        BY <3>3, <3>4
    <2>4. QED
      BY <2>2, <2>3
  <1>4. QED
    BY <1>2, <1>3
(* A step that changes neither the objects, the cache nor unlockAccount  *)
(* keeps the session.                                                      *)
LEMMA SessionKept ==
  ASSUME UNCHANGED <<infos, cache, unlockAcc>>
  PROVE  SessionOf' = SessionOf
  BY DEF SessionOf

(* UnLock's locked section on object i of address a, with the password p  *)
(* that i holds: the session becomes i's, until now + d.                   *)
LEMMA GrantUnlockSession ==
  ASSUME IInv, NEW a \in Addrs, NEW p \in Pwds, NEW d \in Durations,
         NEW infos0 \in Seq(InfoRec), NEW i \in 1..Len(infos0),
         Len(infos) <= Len(infos0),
         infos0[i].addr = a, infos0[i].pwd = p, cache'[a] = i,
         GrantUnlock(i, a, p, d, infos0)
  PROVE  SessionOf' = [addr |-> a, pwd |-> p, until |-> now + d]
  <1>1. /\ infos'[i].addr = a
        /\ infos'[i].pwd = p
        /\ infos'[i].expire = now + d
        /\ infos'[i].status = Unlocked
    BY GrantUnlockInfos
  <1>2. unlockAcc' = i /\ i # 0
    BY DEF GrantUnlock
  <1>3. QED
    BY <1>1, <1>2 DEF SessionOf
(* Every step of the account manager is a step of the contract, or leaves *)
(* the keystore, the session, the clock and the result as they were.       *)
LEMMA StepRefines == IInv /\ NoBucketEmpty /\ [Next]_vars => [AC!ACNext]_AC!acVars
  <1> SUFFICES ASSUME IInv, NoBucketEmpty, [Next]_vars
               PROVE  [AC!ACNext]_AC!acVars
    OBVIOUS
  <1> USE ConstAssumption
  <1>1. ASSUME NEW p \in Pwds, NewAccount(p) PROVE AC!ACNext
    <2>1. PICK a \in Addrs :
            /\ store[a] = NoEntry /\ cache[a] = 0
            /\ \/ /\ StoreAndCache(a, p)
                  /\ result' = Result("NewAccount", "ok", a)
               \/ /\ result' = Result("NewAccount", "err", a)
                  /\ UNCHANGED <<bucket, store, infos, cache>>
            /\ UNCHANGED <<unlockAcc, now, lastUnlock>>
      BY <1>1 DEF NewAccount
    <2>2. CASE StoreAndCache(a, p) /\ result' = Result("NewAccount", "ok", a)
      <3>1. SessionOf.addr # a
        BY <2>1 DEF SessionOf, NoUnlock
      <3>2. SessionOf' = SessionOf
        BY <2>1, <2>2, <3>1, StoreAndCacheSession
      <3>3. AC!Create(a, p)
        BY <2>1, <2>2, <3>2 DEF AC!Create, StoreAndCache, Result, AC!Result
      <3>4. QED
        BY <3>3 DEF AC!ACNext
    <2>3. CASE /\ result' = Result("NewAccount", "err", a)
               /\ UNCHANGED <<bucket, store, infos, cache>>
      <3>1. AC!Fail("NewAccount", a)
        BY <2>1, <2>3, SessionKept DEF AC!Fail, Result, AC!Result
      <3>2. QED
        BY <3>1 DEF AC!ACNext
    <2>4. QED
      BY <2>1, <2>2, <2>3
  <1>2. ASSUME NEW a \in Addrs, NEW p \in Pwds, ImportKey(a, p) PROVE AC!ACNext
    <2>1. UNCHANGED <<unlockAcc, now, lastUnlock>>
      BY <1>2 DEF ImportKey
    <2>2. CASE StoreAndCache(a, p) /\ result' = Result("ImportKey", "ok", a)
      <3>1. AC!Import(a, p)
        BY <2>1, <2>2, StoreAndCacheSession
        DEF AC!Import, AC!NoSession, NoUnlock, StoreAndCache, Result, AC!Result
      <3>2. QED
        BY <3>1 DEF AC!ACNext
    <2>3. CASE /\ result' = Result("ImportKey", "err", a)
               /\ UNCHANGED <<bucket, store, infos, cache>>
      <3>1. AC!Fail("ImportKey", a)
        BY <2>1, <2>3, SessionKept DEF AC!Fail, Result, AC!Result
      <3>2. QED
        BY <3>1 DEF AC!ACNext
    <2>4. QED
      BY <1>2, <2>2, <2>3 DEF ImportKey
  <1>3. ASSUME NEW a \in Addrs, NEW p \in Pwds, NEW d \in Durations,
               UnLock(a, p, d)
        PROVE  AC!ACNext
    <2>0. UNCHANGED <<bucket, store, now>>
      BY <1>3 DEF UnLock
    <2>1. CASE /\ cache[a] # 0
               /\ infos[cache[a]].pwd # p
               /\ result' = Result("UnLock", "err", a)
               /\ UNCHANGED <<infos, cache, unlockAcc, lastUnlock>>
      <3>1. store[a] # p
        BY <2>1 DEF IInv, CacheMatchesStore
      <3>2. AC!WrongPassword(a, p)
        BY <2>0, <2>1, <3>1, SessionKept
        DEF AC!WrongPassword, AC!Fail, Result, AC!Result
      <3>3. QED
        BY <3>2 DEF AC!ACNext
    <2>2. CASE /\ cache[a] # 0
               /\ infos[cache[a]].pwd = p
               /\ GrantUnlock(cache[a], a, p, d, infos)
               /\ UNCHANGED cache
      <3>1. /\ cache[a] \in 1..Len(infos)
            /\ infos[cache[a]].addr = a
            /\ store[a] = p
            /\ infos \in Seq(InfoRec)
        BY <2>2 DEF IInv, TypeOK, CacheMatchesStore
      <3>2. SessionOf' = [addr |-> a, pwd |-> p, until |-> now + d]
        BY <2>2, <3>1, GrantUnlockSession
      <3>3. AC!Unlock(a, p, d)
        BY <2>0, <2>2, <3>1, <3>2 DEF AC!Unlock, GrantUnlock, Result, AC!Result
      <3>4. QED
        BY <3>3 DEF AC!ACNext
    <2>3. CASE /\ cache[a] = 0
               /\ LoadAccount(a, p) = "err"
               /\ result' = Result("UnLock", "err", a)
               /\ UNCHANGED <<infos, cache, unlockAcc, lastUnlock>>
      <3>1. store[a] # p
        BY <2>3 DEF LoadAccount
      <3>2. AC!WrongPassword(a, p)
        BY <2>0, <2>3, <3>1, SessionKept
        DEF AC!WrongPassword, AC!Fail, Result, AC!Result
      <3>3. QED
        BY <3>2 DEF AC!ACNext
    <2>4. CASE /\ cache[a] = 0
               /\ LoadAccount(a, p) = "ok"
               /\ Len(infos) < MaxInfos
               /\ cache' = [cache EXCEPT ![a] = Len(infos) + 1]
               /\ GrantUnlock(Len(infos) + 1, a, p, d,
                              Append(infos, NewInfo(a, p)))
      <3> DEFINE infos0 == Append(infos, NewInfo(a, p))
                 n == Len(infos) + 1
      <3>1. NewInfo(a, p) \in InfoRec
        BY DEF NewInfo, InfoRec
      <3>2. /\ infos0 \in Seq(InfoRec)
            /\ Len(infos0) = n
            /\ infos0[n] = NewInfo(a, p)
            /\ n \in 1..Len(infos0)
            /\ Len(infos) <= Len(infos0)
        BY <3>1, AppendProperties DEF IInv, TypeOK
      <3>3. /\ infos0[n].addr = a /\ infos0[n].pwd = p
            /\ cache'[a] = n
            /\ store[a] = p
        BY <2>4, <3>2 DEF NewInfo, LoadAccount, IInv, TypeOK
      <3>4. SessionOf' = [addr |-> a, pwd |-> p, until |-> now + d]
        BY <2>4, <3>2, <3>3, GrantUnlockSession DEF infos0, n
      <3>5. AC!Unlock(a, p, d)
        BY <2>0, <2>4, <3>3, <3>4 DEF AC!Unlock, GrantUnlock, Result, AC!Result
      <3>6. QED
        BY <3>5 DEF AC!ACNext
    <2>5. CASE /\ cache[a] = 0
               /\ LoadAccount(a, p) = "nil"
               /\ unlockAcc' = 0
               /\ result' = Result("UnLock", "panic", a)
      <3>1. \A b \in Addrs : store[b] = NoEntry
        BY <2>5 DEF LoadAccount, NoBucketEmpty
      <3>2. SessionOf' = NoUnlock
        BY <2>5 DEF SessionOf
      <3>3. AC!Crash(a)
        BY <2>0, <2>5, <3>1, <3>2 DEF AC!Crash, AC!NoSession, NoUnlock, Result,
           AC!Result
      <3>4. QED
        BY <3>3 DEF AC!ACNext
    <2>6. QED
      BY <1>3, <2>1, <2>2, <2>3, <2>4, <2>5 DEF UnLock
  <1>4. ASSUME NEW op \in {"AccountInfo", "ExportKey"}, ReadUnlocked(op)
        PROVE  AC!ACNext
    <2> DEFINE c == CurrentUnLockedAddr
    <2>1. /\ UNCHANGED <<bucket, store, infos, cache, unlockAcc, now>>
          /\ SessionOf' = SessionOf
      BY <1>4, SessionKept DEF ReadUnlocked
    <2>2. CASE Authorized(c)
      <3>1. AC!Live /\ c = SessionOf.addr
        BY <2>2, LiveIsAuthorized
      <3>2. AC!Release(op)
        BY <1>4, <2>1, <2>2, <3>1 DEF AC!Release, ReadUnlocked, Result, AC!Result
      <3>3. QED
        BY <3>2 DEF AC!ACNext
    <2>3. CASE ~Authorized(c)
      <3>1. ~AC!Live
        BY <2>3, LiveIsAuthorized
      <3>2. c \in Addrs \cup {NoEntry}
        BY CurrentAddrType
      <3>3. AC!Fail(op, c)
        BY <1>4, <2>1, <2>3 DEF AC!Fail, ReadUnlocked, Result, AC!Result
      <3>4. AC!Refuse(op)
        BY <3>1, <3>2, <3>3 DEF AC!Refuse
      <3>5. QED
        BY <3>4 DEF AC!ACNext
    <2>4. QED
      BY <2>2, <2>3
  <1>5. CASE DeleteAccount
    <2> DEFINE c == CurrentUnLockedAddr
    <2>0. UNCHANGED <<bucket, infos, unlockAcc, now, lastUnlock>>
      BY <1>5 DEF DeleteAccount
    <2>1. CASE ~Authorized(c)
      <3>1. /\ UNCHANGED <<store, cache>>
            /\ result' = Result("DeleteAccount", "err", c)
        BY <1>5, <2>1 DEF DeleteAccount
      <3>2. ~AC!Live /\ c \in Addrs \cup {NoEntry}
        BY <2>1, LiveIsAuthorized, CurrentAddrType
      <3>3. AC!Fail("DeleteAccount", c)
        BY <2>0, <3>1, SessionKept DEF AC!Fail, Result, AC!Result
      <3>4. AC!Refuse("DeleteAccount")
        BY <3>2, <3>3 DEF AC!Refuse
      <3>5. QED
        BY <3>4 DEF AC!ACNext
    <2>2. CASE Authorized(c)
      <3>1. AC!Live /\ c = SessionOf.addr /\ c \in Addrs
        BY <2>2, LiveIsAuthorized, CurrentAddrType DEF Authorized
      <3>2. /\ cache' = [cache EXCEPT ![c] = 0]
            /\ \/ /\ store' = [store EXCEPT ![c] = NoEntry]
                  /\ result' = Result("DeleteAccount", "ok", c)
               \/ /\ UNCHANGED store
                  /\ result' = Result("DeleteAccount", "err", c)
        BY <1>5, <2>2 DEF DeleteAccount
      <3>3. /\ unlockAcc # 0
            /\ infos[unlockAcc].addr = c
        BY <2>2 DEF Authorized, CurrentUnLockedAddr
      <3>4. cache'[c] = 0
        BY <3>1, <3>2 DEF IInv, TypeOK
      <3>5. SessionOf' = NoUnlock
        BY <2>0, <3>3, <3>4 DEF SessionOf
      <3>6. AC!Delete
        BY <2>0, <3>1, <3>2, <3>5 DEF AC!Delete, AC!NoSession, NoUnlock,
           Result, AC!Result
      <3>7. QED
        BY <3>6 DEF AC!ACNext
    <2>3. QED
      BY <2>1, <2>2
  <1>6. CASE Tick
    <2>1. AC!Tick
      BY <1>6, SessionKept DEF Tick, AC!Tick, Result, AC!Result
    <2>2. QED
      BY <2>1 DEF AC!ACNext
  <1>7. CASE Restart
    <2>1. AC!Restart
      BY <1>7 DEF Restart, AC!Restart, SessionOf, AC!NoSession, NoUnlock,
         Result, AC!Result
    <2>2. QED
      BY <2>1 DEF AC!ACNext
  <1>8. CASE UNCHANGED vars
    <2>1. SessionOf' = SessionOf
      BY <1>8, SessionKept DEF vars
    <2>2. QED
      BY <1>8, <2>1 DEF vars, AC!acVars
  <1>9. QED
    BY <1>1, <1>2, <1>3, <1>4, <1>5, <1>6, <1>7, <1>8
    DEF Next, AccountInfo, ExportKey

(* The account manager implements the contract: behind its cache, its    *)
(* unlockAccount pointer and its keystore file, every sequence of console *)
(* commands, failures and restarts is one the contract allows.  In         *)
(* particular UnLock succeeds only with the password that decrypts the     *)
(* key and fails with any other, and AccountInfo and ExportKey release an  *)
(* account only while its session lasts.                                   *)
THEOREM KeyStoreRefinesContract == Spec => AccountsRefined
  <1>1. Init => AC!ACInit
    BY DEF Init, AC!ACInit, SessionOf, AC!NoSession, NoUnlock, Result,
       AC!Result
  <1>2. Init => NoBucketEmpty
    BY DEF Init, NoBucketEmpty
  <1>3. Spec => [](IInv /\ NoBucketEmpty)
    BY <1>2, InitIInv, NextIInv, NoBucketStep, PTL DEF Spec
  <1>4. QED
    BY <1>1, <1>3, StepRefines, PTL DEF Spec, AccountsRefined, AC!ACSpec

(* Hence, by the contract's own theorem: while an account is unlocked,    *)
(* its keystore entry is still encrypted under the password that was      *)
(* given to the UnLock that opened it.                                     *)
THEOREM SessionKeyStaysCurrent == Spec => []AC!SessionKeyCurrent
  <1>1. AC!ACAssumption
    BY ConstAssumption DEF AC!ACAssumption
  <1>2. QED
    BY <1>1, KeyStoreRefinesContract, AC!ContractSafe DEF AccountsRefined

=============================================================================
