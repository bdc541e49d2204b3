------------------------------ MODULE KeyStore ------------------------------
(***************************************************************************)
(* The console's account manager, AccountManager of                        *)
(* src/cmd/cli/account_op.go.                                              *)
(*                                                                         *)
(* It keeps two copies of every account it has touched:                    *)
(*   - the keystore file (a bolt bucket "ks"), address -> private key      *)
(*     encrypted under a key derived from the password; it survives the    *)
(*     process;                                                            *)
(*   - the in-memory cache `accounts` (a sync.Map), address -> pointer to  *)
(*     an AccountInfo {Account{.., Password: hash}, Status, UnLockExpire}; *)
(* and one pointer `unlockAccount` to the AccountInfo of the last          *)
(* successful UnLock.  AccountInfo objects are modelled as the entries of  *)
(* the sequence `infos`, so that the cache and unlockAccount may alias or  *)
(* not alias the same object exactly as the pointers do in the code.       *)
(*                                                                         *)
(* A password is a model value (passwordHash is injective on them);        *)
(* decrypting an entry with another password fails (AES-GCM tag check).    *)
(* Every operation is an atomic step: the console loop calls them one at   *)
(* a time.  The process may exit (exit command, Ctrl-C, a panic) and be    *)
(* started again at any time: memory is lost, the keystore file is not.    *)
(***************************************************************************)
EXTENDS Naturals, Sequences

CONSTANTS
    Addrs,      \* addresses, one per private key
    Pwds,       \* passwords a user may type
    Durations,  \* unlock durations (seconds) the user may give
    NoEntry,    \* "no keystore entry" / "no address"
    MaxInfos,   \* bound on AccountInfo objects allocated by one process
    MaxTime     \* bound on the clock

ASSUME ConstAssumption ==
    /\ NoEntry \notin Addrs \cup Pwds
    /\ Durations \subseteq Nat
    /\ MaxInfos \in Nat
    /\ MaxTime \in Nat

VARIABLES
    bucket,     \* the "ks" bucket exists in the keystore file
    store,      \* keystore file: address -> password that encrypts its key
    infos,      \* AccountInfo objects allocated by the running process
    cache,      \* am.accounts: address -> index in infos, 0 when absent
    unlockAcc,  \* am.unlockAccount: index in infos, 0 for nil
    now,        \* time.Now(), in seconds
    lastUnlock, \* history: the last UnLock that returned success
    result      \* history: the last operation and what it returned

vars == <<bucket, store, infos, cache, unlockAcc, now, lastUnlock, result>>

Locked == "locked"        \* statusLocked
Unlocked == "unlocked"    \* statusUnLocked

Ops == {"NewAccount", "ImportKey", "UnLock", "AccountInfo",
        "ExportKey", "DeleteAccount", "Tick", "Restart", "None"}

InfoRec == [addr : Addrs, pwd : Pwds, status : {Locked, Unlocked},
            expire : Nat]

NoUnlock == [addr |-> NoEntry, pwd |-> NoEntry, until |-> 0]

Results == [op : Ops, outcome : {"ok", "err", "panic"}, addr : Addrs \cup {NoEntry}]

Result(op, outcome, a) == [op |-> op, outcome |-> outcome, addr |-> a]

(* Type invariant: the cache and unlockAccount only point at AccountInfo  *)
(* objects the running process has allocated.                              *)
TypeOK ==
    /\ bucket \in BOOLEAN
    /\ store \in [Addrs -> Pwds \cup {NoEntry}]
    /\ infos \in Seq(InfoRec)
    /\ Len(infos) <= MaxInfos
    /\ cache \in [Addrs -> 0..Len(infos)]
    /\ unlockAcc \in 0..Len(infos)
    /\ now \in 0..MaxTime
    /\ lastUnlock \in [addr : Addrs \cup {NoEntry}, pwd : Pwds \cup {NoEntry},
                       until : Nat]
    /\ result \in Results

(* A keystore the program can find on disk: no file yet, or a file whose  *)
(* bucket holds any set of accounts.  The process has just started.       *)
Init ==
    /\ bucket \in BOOLEAN
    /\ store \in [Addrs -> Pwds \cup {NoEntry}]
    /\ ~bucket => \A a \in Addrs : store[a] = NoEntry
    /\ infos = <<>>
    /\ cache = [a \in Addrs |-> 0]
    /\ unlockAcc = 0
    /\ now = 0
    /\ lastUnlock = NoUnlock
    /\ result = Result("None", "ok", NoEntry)

-----------------------------------------------------------------------------
(* AccountInfo.unlocked: time.Now().Before(UnLockExpire) && unlocked.     *)
IsUnlocked(i) == now < infos[i].expire /\ infos[i].status = Unlocked

(* currentUnLockedAddr: the address of unlockAccount if it is unlocked.   *)
CurrentUnLockedAddr ==
    IF unlockAcc # 0 /\ IsUnlocked(unlockAcc)
    THEN infos[unlockAcc].addr ELSE NoEntry

(* A fresh AccountInfo{Account: *account}: Status 0, zero expiry.          *)
NewInfo(a, p) == [addr |-> a, pwd |-> p, status |-> Locked, expire |-> 0]

(* storeAccount then am.accounts.Store: a new object is cached for a.     *)
StoreAndCache(a, p) ==
    /\ Len(infos) < MaxInfos
    /\ bucket' = TRUE
    /\ store' = [store EXCEPT ![a] = p]
    /\ infos' = Append(infos, NewInfo(a, p))
    /\ cache' = [cache EXCEPT ![a] = Len(infos) + 1]

(* NewAccount(password): a freshly generated key.  storeAccount may fail  *)
(* (scrypt or bolt error); then nothing is cached.                        *)
NewAccount(p) ==
    \E a \in Addrs :
        /\ store[a] = NoEntry /\ cache[a] = 0
        /\ \/ /\ StoreAndCache(a, p)
              /\ result' = Result("NewAccount", "ok", a)
           \/ /\ result' = Result("NewAccount", "err", a)
              /\ UNCHANGED <<bucket, store, infos, cache>>
        /\ UNCHANGED <<unlockAcc, now, lastUnlock>>

(* Mutant: the object is cached even when storeAccount fails.             *)
ImportKeyCacheFirst(a, p) ==
    /\ Len(infos) < MaxInfos
    /\ infos' = Append(infos, NewInfo(a, p))
    /\ cache' = [cache EXCEPT ![a] = Len(infos) + 1]
    /\ \/ /\ bucket' = TRUE
          /\ store' = [store EXCEPT ![a] = p]
          /\ result' = Result("ImportKey", "ok", a)
       \/ /\ result' = Result("ImportKey", "err", a)
          /\ UNCHANGED <<bucket, store>>
    /\ UNCHANGED <<unlockAcc, now, lastUnlock>>

(* NewAccountByImportKey(key, password): the key of any address, already  *)
(* in the keystore or not; its entry and its cached object are replaced.  *)
ImportKey(a, p) ==
    /\ \/ /\ StoreAndCache(a, p)
          /\ result' = Result("ImportKey", "ok", a)
       \/ /\ result' = Result("ImportKey", "err", a)
          /\ UNCHANGED <<bucket, store, infos, cache>>
    /\ UNCHANGED <<unlockAcc, now, lastUnlock>>

(* Mutant: the previously unlocked account is never locked.               *)
GrantUnlockNoRelock(i, a, p, d, infos0) ==
    /\ infos' = [infos0 EXCEPT ![i].status = Unlocked, ![i].expire = now + d]
    /\ unlockAcc' = i
    /\ lastUnlock' = [addr |-> a, pwd |-> p, until |-> now + d]
    /\ result' = Result("UnLock", "ok", a)

(* The locked section of UnLock: the object i of address a (in infos0)    *)
(* becomes unlockAccount; the previous one is locked if its address       *)
(* differs.                                                                *)
GrantUnlock(i, a, p, d, infos0) ==
    LET infos1 == IF unlockAcc # 0 /\ infos0[unlockAcc].addr # a
                  THEN [infos0 EXCEPT ![unlockAcc].status = Locked]
                  ELSE infos0
    IN  /\ infos' = [infos1 EXCEPT ![i].status = Unlocked,
                                   ![i].expire = now + d]
        /\ unlockAcc' = i
        /\ lastUnlock' = [addr |-> a, pwd |-> p, until |-> now + d]
        /\ result' = Result("UnLock", "ok", a)

(* Mutant: loadAccount does not check that the entry decrypts.            *)
LoadAccountNoDecrypt(a, p) ==
    IF ~bucket THEN "nil" ELSE IF store[a] # NoEntry THEN "ok" ELSE "err"

(* loadAccount(addr, password): "nil" when the bucket does not exist (it   *)
(* returns nil, nil), "ok" when the entry decrypts under the password,    *)
(* "err" when there is no entry or decryption fails.                      *)
LoadAccount(a, p) ==
    IF ~bucket THEN "nil" ELSE IF store[a] = p THEN "ok" ELSE "err"

(* UnLock(addr, password, duration).  A cached object is checked against  *)
(* its password hash; otherwise the entry is loaded from the keystore and *)
(* cached.  The caller dereferences the account loadAccount returned, so  *)
(* a nil account makes the process panic.                                  *)
UnLock(a, p, d) ==
    /\ \/ /\ cache[a] # 0
          /\ infos[cache[a]].pwd # p
          /\ result' = Result("UnLock", "err", a)
          /\ UNCHANGED <<infos, cache, unlockAcc, lastUnlock>>
       \/ /\ cache[a] # 0
          /\ infos[cache[a]].pwd = p
          /\ GrantUnlock(cache[a], a, p, d, infos)
          /\ UNCHANGED cache
       \/ /\ cache[a] = 0
          /\ LoadAccount(a, p) = "err"
          /\ result' = Result("UnLock", "err", a)
          /\ UNCHANGED <<infos, cache, unlockAcc, lastUnlock>>
       \/ /\ cache[a] = 0
          /\ LoadAccount(a, p) = "ok"
          /\ Len(infos) < MaxInfos
          /\ cache' = [cache EXCEPT ![a] = Len(infos) + 1]
          /\ GrantUnlock(Len(infos) + 1, a, p, d,
                         Append(infos, NewInfo(a, p)))
       \/ /\ cache[a] = 0
          /\ LoadAccount(a, p) = "nil"
          /\ infos' = <<>>
          /\ cache' = [x \in Addrs |-> 0]
          /\ unlockAcc' = 0
          /\ lastUnlock' = NoUnlock
          /\ result' = Result("UnLock", "panic", a)
    /\ UNCHANGED <<bucket, store, now>>

(* Mutant: the cached object is not checked with aci.unlocked().          *)
AuthorizedNoRecheck(a) ==
    /\ a = CurrentUnLockedAddr
    /\ a # NoEntry
    /\ cache[a] # 0

(* The checks shared by AccountInfo, ExportKey and DeleteAccount:         *)
(* currentUnLockedAddr, getAccountInfo, aci.unlocked().                   *)
Authorized(a) ==
    /\ a = CurrentUnLockedAddr
    /\ a # NoEntry
    /\ cache[a] # 0
    /\ IsUnlocked(cache[a])

(* AccountInfo() and ExportKey(): return the unlocked account, or its key *)
(* (resetExpireTime has an empty body).                                    *)
ReadUnlocked(op) ==
    /\ \/ /\ Authorized(CurrentUnLockedAddr)
          /\ result' = Result(op, "ok", CurrentUnLockedAddr)
       \/ /\ ~Authorized(CurrentUnLockedAddr)
          /\ result' = Result(op, "err", CurrentUnLockedAddr)
    /\ UNCHANGED <<bucket, store, infos, cache, unlockAcc, now, lastUnlock>>

AccountInfo == ReadUnlocked("AccountInfo")

ExportKey == ReadUnlocked("ExportKey")

(* Mutant: DeleteAccount leaves the cache entry in place.                 *)
DeleteAccountKeepCache ==
    LET a == CurrentUnLockedAddr IN
    /\ \/ /\ ~Authorized(a)
          /\ result' = Result("DeleteAccount", "err", a)
          /\ UNCHANGED store
       \/ /\ Authorized(a)
          /\ \/ /\ store' = [store EXCEPT ![a] = NoEntry]
                /\ result' = Result("DeleteAccount", "ok", a)
             \/ /\ UNCHANGED store
                /\ result' = Result("DeleteAccount", "err", a)
    /\ UNCHANGED <<bucket, infos, cache, unlockAcc, now, lastUnlock>>

(* DeleteAccount(): the cache entry is deleted first, then the keystore   *)
(* entry in a bolt update that may fail, leaving the entry on disk.       *)
DeleteAccount ==
    LET a == CurrentUnLockedAddr IN
    /\ \/ /\ ~Authorized(a)
          /\ result' = Result("DeleteAccount", "err", a)
          /\ UNCHANGED <<store, cache>>
       \/ /\ Authorized(a)
          /\ cache' = [cache EXCEPT ![a] = 0]
          /\ \/ /\ store' = [store EXCEPT ![a] = NoEntry]
                /\ result' = Result("DeleteAccount", "ok", a)
             \/ /\ UNCHANGED store
                /\ result' = Result("DeleteAccount", "err", a)
    /\ UNCHANGED <<bucket, infos, unlockAcc, now, lastUnlock>>

(* Time passes.                                                            *)
Tick ==
    /\ now < MaxTime
    /\ now' = now + 1
    /\ result' = Result("Tick", "ok", NoEntry)
    /\ UNCHANGED <<bucket, store, infos, cache, unlockAcc, lastUnlock>>

(* Mutant: the unlocked account survives the restart.                     *)
RestartKeepsUnlock ==
    /\ infos' = <<>>
    /\ cache' = [a \in Addrs |-> 0]
    /\ lastUnlock' = NoUnlock
    /\ result' = Result("Restart", "ok", NoEntry)
    /\ UNCHANGED <<bucket, store, now, unlockAcc>>

(* The console exits (exit, quit, Ctrl-C: os.Exit) and is started again   *)
(* on the same keystore file.                                              *)
Restart ==
    /\ infos' = <<>>
    /\ cache' = [a \in Addrs |-> 0]
    /\ unlockAcc' = 0
    /\ lastUnlock' = NoUnlock
    /\ result' = Result("Restart", "ok", NoEntry)
    /\ UNCHANGED <<bucket, store, now>>

Next ==
    \/ \E p \in Pwds : NewAccount(p)
    \/ \E a \in Addrs, p \in Pwds : ImportKey(a, p)
    \/ \E a \in Addrs, p \in Pwds, d \in Durations : UnLock(a, p, d)
    \/ AccountInfo
    \/ ExportKey
    \/ DeleteAccount
    \/ Tick
    \/ Restart

Spec == Init /\ [][Next]_vars

-----------------------------------------------------------------------------
(* The session the user sees: unlockAccount, while its object still has   *)
(* the unlocked status and is still the object cached for its address    *)
(* (an import replaces the cached object, a deletion drops it).  Whether  *)
(* it has expired is left to the contract's Live.                          *)
SessionOf ==
    IF /\ unlockAcc # 0
       /\ infos[unlockAcc].status = Unlocked
       /\ cache[infos[unlockAcc].addr] = unlockAcc
    THEN [addr |-> infos[unlockAcc].addr, pwd |-> infos[unlockAcc].pwd,
          until |-> infos[unlockAcc].expire]
    ELSE NoUnlock

AC == INSTANCE AccountContract WITH keys <- store, session <- SessionOf

-----------------------------------------------------------------------------
(* Every cached account still has a keystore entry, encrypted under the   *)
(* password whose hash the cached object holds.  UnLock trusts the cached *)
(* hash instead of decrypting the entry (account_op.go:341), so a cache   *)
(* that outlives or disagrees with the file would unlock an account with  *)
(* a password that no longer opens its key.                               *)
CacheMatchesStore ==
    \A a \in Addrs :
        cache[a] # 0 => /\ infos[cache[a]].addr = a
                        /\ store[a] = infos[cache[a]].pwd

(* At most one cached account is unlocked at any time: UnLock locks the   *)
(* previously unlocked account (account_op.go:359) whatever sequence of   *)
(* imports, deletions, locks and expiries came before.                    *)
SingleUnlocked ==
    \A a, b \in Addrs :
        (cache[a] # 0 /\ cache[b] # 0 /\ IsUnlocked(cache[a])
            /\ IsUnlocked(cache[b])) => a = b

(* AccountInfo and ExportKey hand out an account (its private key) only   *)
(* to the session of the last successful UnLock, of that very address,   *)
(* before that unlock expires, and only while the password given to it    *)
(* is still the one its keystore entry is encrypted under.                *)
KeyReleasedOnlyToUnlocker ==
    (result.op \in {"AccountInfo", "ExportKey"} /\ result.outcome = "ok") =>
        /\ lastUnlock.addr = result.addr
        /\ lastUnlock.pwd = store[result.addr]
        /\ now < lastUnlock.until

(* A step after which object i is unlocked, and was not before with the   *)
(* same expiry, was a successful UnLock of i's address with the password   *)
(* that decrypts that address's keystore entry.                            *)
UnlockGranted ==
    \A i \in 1..Len(infos') :
        (/\ infos'[i].status = Unlocked
         /\ ~(/\ i \in 1..Len(infos)
              /\ infos[i].status = Unlocked
              /\ infos[i].expire = infos'[i].expire))
        => /\ result' = Result("UnLock", "ok", infos'[i].addr)
           /\ lastUnlock'.pwd = store'[infos'[i].addr]

(* An AccountInfo object becomes unlocked, or has its unlock renewed, only *)
(* in a successful UnLock of its own address, with the password its       *)
(* keystore entry is encrypted under.  UnLock on a cached object compares  *)
(* the password with the cached hash and never decrypts the entry          *)
(* (account_op.go:341), so this rests on every import, deletion and        *)
(* restart keeping the cache and the file in step.                         *)
UnlockOnlyWithKeyPassword == [][UnlockGranted]_vars

(* The account manager, its cache, its unlockAccount pointer and its     *)
(* keystore file, behaves as the contract of AccountContract: UnLock       *)
(* succeeds exactly when the password decrypts the key, AccountInfo and    *)
(* ExportKey release only the live session's account, and an import, a    *)
(* deletion (even one whose bolt update fails) or a restart ends the       *)
(* session of the account it touches.                                      *)
AccountsRefined == AC!ACSpec

(* Looking an address up never crashes the console: UnLock on a keystore  *)
(* without the bucket returns an error instead of dereferencing nil.      *)
NoNilDeref == result.outcome # "panic"

=============================================================================
