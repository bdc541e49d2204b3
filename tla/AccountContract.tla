--------------------------- MODULE AccountContract ---------------------------
(***************************************************************************)
(* What the console's account manager (AccountManager of                   *)
(* src/cmd/cli/account_op.go) promises, without its cache of AccountInfo   *)
(* objects and without the unlockAccount pointer: a keystore, address ->  *)
(* the password its key is encrypted under, and at most one session, the  *)
(* address unlocked last, the password that unlocked it and the time the  *)
(* unlock ends.                                                            *)
(*                                                                         *)
(* A session ends when the process restarts, when its account is deleted  *)
(* or its key imported again, and when another UnLock replaces it; the    *)
(* key of an account is released only while its session lasts.  UnLock   *)
(* on a keystore without the bucket crashes the console.                   *)
(***************************************************************************)
EXTENDS Naturals, TLAPS

CONSTANTS
    Addrs,      \* addresses
    Pwds,       \* passwords
    Durations,  \* unlock durations
    NoEntry     \* "no key" / "no address"

VARIABLES
    keys,       \* the keystore: address -> password, NoEntry when absent
    session,    \* [addr, pwd, until] of the unlocked account, or NoSession
    now,        \* the clock
    result      \* the last operation and what it returned

acVars == <<keys, session, now, result>>

Ops == {"NewAccount", "ImportKey", "UnLock", "AccountInfo",
        "ExportKey", "DeleteAccount", "Tick", "Restart", "None"}

Results == [op : Ops, outcome : {"ok", "err", "panic"}, addr : Addrs \cup {NoEntry}]

Result(op, outcome, a) == [op |-> op, outcome |-> outcome, addr |-> a]

NoSession == [addr |-> NoEntry, pwd |-> NoEntry, until |-> 0]

(* A session that has not expired.                                         *)
Live == session # NoSession /\ now < session.until

ACInit ==
    /\ keys \in [Addrs -> Pwds \cup {NoEntry}]
    /\ session = NoSession
    /\ now = 0
    /\ result = Result("None", "ok", NoEntry)

(* NewAccount: a key for an address that has none.                         *)
Create(a, p) ==
    /\ keys[a] = NoEntry
    /\ keys' = [keys EXCEPT ![a] = p]
    /\ result' = Result("NewAccount", "ok", a)
    /\ UNCHANGED <<session, now>>

(* NewAccountByImportKey: the key of a is stored again under p; a session *)
(* of a ends.                                                              *)
Import(a, p) ==
    /\ keys' = [keys EXCEPT ![a] = p]
    /\ session' = IF session.addr = a THEN NoSession ELSE session
    /\ result' = Result("ImportKey", "ok", a)
    /\ UNCHANGED now

(* An operation that fails and changes nothing.                            *)
Fail(op, a) ==
    /\ result' = Result(op, "err", a)
    /\ UNCHANGED <<keys, session, now>>

(* UnLock with the password the key is encrypted under starts a session. *)
Unlock(a, p, d) ==
    /\ keys[a] = p
    /\ session' = [addr |-> a, pwd |-> p, until |-> now + d]
    /\ result' = Result("UnLock", "ok", a)
    /\ UNCHANGED <<keys, now>>

(* UnLock with any other password fails.                                   *)
WrongPassword(a, p) ==
    /\ keys[a] # p
    /\ Fail("UnLock", a)

(* UnLock on a keystore without any key may crash the console.             *)
Crash(a) ==
    /\ \A b \in Addrs : keys[b] = NoEntry
    /\ session' = NoSession
    /\ result' = Result("UnLock", "panic", a)
    /\ UNCHANGED <<keys, now>>

(* AccountInfo and ExportKey release the account of a live session.       *)
Release(op) ==
    /\ Live
    /\ result' = Result(op, "ok", session.addr)
    /\ UNCHANGED <<keys, session, now>>

(* Without a live session they, and DeleteAccount, fail.                   *)
Refuse(op) ==
    /\ ~Live
    /\ \E x \in Addrs \cup {NoEntry} : Fail(op, x)

(* DeleteAccount ends the live session and deletes its key, or fails to   *)
(* delete it.                                                              *)
Delete ==
    /\ Live
    /\ session' = NoSession
    /\ \/ /\ keys' = [keys EXCEPT ![session.addr] = NoEntry]
          /\ result' = Result("DeleteAccount", "ok", session.addr)
       \/ /\ UNCHANGED keys
          /\ result' = Result("DeleteAccount", "err", session.addr)
    /\ UNCHANGED now

Tick ==
    /\ now' = now + 1
    /\ result' = Result("Tick", "ok", NoEntry)
    /\ UNCHANGED <<keys, session>>

(* The console exits and starts again: the session is lost.               *)
Restart ==
    /\ session' = NoSession
    /\ result' = Result("Restart", "ok", NoEntry)
    /\ UNCHANGED <<keys, now>>

ACNext ==
    \/ \E a \in Addrs, p \in Pwds : Create(a, p) \/ Import(a, p)
    \/ \E a \in Addrs : Fail("NewAccount", a) \/ Fail("ImportKey", a)
    \/ \E a \in Addrs, p \in Pwds, d \in Durations :
          Unlock(a, p, d) \/ WrongPassword(a, p)
    \/ \E a \in Addrs : Crash(a)
    \/ \E op \in {"AccountInfo", "ExportKey"} : Release(op)
    \/ \E op \in {"AccountInfo", "ExportKey", "DeleteAccount"} : Refuse(op)
    \/ Delete
    \/ Tick
    \/ Restart

ACSpec == ACInit /\ [][ACNext]_acVars

-----------------------------------------------------------------------------
(* A session never outlives its key: while an account is unlocked, its    *)
(* keystore entry is still encrypted under the password that unlocked it, *)
(* whatever imports, deletions and other unlocks came in between.          *)
SessionKeyCurrent ==
    session # NoSession => keys[session.addr] = session.pwd

-----------------------------------------------------------------------------
(* What the proof of SessionKeyCurrent needs of the constants: NoEntry is *)
(* no password, and a duration is a number of seconds.                     *)
ACAssumption ==
    /\ NoEntry \notin Pwds
    /\ Durations \subseteq Nat

ACTypeOK ==
    /\ keys \in [Addrs -> Pwds \cup {NoEntry}]
    /\ session \in [addr : Addrs, pwd : Pwds, until : Nat] \cup {NoSession}
    /\ now \in Nat

ACInv == ACTypeOK /\ SessionKeyCurrent

LEMMA ACInitInv == ACAssumption /\ ACInit => ACInv
BY DEF ACAssumption, ACInit, ACInv, ACTypeOK, SessionKeyCurrent

LEMMA ACNextInv == ACAssumption /\ ACInv /\ [ACNext]_acVars => ACInv'
<1> SUFFICES ASSUME ACAssumption, ACInv, [ACNext]_acVars PROVE ACInv'
    OBVIOUS
<1> USE DEF ACAssumption, ACInv, ACTypeOK, SessionKeyCurrent
<1>1. ASSUME NEW a \in Addrs, NEW p \in Pwds, Create(a, p) PROVE ACInv'
    BY <1>1 DEF Create, NoSession
<1>2. ASSUME NEW a \in Addrs, NEW p \in Pwds, Import(a, p) PROVE ACInv'
    BY <1>2 DEF Import, NoSession
<1>3. ASSUME NEW a \in Addrs, NEW op, Fail(op, a) PROVE ACInv'
    BY <1>3 DEF Fail
<1>4. ASSUME NEW a \in Addrs, NEW p \in Pwds, NEW d \in Durations,
             Unlock(a, p, d)
      PROVE  ACInv'
    BY <1>4 DEF Unlock
<1>5. ASSUME NEW a \in Addrs, NEW p \in Pwds, WrongPassword(a, p) PROVE ACInv'
    BY <1>5 DEF WrongPassword, Fail
<1>6. ASSUME NEW a \in Addrs, Crash(a) PROVE ACInv'
    BY <1>6 DEF Crash, NoSession
<1>7. ASSUME NEW op, Release(op) PROVE ACInv'
    BY <1>7 DEF Release
<1>8. ASSUME NEW op, Refuse(op) PROVE ACInv'
    BY <1>8 DEF Refuse, Fail
<1>9. CASE Delete
    BY <1>9 DEF Delete, NoSession
<1>10. CASE Tick
    BY <1>10 DEF Tick
<1>11. CASE Restart
    BY <1>11 DEF Restart, NoSession
<1>12. CASE UNCHANGED acVars
    BY <1>12 DEF acVars
<1>13. QED
    BY <1>1, <1>2, <1>3, <1>4, <1>5, <1>6, <1>7, <1>8, <1>9, <1>10, <1>11,
       <1>12 DEF ACNext

(* Whatever the console does, the unlocked account's keystore entry is    *)
(* still encrypted under the password its UnLock was given: NewAccount    *)
(* never overwrites a key, and an import or deletion of the key ends the   *)
(* session.                                                                *)
THEOREM ContractSafe == ACAssumption => (ACSpec => []SessionKeyCurrent)
<1> SUFFICES ASSUME ACAssumption PROVE ACSpec => []SessionKeyCurrent
    OBVIOUS
<1>1. ACInit => ACInv
    BY ACInitInv
<1>2. ACInv /\ [ACNext]_acVars => ACInv'
    BY ACNextInv
<1>3. ACInv => SessionKeyCurrent
    BY DEF ACInv
<1>4. QED
    BY <1>1, <1>2, <1>3, PTL DEF ACSpec

=============================================================================
