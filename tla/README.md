# TLA+ models of ddam

This directory holds TLA+ models of the ddam node and console (`src/`), the
TLC configurations that model-check them, and TLAPS proofs of their main
invariants. `PROJECT.json` lists the components, the runs, the mutants that
show each checked property can fail, the map from every model definition to
the Go lines it translates, the findings, the hazards and the theorems.

## 1. The system

The repository is a blockchain node whose consensus core (chain engine,
account state, UMID binder, transaction pool) lives outside `src/`. Under
`src/` are the parts around it:

| Part | Source | State | Operations |
|---|---|---|---|
| Account manager | `cmd/cli/account_op.go` | bolt keystore file (bucket `ks`: address -> encrypted key); in-memory `accounts` cache (address -> `*AccountInfo`); `unlockAccount` pointer | NewAccount, NewAccountByImportKey, Lock, UnLock, AccountInfo, ExportKey, DeleteAccount, AccountList; checkMinerAccount, getFirstMinerAccount for the miner |
| Console | `cmd/cli/console.go` | one command line at a time | parseCommandLine, per-command flag checks, dispatch to the account manager and the remote chain client, `exit` |
| Remote chain client | `cmd/cli/chain_op_remote.go` | host and port | SendRaw (unlocked account, nonce over RPC, sign, post), read-only queries |
| Node RPC | `cmd/cli/rpc_api_*.go`, `miner_rpc.go` | none of its own | Tx (decode, validate, hash, add to pool), Nonce (committed nonce + 1), queries |
| Miner startup | `cmd/cli/gxc.go` | `ddamApp.account`, `inited` | checkAddress, fullInit, exit on Ctrl-C |
| Coin amounts | `common/coin.go` | none | ParseCoin (`100kAM` -> amount), unit conversions |
| Network dispatch | `network/server.go` | none of its own | Send (to self or a peer), Broadcast, handleMessage (one goroutine per message), code -> topic |
| Types, codec, crypto | `global/types`, `crypto`, `common/hash.go` | none | hashing; protobuf conversion of transactions, headers and blocks (Marshal/UnMarshal) |

How they interact: the console turns a line into a command, calls the
account manager (keys, unlock) or the remote client; the remote client
reads the unlocked account, asks the node for a nonce, signs and posts the
transaction to the node's `Tx` RPC, which hands it to the pool. The miner
reads its key from the same keystore at startup. Inbound peer messages are
decoded and published on the message bus by topic.

Behaviours that make it hard to test: the keystore's two copies of each
account (file and cache) that must agree through failed writes, imports of
the same key under a new password and restarts; an unlock pointer that may
outlive the cached object it points to; expiries at their boundary; a
nonce read before the previous transaction is mined; goroutine-per-message
dispatch that reorders messages.

## 2. Modules

| Module | Models | Status |
|---|---|---|
| `KeyStore` | the account manager as the console drives it | done |
| `MCKeyStore` | TLC instance of `KeyStore` | done |
| `KeyStoreProofs` | TLAPS proofs for `KeyStore` | done |
| `AccountContract` | what the account manager promises, abstractly, with its proof | done |
| `MinerStartup` | `ddam miner`: checkAddress over the keystore file, fullInit, startRPC, the Ctrl-C goroutine | done |
| `MCMinerStartup` | TLC instance of `MinerStartup` | done |
| `MinerStartupProofs` | TLAPS proofs for `MinerStartup` | done |
| `Coin`, `MCCoin` | ParseCoin against the unit table | done |
| `CmdLine`, `MCCmdLine` | parseCommandLine against a reference splitter | done |
| `TxSubmit`, `MCTxSubmit` | sendtx, SendRaw, the Gx_nonce and Gx_tx RPCs, the pool | done |
| `TxSubmitProofs` | TLAPS proofs for `TxSubmit` | done |
| `NetDispatch`, `MCNetDispatch` | Send, Broadcast, handleMessage and the per-message goroutines | done |
| `Codec`, `MCCodec` | the protobuf conversions of `pb_serial.go` and the Marshal/UnMarshal functions | done |
| `CodecProofs` | TLAPS proofs for `Codec` | done |
| `NetDispatchProofs` | TLAPS proof of `PublishedOnce` for `NetDispatch` | done |

### KeyStore

State (`VARIABLES`) and code:

- `bucket`, `store`: the bolt file. `store[a]` is the password whose
  scrypt key encrypts `a`'s private key, or `NoEntry`. Passwords are model
  values: `passwordHash` is injective on them and decrypting with any other
  password fails.
- `infos`: the `AccountInfo` objects the process has allocated, as a
  sequence. `cache[a]` (`am.accounts`) and `unlockAcc`
  (`am.unlockAccount`) are indices into it, 0 for absent/nil, so they alias
  exactly when the Go pointers do. Each object keeps address, password,
  `Status` and `UnLockExpire`.
- `now`: `time.Now()` in seconds, moved by `Tick`.
- `lastUnlock`, `result`: history variables, the last successful UnLock and
  the last operation's outcome, used only by the properties.

Actions: `NewAccount`, `ImportKey` (NewAccountByImportKey),
`UnLock` (five outcomes: wrong cached password, cached unlock, wrong file
password or no entry, load-and-unlock, and the nil dereference when the
bucket is missing), `AccountInfo` and `ExportKey` (both `ReadUnlocked`),
`DeleteAccount` (with the bolt delete succeeding or failing), `Tick`, and
`Restart` (the process exits; memory is lost, the file stays). The bolt
write of `storeAccount` may fail: that is the `err` branch of NewAccount
and ImportKey. Every operation is one atomic step because the console
calls them one at a time from its loop; `am.mu` is never contended.
`Next` is the loop's switch: the commands newaccount, importkey, unlock,
accountinfo, exportkey, delaccount and exit. `AccountManager.Lock` has no
caller under `src/` (the console has no lock command), so it is not an
action; accountlist only reads.

Properties (run `keystore_safety`):

- `TypeOK`: cache and unlock pointer point at allocated objects.
- `CacheMatchesStore`: every cached object carries its own address and the
  password the file holds for it (UnLock trusts the cached hash).
- `SingleUnlocked`: no two cached accounts are unlocked and unexpired.
- `KeyReleasedOnlyToUnlocker`: AccountInfo/ExportKey succeed only for the
  address of the last successful UnLock, with the file's current password,
  before its expiry.
- `UnlockOnlyWithKeyPassword` (an action property): a step that unlocks
  an object, or renews its unlock, is a successful UnLock of that
  object's address. The password it was given must decrypt that address's
  keystore entry. On a cached object, UnLock compares only the cached
  hash, so this holds only while the cache agrees with the file.

- `AccountsRefined`: the account manager implements `AccountContract`.
  The contract is a keystore (`keys`, address to password), at most one
  session (address, password, end time), the clock and the last result.
  There is no cache and no `unlockAccount` pointer. In the contract:
  - UnLock succeeds exactly when the password is the key's.
  - AccountInfo and ExportKey release only a live session's account.
  - An import of the session's address, a deletion (even one whose bolt
    update fails) or a restart ends the session.
  - UnLock may crash only on an empty keystore.
  The refinement mapping is `store` for `keys` and `SessionOf` for the
  session. `SessionOf` is `unlockAccount` while that object still has
  the unlocked status and is still the object cached for its address.
  Otherwise there is no session.

Run `keystore_nil_deref` checks `NoNilDeref` and finds it violated: see
Findings.

Bounds: two addresses and two passwords (enough for a second account to
steal the unlock and for a re-import under another password), one
duration of 1 s on a clock of 2 s (an unlock that expires while the model
can still act), 3 AccountInfo objects per process (enough for an import to
replace an unlocked object and the replacement to be unlocked again). The
run has about 440,000 distinct states (about 85 s). There is no fairness: the console
acts only when the user types, and no liveness is claimed.

Each property has a mutant in `PROJECT.json` that breaks it:
caching an imported key before the write succeeds, not relocking the
previous account, not rechecking the cached object's expiry, keeping the
unlock across a restart, a loadAccount that does not check that the
entry decrypts, and a DeleteAccount that forgets `am.accounts.Delete`
(the deleted account's session would outlive its key).

### MinerStartup

Two goroutines of `gxc.go`. The main one (`pc`) runs `Run`'s miner
branch: `OpenKeystore` (initAccountManager: a directory fails, a missing
path is created with a default account whose creation may fail, a file
opens or times out), `CheckMinerAddress` (checkMinerAccount through
`KeyStore`'s `LoadAccount`, instantiated on the file alone, when the
config names a miner; getFirstMinerAccount otherwise), four `InitStep`s
for network, core (which sets `core.BlockChainImpl`, variable
`blockChain`), consensus, each of which may fail, then `StartRPC` and `Listen`
(below), then `Inited`
and the wait on `quitChan`. The exit goroutine (`exitPc`) is
`ExitWakes` (take the Ctrl-C; return if there is no chain yet) and
`ExitCloses` (close the chain; send on `quitChan` if `inited`, else
`os.Exit`); `Quit` is the rendezvous on `quitChan`. `PressCtrlC` is the
user. `pressed` and `outcome` are history variables.

Fairness: weak fairness on the main goroutine's steps and on each step of
the exit goroutine, because the Go scheduler eventually runs a runnable
goroutine; none on `PressCtrlC`, the user need not press. Deadlock is not
checked (`CHECK_DEADLOCK FALSE`): the process really stops, by exiting,
and a running miner with no Ctrl-C waits forever by design.

Run `miner_startup` (two addresses, two passwords, every initial keystore
file, config and password, about 1,600 states) checks `MinerKeyOpens`
(after checkAddress the miner holds the configured address, or the first
one its password opens, and its password decrypts it) and
`LateCtrlCExits` (a Ctrl-C once the chain exists ends the process). Runs
`miner_startup_panic` and `miner_ctrl_c` find `StartupNoPanic` and
`CtrlCExits` violated: see Findings.

RPC start-up (`miner_rpc.go`). `StartRPC` is the `rpcEnable` check in
`miner` and initRpcInstances' level check: level 0 or below skips RPC,
a level above `rpcLevelDev` is an error, levels 1..3 go on to the port
loop. `Listen` is one turn of startRPC's loop with its startHTTP:
`Endpoint` is `port+uint16(plus)`, the sum modulo 2^16. A port in
`inUse` is "address already in use", and the loop continues; after
`PortTries` (40) such ports startRPC fails. A free port binds (port 0
means a kernel-chosen port, `Ephemeral`). A free port in 1..1023 may
also fail for lack of privileges, which ends startRPC at once. The
instance uses levels {0, 2, 4}, ports 8101 and 65500, and five sets of
busy ports. These are chosen so that the loop binds at the 40th try
(8101..8139 busy), gives up (8101..8140 busy), wraps past 65535 to port
0, and reaches a free privileged port (0..2 and 65500..65535 busy).
`miner_startup` (about 73,000 states) also checks
`RpcGivesUpOnlyWhenAllBusy`: startRPC reports that no port is free only
when all 40 ports of its range, counted modulo 2^16, are in use. The
mutant that stops the loop one try early breaks it. The wrap to port 0
and to privileged ports is reached, but no document says which ports
RPC may use, so it is a hazard with no property.

### Coin and CmdLine

Pure functions, checked as invariants over a constant input chosen by
`Init` among all inputs of a bound. `Coin` abstracts the trimmed,
lower-cased gas price string to its digit prefix and its suffix;
`CoinUnits` (numbers 0..2, every unit) finds that the `ddam` unit is worth
1 AM. `CmdLine` folds the loop's body `Step` over the line (a sequence of
one-character strings); `cmdline_words` compares it with a reference
splitter `Words` on all 19,608 lines of up to five characters over two
letters, blank, tab, both quotes and backslash, for commands whose name
has two or more letters. A shorter first word, or a leading blank, is
split differently: see `console.go:704` under Findings.

### TxSubmit

Consoles (`Clients`) holding the key of an account (`Key`) send
transactions to one node. Per console, `cpc` follows SendRaw: `SendTx`
(sendtx's flags, AccountInfo; with `-nonce` it posts at once),
`NonceRPC` (Gx_nonce answers the committed nonce + 1), `TxRPC` (Gx_tx
and sendTransaction: the pool's AddTransaction decides, the node writes
the Result into `answer`), `Reply` (the console reads the response, or
loses the connection, and prints `out`). Every HTTP request may fail
before reaching the node. `Commit` is a block taking the account's next
nonce from the pool. The pool and the block are not under `src/`; they
follow the spec: per-sender nonces, no duplicate, no gap
(`AddTransaction`, `PendingNonces`, `Commit` are marked spec-modelled in
the map). There is no fairness: consoles act when users type.

Run `tx_submit` (two consoles on one account, two sendtx each, nonces up
to 3, about 9,500 states) checks `ConsoleOkMeansPooled`: a sendtx the
console reports as successful has its transaction in the pool or in a
block, across lost responses, concurrent consoles and commits. The run
`tx_auto_nonce` finds `AutoNonceUsable` violated: see Findings.

The pool's own decision (which of two concurrent Gx_tx requests with one
nonce it accepts) is made by `txPool.AddTransaction`, which is not under
`src/`. `TxSubmit` models it from the spec, so no property here is about
that decision: a check of it would check the model's own pool, not this
code. An earlier version checked that the handlers' pool refines an
abstract pool contract. That held by construction, because the modelled
`AddTransaction` and `Commit` were the contract's actions, so it was
removed.

### NetDispatch

`msgs` is every message sent or received, `outbox` what was handed to
NetCore, `pending` the handleMessageInner goroutines not yet run and
`bus` what they published. `Send` loops a message for the node's own ID
into `HandleMessage` and hands others to NetCore; `Broadcast` covers
Broadcast and TransmitToNeighbor; `Receive` is NetCore calling
handleMessage with bytes a peer sent, well formed or not;
`HandleMessageInner(n)` publishes on the topic of the code, if it has
one. Fairness: weak fairness on each goroutine, because the Go scheduler
runs every started goroutine. Run `net_dispatch` (one peer, codes 3, 7
and 10, three messages, about 16,000 states) checks
`DeliveredPublished`: every well-formed message with a topic, from a peer
or sent to the node itself, is eventually published, whatever order the
goroutines run in. Order is not preserved, by design; no code under
`src/` relies on it.
The same run checks the invariant `PublishedOnce`. Every event on the bus
is a message that decoded, is addressed to the node, and carries the topic
of its own code. No message is published twice. The run's mutant makes
handleMessage start the goroutine even when unmarshalling failed. TLC then
finds a malformed message on the bus.

### Codec

Each conversion of `pb_serial.go` is one operator. Go values are records
whose fields are the struct's fields. Go's `nil` and an absent pb field
are the model value `Nil`. The operators are `ensureUint64`,
`byteToHash`, `pbToTransaction`, `PbToTransactions`, `PbToBlockHeader`,
`PbToBlock`, `transactionToPb`, `TransactionsToPb`, `BlockHeaderToPb` and
`BlockToPb`. `Int8` is Go's `int8(...)` narrowing, two's complement.

Each behaviour converts one value:
- `MarshalLocal` encodes a block, a header or a transaction slice the
  node built. A nil header panics.
- `UnMarshal` decodes it, or decodes a message a peer sent. `Garbage` is
  refused.
- `Relay` marshals the decoded value again, to store it or pass it on.

The conversions outside `src/` are modelled from what they are used for:
- `BigInt.SetBytesWithSign` gives 0 for no bytes.
- `BytesToAddress` gives the zero address for no bytes.
- `big.Int.Bytes` drops the sign.
- The time stamp keeps whole seconds.

A behaviour ends, so the cfg sets `CHECK_DEADLOCK FALSE`.

Two named assumptions say which values the conversions meet. TLC checks
both on the instance.

`CodecAssumption` covers the node's own values:
- Nonce, Type, Hash, the header's numbers and hashes, and its proposer
  are Go value types, so they are never nil. Type fits an int8.
- Value, GasLimit, GasPrice and the cumulative difficulty are set,
  because `GenHash` writes their bytes. The difficulty is not negative.
- A block carries a transaction slice.

It also covers what `proto.Unmarshal` gives for a peer's bytes: a message
(never nil) with every field, any of them absent.

`NilIsNoMessage` says that `nil` is none of the pb messages the node
builds.

The instance has about 3,000 states. It varies every field whose
conversion has a branch:
- present and absent fields;
- negative and positive values and types;
- a sender set or not;
- a type of 260, which does not fit an int8;
- a nil block, a nil header, and a block message without a header.

Run `codec` checks two properties:
- `RoundTrip`: decoding what the node encoded gives the value back
  exactly, except the senders, which `transactionToPb` leaves out and
  `RecoverSource` derives again.
- `MissingIsZero`: every numeric field a peer left out decodes to zero.

`codec_type_wrap` is a finding below.

## 3. Proofs

`KeyStoreProofs` proves, for every set of addresses, passwords and
durations and all bounds (assumption `ConstAssumption`):

- `TypeCorrect`: `Spec => []TypeOK`
- `CacheConsistent`: `Spec => []CacheMatchesStore`
- `OneUnlocked`: `Spec => []SingleUnlocked`
- `KeyReleased`: `Spec => []KeyReleasedOnlyToUnlocker`

`KeyReleasedOnlyToUnlocker` is not inductive: a state could have a cached
object whose status is "unlocked" other than `unlockAccount`, and then
AccountInfo would release it. The inductive invariant `IInv` adds:

- `CachedUnlockedIsCurrent`: the only cached object with status unlocked
  is `unlockAccount` (UnLock relocks the previous one; imports allocate
  locked objects);
- `UnlockMatchesHistory`: `unlockAccount` still has the address, password
  and expiry of the last successful UnLock.

TLC checks `IInv` on the model above; the proof shows `Init => IInv` and
`IInv /\ [Next]_vars => IInv'` with one lemma per kind of step
(`ResultOnlyIInv`, `StoreAndCacheIInv`, `GrantUnlockIInv`,
`ReadUnlockedIInv`) and one case per action, and derives the four
properties from `IInv`. `SingleUnlocked` follows because two unlocked
cached objects are both `unlockAccount`, and the cache maps each address
to an object carrying that address.

`UnlockNeedsKeyPassword` proves the action property:
`Spec => [][UnlockGranted]_vars`. Under `IInv`, every step satisfies
`UnlockGranted` (lemma `NextUnlockGranted`), argued by kind of step:
- A step that leaves `infos` alone, empties it, or appends a locked
  object unlocks nothing (lemma `NoGrant`).
- UnLock's locked section changes the status or expiry of its own object
  only (lemma `GrantUnlockInfos`). It records that object's address and
  the password it was given (lemma `GrantUnlockGranted`).
- On the loading path, that password is the one `store` holds.
- On the cached path, it equals the cached hash, which
  `CacheMatchesStore` in `IInv` shows is the one `store` holds.

`KeyStoreRefinesContract` proves `Spec => AccountsRefined`, i.e.
`Spec => AC!ACSpec`, step by step:
- `Init` maps to `AC!ACInit`.
- Under `IInv` and `NoBucketEmpty`, every step maps to a step of the
  contract or leaves its variables alone (lemma `StepRefines`).
  `NoBucketEmpty` says there is no key without the bucket, since only
  `storeAccount` creates the bucket. It is needed because the nil
  dereference maps to the contract's `Crash`, which requires an empty
  keystore.
- `StepRefines` has one case per action, and one per branch of UnLock.
  The lemmas it rests on:
  - `StoreAndCacheSession`: a NewAccount or an import ends the session
    of its address and keeps any other.
  - `GrantUnlockSession`: UnLock's locked section makes the session the
    granted object's.
  - `LiveIsAuthorized`: the checks of AccountInfo, ExportKey and
    DeleteAccount pass exactly when the contract's session is live. This
    rests on `CachedUnlockedIsCurrent`.
  - A wrong password maps to `WrongPassword` because `CacheMatchesStore`
    makes the cached hash the file's password.

`AccountContract` proves its own invariant, `ContractSafe`:
`ACAssumption => (ACSpec => []SessionKeyCurrent)`. A session's key is
still encrypted under the password that opened it. The inductive
invariant is the contract's type with `SessionKeyCurrent`.
`SessionKeyStaysCurrent` carries this to the account manager, through
the refinement: `Spec => []AC!SessionKeyCurrent`.

`TxSubmitProofs` proves, for every set of consoles and accounts and all
bounds (assumption `TxSubmitAssumption`):

- `OkMeansPooled`: `Spec => []ConsoleOkMeansPooled`
- `TxTypeCorrect`: `Spec => []TypeOK`

`ConsoleOkMeansPooled` is not inductive: it says nothing about an "ok"
answer still on its way to the console. `IInv` adds that an answer exists
only while the console is in `reply`, that an "ok" answer's transaction
is pooled or committed, and that a console past SendTx has a sendtx
number and, before posting, a nonce in range. Those last two facts keep
the pooled records well typed. Each action gets one case; a commit moves
an identity from the pool to `done` (lemma `IdsGrow`).

`MinerStartupProofs` proves, for every keystore, key order, password,
RPC level and port set (assumption `MinerAssumption`):

- `KeyOpens`: `Spec => []MinerKeyOpens`
- `RpcGivesUp`: `Spec => []RpcGivesUpOnlyWhenAllBusy`

The inductive invariant `IInv` adds two things to the two properties:
- `MTypeOK`: the types, with the port and the loop counter in range.
- `RpcLoopInv`: the loop invariant of startRPC. Before the loop the
  counter is 0. In the loop it is below 40, and every port tried so far,
  `(rpcPort + i) % 65536` for `i` below the counter, is in use.

`RpcGivesUpOnlyWhenAllBusy` is not inductive alone, because it speaks
only of the state after the loop. The loop invariant carries the
history the property needs. Giving up happens at counter 39 with its own
port busy, so all 40 ports are busy.

`MinerKeyOpens` rests on lemma `FirstMinerOpens`: getFirstMinerAccount
returns the first address in key order whose entry the password opens.
The least index of that set comes from `WFMin` over `<` on `Nat`
(lemma `LeastElement`).

The port bounds are named operators, `MaxPort` and `PrivilegedPorts`,
not literal intervals. The provers expand a literal interval such as
`0..65535` into one case per element, and an assumption that contains
one cannot be used.

`CodecProofs` proves, for every set of values and messages that the two
Codec assumptions allow:

- `RoundTripHolds`: `Spec => []RoundTrip`
- `MissingIsZeroHolds`: `Spec => []MissingIsZero`

Each conversion pair is a lemma:
- `TxRoundTrip`, `TxsRoundTrip`, `HeaderRoundTrip` and `BlockRoundTrip`:
  decoding the message of a value the node builds gives the value back.
  Transactions lose their sender.
- `TxMissingIsZero`, `HeaderMissingIsZero` and `TxsMissingIsZero`: an
  absent number decodes to 0.

Both properties speak of `back` without saying how it was made, so
neither is inductive. The inductive invariant `CInv` adds four facts:
- a local conversion starts from one of the node's values;
- once sent, its wire is `Marshal` of that value;
- a peer's wire is a message peers send, or `Garbage`;
- a decoded value is `Decode` of a wire that is not `Garbage`.

`NetDispatchProofs` proves `PublishedOnceHolds`: `Spec => []PublishedOnce`
for every set of peers and codes and every message bound. `PublishedOnce`
is not inductive on its own. A goroutine in `pending` could publish a
message that is already on the bus, or one that should have been dropped.
The inductive invariant `NInv` therefore adds `PendingInv`: every started
goroutine's message is addressed to the node, decoded, and is not on the
bus yet. `NTypeOK` gives the record shapes. Two lemmas carry the proof:
- `NextPosition` gives the positions `Append` adds;
- `InnerNInv` proves the publishing step, one case per topic.

What stays with TLC: liveness and anything using ENABLED; the properties
of `CmdLine` (it uses `FoldLeft`, which is recursive) and `Coin`; the liveness properties of `MinerStartup` (`LateCtrlCExits`)
and of `NetDispatch` (`DeliveredPublished`); and the violation runs.

## 4. Findings

- `account_op.go:351`: UnLock on a keystore file that has no `ks` bucket
  (the file a new console creates) panics: `loadAccount` returns
  `(nil, nil)` and UnLock dereferences the nil account. TLC reaches it in
  two steps (run `keystore_nil_deref`).

- `coin.go:71`: ParseCoin's regular expression accepts `ddam`, but the
  switch tests `"tas"`, so `1DDAM`, the example the console prints, is
  1 AM (run `coin_units`).
- `console.go:704`: `escapeNext` starts `true`, so the first character
  of a line is copied literally. `" help"` is the command `" help"`, and
  a one-letter first word is glued to the next. `Step` keeps this
  behaviour. No run checks it, because a one-line unit test shows it.
- `gxc.go:283` and `account_op.go:250`: `ddam miner` panics instead of
  reporting an error when the default account cannot be written
  (initAccountManager returns `(nil, nil)`, and `aop.Close()` is deferred
  on nil), or when the keystore has no bucket and a miner address is
  configured (run `miner_startup_panic`).
- `rpc_api_gx.go:171`: Gx_nonce answers the committed nonce + 1, and
  its comment says the user can use it directly. But it ignores the
  account's transactions still in the pool, so a second sendtx before
  the next block gets the nonce of the first (run `tx_auto_nonce`).
- `gxc.go:174`: a Ctrl-C before core.InitCore makes the exit goroutine
  return; the miner then finishes starting and ignores every later Ctrl-C
  (run `miner_ctrl_c`).

- `pb_serial.go:134`: the type of a peer's transaction is narrowed from
  int32 with `int8(...)`, so type 260 decodes as 4 (StakeAdd). It is not
  refused as malformed (run `codec_type_wrap`).
- `pb_serial.go:228`: UnMarshalBlock accepts a message without a header
  and returns a block whose Header is nil. Marshalling that block again
  panics in `BlockHeaderToPb`. `MarshalBlockHeader`'s nil check comes
  after the same dereference. In run `codec`, `Relay` reaches this panic
  state. No property rules it out, because no code under `src/`
  marshals a decoded block again. Whether it can happen depends on
  callers outside this repository.

## 5. Not modelled

The consensus core, the pool's implementation (its nonce decision is
modelled from the spec in `TxSubmit`), the chain engine, the message bus and the
peer transport are not under `src/`; `src/` holds only their interfaces.
Hashing, key derivation and JSON formatting are pure data
transformations abstracted to model values. The protobuf conversion is
modelled field by field in `Codec`, but the byte-level wire format of
`proto.Marshal` is not. Logging, the pprof
server, configuration files and message display are I/O.

The dev API's `TxUnSafe` is a second way into `sendTransaction`; it
runs the same pool call as Gx_tx and is not modelled separately.

The dev RPC queries of `rpc_api_dev.go` (ConnectedNodes, GetTransaction,
GetBlocks, GetTopBlock, BlockReceipts) only read the chain and change no
state, so they have no action to model. One of them is listed as a
hazard without a property: `GetBlocks` loops `for h := from; h <= to; h++`
over `uint64`, so a request with `to` = 2^64-1 never ends, because `h`
wraps to 0.
