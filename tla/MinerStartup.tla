---------------------------- MODULE MinerStartup ----------------------------
(***************************************************************************)
(* `ddam miner`: Run, miner, fullInit and checkAddress of                  *)
(* src/cmd/cli/gxc.go, with the exit goroutine that handles Ctrl-C.        *)
(*                                                                         *)
(* Two goroutines: the main one initialises the node step by step and     *)
(* then blocks on quitChan; the exit goroutine blocks on the Ctrl-C        *)
(* channel, closes the chain and either sends on quitChan (when the node   *)
(* is inited) or exits the process.  The keystore file is the one of       *)
(* KeyStore: the miner reads it with loadAccount through checkMinerAccount *)
(* or decrypts its entries in key order through getFirstMinerAccount.      *)
(* Every step the main goroutine takes after checkAddress may fail (the    *)
(* network, the core, the consensus engine, the RPC server); fullInit and  *)
(* miner then return the error and Run calls os.Exit(0).                   *)
(***************************************************************************)
EXTENDS Integers, Sequences, FiniteSets

CONSTANTS
    Addrs, Pwds, NoEntry,
    KeyOrder,         \* the addresses in the bolt bucket's key order
    DefaultPassword,  \* DefaultPassword = "123", also --password's default
    RpcLevels,        \* values of --rpc
    RpcPorts,         \* values of --rpcport (uint16)
    PortSets          \* sets of ports other processes on the host listen on

(* The largest uint16, the type of --rpcport and of a TCP port.            *)
MaxPort == 65535

ASSUME MinerAssumption ==
    /\ KeyOrder \in Seq(Addrs)
    /\ \A a \in Addrs : \E i \in 1..Len(KeyOrder) : KeyOrder[i] = a
    /\ DefaultPassword \in Pwds
    /\ RpcLevels \subseteq Int
    /\ RpcPorts \subseteq 0..MaxPort
    /\ PortSets \subseteq SUBSET (0..MaxPort)

VARIABLES
    keyFile,    \* what the --keystore path names: "none", "file" or "dir"
    bucket,     \* the "ks" bucket exists in the file
    store,      \* address -> password that encrypts its key, or NoEntry
    minerAddr,  \* the "miner" entry of the config file, NoEntry for ""
    password,   \* --password
    account,    \* ddam.account.Address, NoEntry until checkAddress sets it
    pc,         \* where the main goroutine is
    blockChain, \* core.BlockChainImpl != nil
    inited,     \* ddam.inited
    ctrlC,      \* the Ctrl-C channel: "none", "pending" or "taken"
    exitPc,     \* where the exit goroutine is
    pressed,    \* history: was Ctrl-C first pressed before or after InitCore
    outcome,    \* history: how the process ended
    rpcLevel,   \* config.rpcLevel
    rpcPort,    \* config.rpcPort
    inUse,      \* ports some process on the host listens on
    plus,       \* startRPC's loop counter
    rpcResult,  \* history: how startRPC's loop ended
    rpcAt       \* the port the RPC server listens on, -1 for none

rpcVars == <<rpcLevel, rpcPort, inUse, plus, rpcResult, rpcAt>>

vars == <<keyFile, bucket, store, minerAddr, password, account, pc,
          blockChain, inited, ctrlC, exitPc, pressed, outcome, rpcVars>>

KS == INSTANCE KeyStore
        WITH Durations <- {}, MaxInfos <- 0, MaxTime <- 0,
             infos <- <<>>, cache <- [a \in Addrs |-> 0], unlockAcc <- 0,
             now <- 0, lastUnlock <- [addr |-> NoEntry, pwd |-> NoEntry, until |-> 0],
             result <- [op |-> "None", outcome |-> "ok", addr |-> NoEntry]

MainPcs == {"start", "address", "network", "core", "consensus", "rpc",
            "listen", "msg", "waiting", "exited"}

(* rpcLevelNone .. rpcLevelDev.                                             *)
RpcLevelNone == 0
RpcLevelDev == 3

(* Mutant: the loop stops one port early.                                  *)
PortTriesOffByOne == 39

(* startRPC's loop bound: it tries 40 ports.                                *)
PortTries == 40

(* Ports a process needs privileges to listen on.                           *)
PrivilegedPorts == 1..1023

(* An ephemeral port the kernel hands out for a listen on port 0.           *)
Ephemeral == 65536

(* Any keystore path, config file and password the miner may start with. *)
Init ==
    /\ keyFile \in {"none", "file", "dir"}
    /\ bucket \in BOOLEAN
    /\ store \in [Addrs -> Pwds \cup {NoEntry}]
    /\ (keyFile # "file" \/ ~bucket) => \A a \in Addrs : store[a] = NoEntry
    /\ keyFile # "file" => ~bucket
    /\ minerAddr \in Addrs \cup {NoEntry}
    /\ password \in Pwds
    /\ account = NoEntry
    /\ pc = "start"
    /\ blockChain = FALSE /\ inited = FALSE
    /\ ctrlC = "none" /\ exitPc = "wait"
    /\ pressed = "never" /\ outcome = "running"
    /\ rpcLevel \in RpcLevels /\ rpcPort \in RpcPorts /\ inUse \in PortSets
    /\ plus = 0 /\ rpcResult = "none" /\ rpcAt = -1

-----------------------------------------------------------------------------
(* An error returned by fullInit or miner: showMsg, then os.Exit(0).       *)
Fail(how) ==
    /\ pc' = "exited"
    /\ outcome' = how

(* getFirstMinerAccount: the first entry in key order that decrypts under *)
(* the password, NoEntry when the bucket is missing or none does.         *)
FirstMinerAccount(p) ==
    LET hits == {i \in 1..Len(KeyOrder) : store[KeyOrder[i]] = p}
    IN  IF ~bucket \/ hits = {} THEN NoEntry
        ELSE KeyOrder[CHOOSE i \in hits : \A j \in hits : i <= j]

(* global.Init, then initAccountManager(keystore, true).  dirExists is     *)
(* true for a regular file: a missing path (and a directory) makes it      *)
(* create the keystore and a default account; when that NewAccount fails  *)
(* it returns (nil, nil), and checkAddress's `defer aop.Close()` on the    *)
(* nil accountOp panics.  bolt.Open fails on a directory and may time out *)
(* on a file another process holds.                                        *)
OpenKeystore ==
    /\ pc = "start"
    /\ \/ /\ keyFile = "dir"
          /\ Fail("error")
          /\ UNCHANGED <<keyFile, bucket, store>>
       \/ /\ keyFile = "none"
          /\ keyFile' = "file"
          /\ \/ \E a \in Addrs :
                  /\ bucket' = TRUE
                  /\ store' = [store EXCEPT ![a] = DefaultPassword]
                  /\ pc' = "address"
                  /\ UNCHANGED outcome
             \/ /\ Fail("panic")
                /\ UNCHANGED <<bucket, store>>
       \/ /\ keyFile = "file"
          /\ \/ /\ pc' = "address"
                /\ UNCHANGED outcome
             \/ Fail("error")
          /\ UNCHANGED <<keyFile, bucket, store>>
    /\ UNCHANGED <<minerAddr, password, account, blockChain, inited, ctrlC,
                   exitPc, pressed>>
    /\ UNCHANGED rpcVars

(* Mutant: the configured miner address is ignored.                        *)
CheckMinerAddressAnyEntry ==
    /\ pc = "address"
    /\ \/ /\ FirstMinerAccount(password) # NoEntry
          /\ account' = FirstMinerAccount(password)
          /\ pc' = "network"
          /\ UNCHANGED outcome
       \/ /\ FirstMinerAccount(password) = NoEntry
          /\ Fail("error")
          /\ UNCHANGED account
    /\ UNCHANGED <<keyFile, bucket, store, minerAddr, password, blockChain,
                   inited, ctrlC, exitPc, pressed>>
    /\ UNCHANGED rpcVars

(* The rest of checkAddress.  With a configured address, checkMinerAccount *)
(* on the fresh manager loads it (loadAccount's nil account on a missing   *)
(* bucket is dereferenced: panic); otherwise getFirstMinerAccount.         *)
CheckMinerAddress ==
    /\ pc = "address"
    /\ \/ /\ minerAddr # NoEntry
          /\ \/ /\ KS!LoadAccount(minerAddr, password) = "ok"
                /\ account' = minerAddr
                /\ pc' = "network"
                /\ UNCHANGED outcome
             \/ /\ KS!LoadAccount(minerAddr, password) = "err"
                /\ Fail("error")
                /\ UNCHANGED account
             \/ /\ KS!LoadAccount(minerAddr, password) = "nil"
                /\ Fail("panic")
                /\ UNCHANGED account
       \/ /\ minerAddr = NoEntry
          /\ \/ /\ FirstMinerAccount(password) # NoEntry
                /\ account' = FirstMinerAccount(password)
                /\ pc' = "network"
                /\ UNCHANGED outcome
             \/ /\ FirstMinerAccount(password) = NoEntry
                /\ Fail("error")
                /\ UNCHANGED account
    /\ UNCHANGED <<keyFile, bucket, store, minerAddr, password, blockChain,
                   inited, ctrlC, exitPc, pressed>>
    /\ UNCHANGED rpcVars

(* One step of fullInit or miner that may return an error: checkMiner and *)
(* network.Init, core.InitCore (which sets core.BlockChainImpl),           *)
(* consensus.InitEngine.                                                    *)
InitStep(from, to) ==
    /\ pc = from
    /\ \/ /\ pc' = to
          /\ blockChain' = (blockChain \/ from = "core")
          /\ UNCHANGED outcome
       \/ /\ Fail("error")
          /\ UNCHANGED blockChain
    /\ UNCHANGED <<keyFile, bucket, store, minerAddr, password, account,
                   inited, ctrlC, exitPc, pressed>>
    /\ UNCHANGED rpcVars

(* miner: startRPC when config.rpcEnable() (rpcLevel > rpcLevelNone).      *)
(* initRpcInstances returns an error for a level above rpcLevelDev (its    *)
(* test for one below rpcLevelNone is never reached); otherwise the loop   *)
(* starts at plus = 0.                                                      *)
StartRPC ==
    /\ pc = "rpc"
    /\ \/ /\ rpcLevel <= RpcLevelNone
          /\ pc' = "msg"
          /\ UNCHANGED outcome
       \/ /\ rpcLevel > RpcLevelDev
          /\ Fail("error")
       \/ /\ rpcLevel \in RpcLevelNone + 1 .. RpcLevelDev
          /\ pc' = "listen"
          /\ UNCHANGED outcome
    /\ UNCHANGED <<keyFile, bucket, store, minerAddr, password, account,
                   blockChain, inited, ctrlC, exitPc, pressed, rpcVars>>

(* The port of the endpoint: port+uint16(plus), a uint16 sum.               *)
Endpoint == (rpcPort + plus) % 65536

(* One turn of startRPC's loop: startHTTP listens on host:port.  A port in *)
(* use is "address already in use": continue, and after 40 of them the     *)
(* loop ends and startRPC returns the last error.  Port 0 makes the kernel  *)
(* choose a free port.  Another port below 1024 needs privileges: without  *)
(* them Listen fails with another error, which startRPC returns at once.   *)
Listen ==
    /\ pc = "listen"
    /\ \/ /\ Endpoint \in inUse
          /\ plus' = plus + 1
          /\ IF plus + 1 < PortTries
             THEN UNCHANGED <<pc, outcome, rpcResult>>
             ELSE Fail("error") /\ rpcResult' = "busy"
          /\ UNCHANGED <<inUse, rpcAt>>
       \/ /\ Endpoint \notin inUse
          /\ \/ /\ Endpoint = 0
                /\ rpcAt' = Ephemeral
             \/ /\ Endpoint # 0
                /\ rpcAt' = Endpoint
          /\ inUse' = inUse \cup {rpcAt'}
          /\ pc' = "msg"
          /\ rpcResult' = "serving"
          /\ UNCHANGED <<plus, outcome>>
       \/ /\ Endpoint \notin inUse
          /\ Endpoint \in PrivilegedPorts
          /\ Fail("error")
          /\ rpcResult' = "denied"
          /\ UNCHANGED <<inUse, plus, rpcAt>>
    /\ UNCHANGED <<keyFile, bucket, store, minerAddr, password, account,
                   blockChain, inited, ctrlC, exitPc, pressed, rpcLevel, rpcPort>>

(* initMsgShower, then ddam.inited = true; Run blocks on <-quitChan.       *)
Inited ==
    /\ pc = "msg"
    /\ pc' = "waiting"
    /\ inited' = TRUE
    /\ UNCHANGED <<keyFile, bucket, store, minerAddr, password, account,
                   blockChain, ctrlC, exitPc, pressed, outcome>>
    /\ UNCHANGED rpcVars

-----------------------------------------------------------------------------
(* The user presses Ctrl-C; a press while one is pending or after the exit *)
(* goroutine took one reaches no receiver.                                 *)
PressCtrlC ==
    /\ pc # "exited"
    /\ ctrlC = "none"
    /\ ctrlC' = "pending"
    /\ pressed' = IF blockChain THEN "late" ELSE "early"
    /\ UNCHANGED <<keyFile, bucket, store, minerAddr, password, account, pc,
                   blockChain, inited, exitPc, outcome>>
    /\ UNCHANGED rpcVars

(* exit: <-ctrlC; if core.BlockChainImpl == nil the goroutine returns.     *)
ExitWakes ==
    /\ pc # "exited"
    /\ exitPc = "wait"
    /\ ctrlC = "pending"
    /\ ctrlC' = "taken"
    /\ exitPc' = IF blockChain THEN "closing" ELSE "returned"
    /\ UNCHANGED <<keyFile, bucket, store, minerAddr, password, account, pc,
                   blockChain, inited, pressed, outcome>>
    /\ UNCHANGED rpcVars

(* Mutant: the else branch is lost; a node not yet inited never exits.     *)
ExitClosesNoElse ==
    /\ pc # "exited"
    /\ exitPc = "closing"
    /\ exitPc' = IF inited THEN "sending" ELSE "returned"
    /\ UNCHANGED <<pc, outcome>>
    /\ UNCHANGED <<keyFile, bucket, store, minerAddr, password, account,
                   blockChain, inited, ctrlC, pressed>>
    /\ UNCHANGED rpcVars

(* BlockChainImpl.Close, xlog.Close; quit <- true if inited, else          *)
(* os.Exit(0).  inited is read without synchronisation.                    *)
ExitCloses ==
    /\ pc # "exited"
    /\ exitPc = "closing"
    /\ \/ /\ inited
          /\ exitPc' = "sending"
          /\ UNCHANGED <<pc, outcome>>
       \/ /\ ~inited
          /\ exitPc' = "done"
          /\ pc' = "exited"
          /\ outcome' = "ctrlc"
    /\ UNCHANGED <<keyFile, bucket, store, minerAddr, password, account,
                   blockChain, inited, ctrlC, pressed>>
    /\ UNCHANGED rpcVars

(* quit <- true meets Run's <-quitChan; Run returns and the process ends.  *)
Quit ==
    /\ pc = "waiting"
    /\ exitPc = "sending"
    /\ pc' = "exited"
    /\ exitPc' = "done"
    /\ outcome' = "quit"
    /\ UNCHANGED <<keyFile, bucket, store, minerAddr, password, account,
                   blockChain, inited, ctrlC, pressed>>
    /\ UNCHANGED rpcVars

MainStep ==
    \/ OpenKeystore
    \/ CheckMinerAddress
    \/ InitStep("network", "core")
    \/ InitStep("core", "consensus")
    \/ InitStep("consensus", "rpc")
    \/ StartRPC
    \/ Listen
    \/ Inited

Next == MainStep \/ PressCtrlC \/ ExitWakes \/ ExitCloses \/ Quit

(* Both goroutines are runnable whenever their step is enabled and the Go *)
(* scheduler runs every runnable goroutine; the user's key press is not   *)
(* assumed.                                                                 *)
Spec == Init /\ [][Next]_vars /\ WF_vars(MainStep) /\ WF_vars(ExitWakes)
            /\ WF_vars(ExitCloses) /\ WF_vars(Quit)

-----------------------------------------------------------------------------
(* Once checkAddress has returned, the miner runs with the configured      *)
(* address when there is one, and in every case with a keystore entry that *)
(* its --password decrypts (account_op.go decodeAccount).                  *)
MinerKeyOpens ==
    pc \notin {"start", "address", "exited"} =>
        /\ account # NoEntry
        /\ store[account] = password
        /\ minerAddr # NoEntry => account = minerAddr

(* A Ctrl-C pressed once core.BlockChainImpl is set stops the process,     *)
(* whether the node is still initialising or already inited.              *)
LateCtrlCExits == (pressed = "late") ~> (pc = "exited")

(* Every Ctrl-C stops the miner (gxc.go installs the handler before       *)
(* anything else, so that the user can always quit).                      *)
CtrlCExits == (ctrlC # "none") ~> (pc = "exited")

(* startRPC reports that it found no port only when each of the 40 ports  *)
(* from --rpcport on (port+uint16(plus)) was in use: the loop neither gives *)
(* up early nor stops at the first busy port.                               *)
RpcGivesUpOnlyWhenAllBusy ==
    rpcResult = "busy" =>
        \A i \in 0..39 : (rpcPort + i) % 65536 \in inUse

(* Starting the miner never crashes it: a bad keystore or password is     *)
(* reported by fullInit's error.                                           *)
StartupNoPanic == outcome # "panic"

=============================================================================
