---------------------------- MODULE ChainService ----------------------------
(***************************************************************************)
(* How a sao process sends transactions: chain/chain.go keeps one channel  *)
(* and one broadcast loop for every signer, chain/tx_addr_pool.go hands    *)
(* out addresses to sign with, the methods of chain/order.go, model.go,    *)
(* node.go and did.go are the callers, and node/node.go and                *)
(* node/shutdown.go start the service and stop it.                         *)
(*                                                                         *)
(* A goroutine's call runs in the steps the code's channel operations and  *)
(* unsynchronised map accesses separate.  The chain itself (the account    *)
(* query, BroadcastTx) is external: it answers with any outcome.  The      *)
(* context of the loops is the background context of app.Run, so their     *)
(* ctx.Done() case never fires.                                            *)
(***************************************************************************)
EXTENDS Integers, Sequences, FiniteSets

CONSTANTS
    Goroutine,      \* callers of the chain service
    Main,           \* the goroutine of NewNode, later the status reporter
    Node,           \* the address of the node, which every caller passes in
    PoolAddress,    \* addresses LoadAddressPool may find in the keyring
    Root,           \* the one named tx_addr_0
    NoAddress,      \* the empty string GetRandomAddress returns with an error
    MaxCalls        \* bound on the calls of one behaviour

Address == {Node} \cup PoolAddress

ASSUME ChainAssumption ==
    /\ Main \in Goroutine
    /\ Root \in PoolAddress
    /\ NoAddress \notin Address
    /\ MaxCalls \in Nat \ {0}

\* A channel of broadcastChanMap, numbered in the order they are made.
Channel == 1 .. MaxCalls

VARIABLES
    phase,      \* where the process is between its start and its exit
    pool,       \* AddressPool.Addresses; the empty function is c.ap = nil
    chans,      \* broadcastChanMap: the channel of a signer, 0 for none
    made,       \* how many channels were made
    queue,      \* the buffer of a channel, at most one job
    closed,     \* the channels Stop has closed
    loop,       \* the broadcast loop of a channel
    call,       \* the call a goroutine is in
    tx,         \* the chain ran the message of that call, with code 0
    calls       \* how many calls began

vars == <<phase, pool, chans, made, queue, closed, loop, call, tx, calls>>

svcVars == <<chans, made, queue, closed, loop>>

NoCall == [pc |-> "idle", addr |-> Node, ch |-> 0, decode |-> FALSE, result |-> "none"]

NoLoop == [pc |-> "none", job |-> Main]

\* The process is gone: it returned from main, or a panic ended it.
Exited == phase \in {"exited", "panicked"}

\* What the process held is gone with it.
Exit(how) ==
    /\ phase' = how
    /\ pool' = << >>
    /\ chans' = [a \in Address |-> 0]
    /\ made' = 0
    /\ queue' = [c \in Channel |-> << >>]
    /\ closed' = {}
    /\ loop' = [c \in Channel |-> NoLoop]
    /\ call' = [g \in Goroutine |-> NoCall]
    /\ tx' = [g \in Goroutine |-> FALSE]
    /\ calls' = 0

-----------------------------------------------------------------------------
(* The process starts.                                                     *)

\* tx_addr_0 must be there, a missing tx_addr_i is logged and left out; a
\* pool of size 0 is nil.
LoadAddressPool ==
    {[a \in S |-> "Available"] : S \in {{}} \cup {T \in SUBSET PoolAddress : Root \in T}}

\* A node loads its pool before anything else; a command of the CLI uses
\* the chain service of its own process, without a pool.
Init ==
    /\ \/ phase = "starting" /\ pool \in LoadAddressPool
       \/ phase = "cli" /\ pool = << >>
    /\ chans = [a \in Address |-> 0]
    /\ made = 0
    /\ queue = [c \in Channel |-> << >>]
    /\ closed = {}
    /\ loop = [c \in Channel |-> NoLoop]
    /\ call = [g \in Goroutine |-> NoCall]
    /\ tx = [g \in Goroutine |-> FALSE]
    /\ calls = 0

-----------------------------------------------------------------------------
(* A call begins.                                                          *)

\* The services of a node run from the moment NewNode starts them until the
\* process exits; nothing stops them from calling during the shutdown.
Serving(g) == ~Exited /\ phase # "cli" /\ g # Main

\* The method takes its address and, where it does, asks the chain for the
\* account: without one it returns an error, else it is at broadcastMsg.
Begin(g, addr, found, decode) ==
    /\ call[g].pc = "idle"
    /\ calls < MaxCalls
    /\ calls' = calls + 1
    /\ \E ok \in found :
        call' = [call EXCEPT ![g] =
                    [pc |-> IF ok THEN "lookup" ELSE "return", addr |-> addr, ch |-> 0,
                     decode |-> decode, result |-> IF ok THEN "none" ELSE "err"]]
    /\ UNCHANGED <<phase, svcVars, tx>>

\* cosmos.Account (external) finds the account or not; a method that does
\* not ask goes on.
Account(asked) == IF asked THEN BOOLEAN ELSE {TRUE}

\* Mutant of GetRandomAddress: the address handed out is not marked.
GetRandomAddressUnmarked(a) ==
    /\ pool[a] = "Available"
    /\ pool' = pool

\* GetRandomAddress marks one of the available addresses, under the lock.
GetRandomAddress(a) ==
    /\ pool[a] = "Available"
    /\ pool' = [pool EXCEPT ![a] = "InUse"]

NoAddressAvailable == \A a \in DOMAIN pool : pool[a] # "Available"

\* The beginning the methods on orders share.  With a pool the message is
\* signed by an address of it, and the account is queried; when none is
\* available the method returns at once.  Without a pool the node's own
\* address signs, and only some methods query its account.
Pooled(g, account, decode) ==
    /\ Serving(g)
    /\ \/ /\ pool = << >>
          /\ Begin(g, Node, Account(account), decode)
          /\ UNCHANGED pool
       \/ \E a \in DOMAIN pool :
            /\ GetRandomAddress(a)
            /\ Begin(g, a, Account(TRUE), decode)
       \/ /\ pool # << >>
          /\ NoAddressAvailable
          /\ Begin(g, NoAddress, {FALSE}, decode)
          /\ UNCHANGED pool

OrderReady(g) == Pooled(g, TRUE, TRUE)

StoreOrder(g) == Pooled(g, FALSE, TRUE)

CompleteOrder(g) == Pooled(g, TRUE, FALSE)

RenewOrder(g) == Pooled(g, FALSE, TRUE)

MigrateOrder(g) == Pooled(g, FALSE, TRUE)

TerminateOrder(g) == Pooled(g, FALSE, FALSE)

UpdatePermission(g) == Pooled(g, FALSE, FALSE)

\* The beginning of the methods that sign with the caller's address, pool
\* or not.
Own(g, account, decode) ==
    /\ Begin(g, Node, Account(account), decode)
    /\ UNCHANGED pool

\* Reset is the last thing NewNode does before the node is up; from then on
\* the status reporter calls it, every 15 minutes.  The CLI has it too.
Reset(g) ==
    /\ ~Exited
    /\ g = Main
    /\ Own(g, TRUE, FALSE)

ReportFaults(g) == Serving(g) /\ Own(g, FALSE, TRUE)

RecoverFaults(g) ==
    /\ Serving(g) \/ (phase = "cli" /\ g = Main)
    /\ Own(g, FALSE, FALSE)

\* What only a command of the CLI calls.
Cli(g) == phase = "cli" /\ g = Main

Create(g) == Cli(g) /\ Own(g, FALSE, FALSE)

ClaimReward(g) == Cli(g) /\ Own(g, FALSE, FALSE)

AddVstorage(g) == Cli(g) /\ Own(g, TRUE, FALSE)

RemoveVstorage(g) == Cli(g) /\ Own(g, TRUE, FALSE)

UpdateDidBinding(g) == Cli(g) /\ Own(g, FALSE, FALSE)

BeginCall(g) ==
    \/ OrderReady(g) \/ StoreOrder(g) \/ CompleteOrder(g) \/ RenewOrder(g)
    \/ MigrateOrder(g) \/ TerminateOrder(g) \/ UpdatePermission(g)
    \/ Reset(g) \/ ReportFaults(g) \/ RecoverFaults(g)
    \/ Create(g) \/ ClaimReward(g) \/ AddVstorage(g) \/ RemoveVstorage(g)
    \/ UpdateDidBinding(g)

-----------------------------------------------------------------------------
(* A call goes through broadcastMsg.                                       *)

\* Goroutine g is at one of its steps, and the process is there to take it.
At(g, pc) == ~Exited /\ call[g].pc = pc

Goto(g, pc) == call' = [call EXCEPT ![g].pc = pc]

\* The job goes into the buffer of the channel, or the caller blocks until
\* there is room.  Sending on a closed channel is a panic.
Send(g, c) ==
    IF c \in closed
    THEN Exit("panicked")
    ELSE /\ IF queue[c] = << >>
            THEN /\ queue' = [queue EXCEPT ![c] = <<g>>]
                 /\ call' = [call EXCEPT ![g].pc = "wait", ![g].ch = 0]
            ELSE /\ call' = [call EXCEPT ![g].pc = "blocked", ![g].ch = c]
                 /\ UNCHANGED queue
         /\ UNCHANGED <<phase, pool, chans, made, closed, loop, tx, calls>>

\* The map is read, without a lock; a caller that finds a channel sends.
Lookup(g) ==
    /\ At(g, "lookup")
    /\ IF chans[call[g].addr] = 0
       THEN Goto(g, "make") /\ UNCHANGED <<phase, pool, svcVars, tx, calls>>
       ELSE Send(g, chans[call[g].addr])

\* A channel is made and its loop started even when another caller that saw
\* no channel has made one meanwhile; the later one stays in the map.
MakeChan(g) ==
    /\ At(g, "make")
    /\ made' = made + 1
    /\ chans' = [chans EXCEPT ![call[g].addr] = made']
    /\ loop' = [loop EXCEPT ![made'].pc = "select"]
    /\ Goto(g, "sleep")
    /\ UNCHANGED <<phase, pool, queue, closed, tx, calls>>

\* Two unsynchronised writes of the map may meet: the runtime then ends the
\* process.
ConcurrentMapWrites ==
    /\ \E g, h \in Goroutine : g # h /\ At(g, "make") /\ At(h, "make")
    /\ Exit("panicked")

\* After the second of sleep the map is read again.
WakeAndSend(g) ==
    /\ At(g, "sleep")
    /\ Send(g, chans[call[g].addr])

\* The blocked sender gets its turn, or Stop closes its channel.
SendBlocked(g) ==
    /\ At(g, "blocked")
    /\ queue[call[g].ch] = << >> \/ call[g].ch \in closed
    /\ Send(g, call[g].ch)

-----------------------------------------------------------------------------
(* broadcastLoop.                                                          *)

LoopAt(c, pc) == ~Exited /\ loop[c].pc = pc

\* Mutant of TakeJob: the job is looked at and left in the channel.
TakeJobKept(c) ==
    /\ LoopAt(c, "select")
    /\ queue[c] # << >>
    /\ loop' = [loop EXCEPT ![c].pc = "broadcast", ![c].job = Head(queue[c])]
    /\ UNCHANGED <<phase, pool, chans, made, queue, closed, call, tx, calls>>

TakeJob(c) ==
    /\ LoopAt(c, "select")
    /\ queue[c] # << >>
    /\ loop' = [loop EXCEPT ![c].pc = "broadcast", ![c].job = Head(queue[c])]
    /\ queue' = [queue EXCEPT ![c] = << >>]
    /\ UNCHANGED <<phase, pool, chans, made, closed, call, tx, calls>>

\* A closed and empty channel yields the zero job at once.  Its signer has no
\* account, and the loop blocks for ever on the nil result channel.
TakeZeroJob(c) ==
    /\ LoopAt(c, "select")
    /\ c \in closed
    /\ queue[c] = << >>
    /\ loop' = [loop EXCEPT ![c].pc = "stuck"]
    /\ UNCHANGED <<phase, pool, chans, made, queue, closed, call, tx, calls>>

\* Mutant of Broadcast: an error of BroadcastTx is not looked at.
BroadcastNoError(c) ==
    LET g == loop[c].job IN
    /\ LoopAt(c, "broadcast")
    /\ call[g].pc = "wait"
    /\ \E answer \in {"err", "code", "ok"} :
        /\ \E done \in IF answer = "err" THEN BOOLEAN ELSE {answer = "ok"} :
            tx' = [tx EXCEPT ![g] = done]
        /\ \E result \in IF answer = "code" THEN {"err"}
                         ELSE {"ok"} \cup (IF call[g].decode THEN {"err"} ELSE {}) :
            call' = [call EXCEPT ![g].pc = "return", ![g].result = result]
    /\ loop' = [loop EXCEPT ![c] = [NoLoop EXCEPT !.pc = "select"]]
    /\ UNCHANGED <<phase, pool, chans, made, queue, closed, calls>>

\* The account query of the loop and BroadcastTx (external), then the answer
\* on the unbuffered result channel of the job, where the caller waits.  A
\* response carries the code the chain gave the transaction.  An error may
\* come before the transaction is sent or after (a lost answer): the chain
\* may have run it.  The method turns an error and a code into an error;
\* some decode the response, which may fail.
Broadcast(c) ==
    LET g == loop[c].job IN
    /\ LoopAt(c, "broadcast")
    /\ call[g].pc = "wait"
    /\ \E answer \in {"err", "code", "ok"} :
        /\ \E done \in IF answer = "err" THEN BOOLEAN ELSE {answer = "ok"} :
            tx' = [tx EXCEPT ![g] = done]
        /\ \E result \in IF answer # "ok" THEN {"err"}
                         ELSE {"ok"} \cup (IF call[g].decode THEN {"err"} ELSE {}) :
            call' = [call EXCEPT ![g].pc = "return", ![g].result = result]
    /\ loop' = [loop EXCEPT ![c] = [NoLoop EXCEPT !.pc = "select"]]
    /\ UNCHANGED <<phase, pool, chans, made, queue, closed, calls>>

-----------------------------------------------------------------------------
(* A call returns.                                                         *)

\* SetAddressAvailable refuses an address that is not in the pool or not in
\* use; its callers ignore that.
SetAddressAvailable(a) ==
    pool' = IF a \in DOMAIN pool /\ pool[a] = "InUse"
            THEN [pool EXCEPT ![a] = "Available"] ELSE pool

\* Mutant of Release: the address goes back only after a success.
ReleaseOnSuccess(g) ==
    IF pool # << >> /\ call[g].addr # Node /\ call[g].result = "ok"
    THEN SetAddressAvailable(call[g].addr)
    ELSE UNCHANGED pool

\* The deferred function of the methods on orders, on every path: it gives
\* back the address unless it is the one the caller passed in.
Release(g) ==
    IF pool # << >> /\ call[g].addr # Node
    THEN SetAddressAvailable(call[g].addr)
    ELSE UNCHANGED pool

\* The call is over.  NewNode is done when its Reset succeeded and fails with
\* it; a command of the CLI ends with its call.
Return(g) ==
    /\ At(g, "return")
    /\ IF g = Main /\ (phase = "cli" \/ (phase = "starting" /\ call[g].result = "err"))
       THEN Exit("exited")
       ELSE /\ Release(g)
            /\ call' = [call EXCEPT ![g] = NoCall]
            /\ tx' = [tx EXCEPT ![g] = FALSE]
            /\ phase' = IF g = Main /\ phase = "starting" THEN "running" ELSE phase
            /\ UNCHANGED <<svcVars, calls>>

-----------------------------------------------------------------------------
(* The node shuts down.                                                    *)

Step(from, to) ==
    /\ phase = from
    /\ phase' = to
    /\ UNCHANGED <<pool, svcVars, call, tx, calls>>

\* Mutant of MonitorShutdown: it watches the signals before NewNode is done.
MonitorShutdownEarly == Step("starting", "stopping") \/ Step("running", "stopping")

\* A signal or the trigger channel; node.Stop begins.
MonitorShutdown == Step("running", "stopping")

\* The stop functions before the chain's, and the listener's, with which the
\* chain's begins.  The first one that fails ends node.Stop: the error is
\* logged and the process exits.
StopOthers ==
    \/ Step("stopping", "stopChan")
    \/ phase = "stopping" /\ Exit("exited")

\* One value on the unbuffered stopChan: one loop at its select takes it.
StopLoop(c) ==
    /\ LoopAt(c, "select")
    /\ phase = "stopChan"
    /\ phase' = "closing"
    /\ loop' = [loop EXCEPT ![c].pc = "stopped"]
    /\ UNCHANGED <<pool, chans, made, queue, closed, call, tx, calls>>

\* The channels of the map are closed; one that lost its place is not.
CloseChans ==
    /\ phase = "closing"
    /\ closed' = {chans[a] : a \in Address} \ {0}
    /\ phase' = "notify"
    /\ UNCHANGED <<pool, chans, made, queue, loop, call, tx, calls>>

\* The last stop function closes the notification channels of the node, the
\* shutdown channel is closed and main returns.
ExitNode == phase = "notify" /\ Exit("exited")

-----------------------------------------------------------------------------
CallStep(g) ==
    \/ Lookup(g) \/ MakeChan(g) \/ WakeAndSend(g) \/ SendBlocked(g) \/ Return(g)

LoopStep(c) == TakeJob(c) \/ TakeZeroJob(c) \/ Broadcast(c)

StopStep == StopOthers \/ CloseChans \/ ExitNode

Next ==
    \/ \E g \in Goroutine : BeginCall(g) \/ CallStep(g)
    \/ ConcurrentMapWrites
    \/ \E c \in Channel : LoopStep(c) \/ StopLoop(c)
    \/ MonitorShutdown
    \/ StopStep

\* Goroutines that can run do, the chain answers, and a loop at its select
\* takes the stop signal when it has nothing else to take.  A behaviour has
\* at most MaxCalls calls, so that fairness to the callers as a whole, and to
\* the loops as a whole, is enough.
Fairness ==
    /\ WF_vars(\E g \in Goroutine : CallStep(g))
    /\ WF_vars(\E c \in Channel : LoopStep(c))
    /\ WF_vars(\E c \in Channel : StopLoop(c))
    /\ WF_vars(StopStep)

Spec == Init /\ [][Next]_vars /\ Fairness

-----------------------------------------------------------------------------
(* Properties.                                                             *)

\* The type of the state of the chain service (chain.go, tx_addr_pool.go).
TypeOK ==
    /\ phase \in {"cli", "starting", "running", "stopping", "stopChan",
                  "closing", "notify", "exited", "panicked"}
    /\ DOMAIN pool \subseteq PoolAddress
    /\ \A a \in DOMAIN pool : pool[a] \in {"Available", "InUse"}
    /\ chans \in [Address -> 0 .. MaxCalls]
    /\ made \in 0 .. MaxCalls
    /\ \A c \in Channel : queue[c] = << >> \/ \E g \in Goroutine : queue[c] = <<g>>
    /\ closed \subseteq Channel
    /\ loop \in [Channel -> [pc : {"none", "select", "broadcast", "stuck", "stopped"},
                             job : Goroutine]]
    /\ call \in [Goroutine ->
                    [pc : {"idle", "lookup", "make", "sleep", "blocked", "wait", "return"},
                     addr : Address \cup {NoAddress}, ch : 0 .. MaxCalls, decode : BOOLEAN,
                     result : {"none", "err", "ok"}]]
    /\ tx \in [Goroutine -> BOOLEAN]
    /\ calls \in 0 .. MaxCalls

\* Goroutine g is between GetRandomAddress and its deferred function, with
\* an address that is its own to give back.
Holds(g, a) == call[g].pc # "idle" /\ call[g].addr = a /\ a # Node

\* tx_addr_pool.go: two calls never sign with the same address of the pool
\* at the same time, and an address a call holds is marked as in use until
\* the call gives it back, on whichever path the call returns.
AddressIsExclusive ==
    \A a \in DOMAIN pool \ {Node} :
        /\ \A g, h \in Goroutine : Holds(g, a) /\ Holds(h, a) => g = h
        /\ pool[a] = "InUse" <=> \E g \in Goroutine : Holds(g, a)

\* order.go and the other callers: a method that reports success had its own
\* message run by the chain, with code 0, although results come back through
\* a loop that serves several callers.
SuccessIsOnChain ==
    \A g \in Goroutine : call[g].pc = "return" /\ call[g].result = "ok" => tx[g]

\* Where the job of a goroutine is: in the buffer of a channel, or in a loop.
Places(g) ==
    {<<"queue", c>> : c \in {d \in Channel : queue[d] = <<g>>}}
    \cup {<<"loop", c>> : c \in {d \in Channel : loop[d].pc = "broadcast" /\ loop[d].job = g}}

\* A job is in one place: a caller that waits for its result has exactly one
\* job in a channel or in a loop, and no other caller has one.  So no result
\* is lost and none comes twice (chain.go, broadcastMsg and broadcastLoop).
OneJobPerCall ==
    \A g \in Goroutine :
        /\ \A p, q \in Places(g) : p = q
        /\ Places(g) # {} <=> call[g].pc = "wait"

\* chain.go, broadcastMsg and broadcastLoop: although the channel map is not
\* locked and two loops may come to serve one signer, a transaction signed by
\* an address of the pool never meets another one of the same signer, in a
\* loop or in a channel: their sequence numbers cannot clash.
OneTxPerPoolAddress ==
    \A a \in DOMAIN pool \ {Node} : \A g, h \in Goroutine :
        (call[g].addr = a /\ call[h].addr = a) =>
            \A p \in Places(g), q \in Places(h) : p = q

InUse(a) == a \in DOMAIN pool /\ pool[a] = "InUse"

\* The node is being stopped, or is gone.
ShuttingDown ==
    phase \in {"stopping", "stopChan", "closing", "notify", "exited", "panicked"}

\* order.go and tx_addr_pool.go: an address that was handed out comes back to
\* the pool, unless the node is being stopped.  (The node's own address, when
\* it is in the pool, is not given back: the deferred function skips it.)
AddressComesBack ==
    \A a \in PoolAddress \ {Node} : InUse(a) ~> (ShuttingDown \/ ~InUse(a))

\* node.Stop, ChainSvc.Stop and MonitorShutdown: a shutdown ends.  The one
\* value Stop sends on stopChan always finds a loop, because NewNode has
\* broadcast its Reset before anyone can stop the node.
ShutdownEnds == ShuttingDown ~> Exited
=============================================================================
