------------------------------ MODULE Migrate ------------------------------
(***************************************************************************)
(* Migration of shards from one storage node to another                    *)
(* (storage_service.go): Migrate, an RPC of the old provider, asks the     *)
(* chain to move the shards of some data, keeps a MigrateInfo record per   *)
(* data id and hands one request per order to processMigrateLoop over an   *)
(* unbuffered channel; processMigrate sends the content to the new         *)
(* provider, whose HandleShardMigrate stores it and completes the shard on *)
(* chain.  Records are saved with the steps of StateStore.                 *)
(***************************************************************************)
EXTENDS StateStore

CONSTANTS
    Order,          \* the orders on chain
    Layout,         \* which orders the data may have
    NoData,         \* the empty data id
    Rpc, Loop       \* the goroutines: calls of Migrate, processMigrateLoop

\* The empty data id is the one of a zero MigrateInfo.
DataId == Key \ {NoData}

ASSUME MigrateAssumption ==
    /\ NoData \in Key
    /\ Goroutine = Rpc \cup {Loop} /\ Loop \notin Rpc
    /\ Layout \subseteq [DataId -> Seq(Order)]
    /\ \A l \in Layout : \A o \in Order :
           \E d \in DataId : \A e \in DataId : o \in Range(l[e]) <=> d = e
    /\ {[state |-> st, order |-> o] :
           st \in {"txsent", "complete"}, o \in Order \cup {None}} \subseteq Val

(* A MigrateInfo: its state and the order it names. *)
Info(state, o) == [state |-> state, order |-> o]

VARIABLES
    orders,    \* Metadata.Orders of each data id on chain (external)
    shard,     \* shard[o]: status of the order's shard on chain (external)
    rpc,       \* rpc[r]: where a call of Migrate is
    loop,      \* processMigrateLoop
    handler,   \* handler[o]: HandleShardMigrate at the new provider
    content    \* the orders whose content the new provider has stored

migrateVars == <<orders, shard, rpc, loop, handler, content>>
vars == <<storeVars, migrateVars>>

notRpc == <<orders, shard, loop, handler, content>>
notLoop == <<orders, shard, rpc, content>>

DataOf(o) == CHOOSE d \in DataId : o \in Range(orders[d])

NoCall == [pc |-> "none", todo |-> {}, data |-> None, orders |-> <<>>]
Receiving == [pc |-> "recv", order |-> None]

Init ==
    /\ StoreInit
    /\ orders \in Layout
    /\ shard = [o \in Order |-> "held"]
    /\ rpc = [r \in Rpc |-> NoCall]
    /\ loop = Receiving
    /\ handler = [o \in Order |-> "none"]
    /\ content = {}

-----------------------------------------------------------------------------
(* Migrate *)

(* MigrateOrder: the chain moves every shard of these data that the node   *)
(* holds, and reports SUCCESS for the data where there was one.            *)
SendMigrateTx(r, ds) ==
    /\ rpc[r].pc = "none"
    /\ LET moved == {o \in Order : shard[o] = "held" /\ DataOf(o) \in ds} IN
       /\ shard' = [o \in Order |-> IF o \in moved THEN "migrating" ELSE shard[o]]
       /\ rpc' = [rpc EXCEPT ![r] =
                     [NoCall EXCEPT !.pc = "next",
                                    !.todo = {DataOf(o) : o \in moved}]]
    /\ UNCHANGED <<storeVars, orders, loop, handler, content>>

(* MigrateOrder returns an error and no results. *)
MigrateTxFails(r) ==
    /\ rpc[r].pc = "none"
    /\ rpc' = [rpc EXCEPT ![r].pc = "returned"]
    /\ UNCHANGED <<storeVars, notRpc>>

(* The next entry of the results: the job is saved before its orders are   *)
(* looked up.                                                              *)
NextData(r, d) ==
    /\ rpc[r].pc = "next" /\ d \in rpc[r].todo
    /\ SaveMigrate(r, d, Info("txsent", None))
    /\ rpc' = [rpc EXCEPT ![r].pc = "savejob", ![r].data = d,
                          ![r].todo = @ \ {d}]
    /\ UNCHANGED notRpc

(* An error of SaveMigrate is logged. *)
JobSaved(r) ==
    /\ rpc[r].pc = "savejob"
    /\ SaveReturns(r)
    /\ rpc' = [rpc EXCEPT ![r].pc = "meta"]
    /\ UNCHANGED notRpc

GetMeta(r) ==
    /\ rpc[r].pc = "meta"
    /\ rpc' = [rpc EXCEPT ![r].pc = "order", ![r].orders = orders[rpc[r].data]]
    /\ UNCHANGED <<storeVars, notRpc>>

(* An error of GetMeta or GetOrder is logged, and the nil result is used.  *)
MigratePanics(r) ==
    /\ rpc[r].pc = "meta" \/ (rpc[r].pc = "order" /\ rpc[r].orders # <<>>)
    /\ rpc' = [rpc EXCEPT ![r].pc = "panic"]
    /\ UNCHANGED <<storeVars, notRpc>>

(* An order whose shard is not being moved away from this node. *)
SkipOrder(r) ==
    /\ rpc[r].pc = "order" /\ rpc[r].orders # <<>>
    /\ shard[Head(rpc[r].orders)] # "migrating"
    /\ rpc' = [rpc EXCEPT ![r].orders = Tail(@)]
    /\ UNCHANGED <<storeVars, notRpc>>

NextOrder(r) ==
    /\ rpc[r].pc = "order" /\ rpc[r].orders # <<>>
    /\ shard[Head(rpc[r].orders)] = "migrating"
    /\ SaveMigrate(r, rpc[r].data, Info("txsent", Head(rpc[r].orders)))
    /\ rpc' = [rpc EXCEPT ![r].pc = "saveorder"]
    /\ UNCHANGED notRpc

OrderSaved(r) ==
    /\ rpc[r].pc = "saveorder"
    /\ SaveReturns(r)
    /\ rpc' = [rpc EXCEPT ![r].pc = "send"]
    /\ UNCHANGED notRpc

(* Mutant of SendRequest: the record is saved after the request is sent.   *)
SendRequestThenSave(r) ==
    /\ rpc[r].pc = "send" /\ loop.pc = "recv"
    /\ loop' = [pc |-> "fetch", order |-> Head(rpc[r].orders)]
    /\ SaveMigrate(r, rpc[r].data, Info("txsent", Head(rpc[r].orders)))
    /\ rpc' = [rpc EXCEPT ![r].pc = "savejob"]
    /\ UNCHANGED <<orders, shard, handler, content>>
(* The send on migrateChan waits for processMigrateLoop. *)
SendRequest(r) ==
    /\ rpc[r].pc = "send" /\ loop.pc = "recv"
    /\ loop' = [pc |-> "fetch", order |-> Head(rpc[r].orders)]
    /\ rpc' = [rpc EXCEPT ![r].pc = "order", ![r].orders = Tail(@)]
    /\ UNCHANGED <<storeVars, orders, shard, handler, content>>

DataDone(r) ==
    /\ rpc[r].pc = "order" /\ rpc[r].orders = <<>>
    /\ rpc' = [rpc EXCEPT ![r].pc = "next"]
    /\ UNCHANGED <<storeVars, notRpc>>

MigrateReturns(r) ==
    /\ rpc[r].pc = "next" /\ rpc[r].todo = {}
    /\ rpc' = [rpc EXCEPT ![r].pc = "returned"]
    /\ UNCHANGED <<storeVars, notRpc>>

-----------------------------------------------------------------------------
(* processMigrate *)

(* Content and peer are found. *)
Fetch ==
    /\ loop.pc = "fetch"
    /\ loop' = [loop EXCEPT !.pc = "request"]
    /\ UNCHANGED <<storeVars, notLoop, handler>>

RequestShardMigrate ==
    /\ loop.pc = "request" /\ handler[loop.order] = "none"
    /\ handler' = [handler EXCEPT ![loop.order] = "check"]
    /\ loop' = [loop EXCEPT !.pc = "wait"]
    /\ UNCHANGED <<storeVars, notLoop>>

Response ==
    /\ loop.pc = "wait" /\ handler[loop.order] = "done"
    /\ loop' = [loop EXCEPT !.pc = "check"]
    /\ UNCHANGED <<storeVars, notLoop, handler>>

(* GetTx of the complete transaction, and the shard as the chain has it.   *)
CheckMigrated(o) == shard[o] = "completed"

(* Mutant of CompleteMigrate: the record is completed when the request is sent. *)
CompleteMigrateEarly ==
    LET d == DataOf(loop.order) IN
    /\ loop.pc = "wait"
    /\ record["migrate"][d] # None
    /\ SaveMigrate(Loop, d, [record["migrate"][d] EXCEPT !.state = "complete"])
    /\ loop' = [loop EXCEPT !.pc = "save"]
    /\ UNCHANGED <<notLoop, handler>>
(* GetMigrate, then SaveMigrate of what it returned.  When Migrate could   *)
(* not save the record that is a zero one, whose data id is empty.         *)
CompleteMigrate ==
    LET d == DataOf(loop.order) IN
    /\ loop.pc = "check" /\ CheckMigrated(loop.order)
    /\ SaveMigrate(Loop, IF record["migrate"][d] = None THEN NoData ELSE d,
                   [Get("migrate", d, Info("", None)) EXCEPT !.state = "complete"])
    /\ loop' = [loop EXCEPT !.pc = "save"]
    /\ UNCHANGED <<notLoop, handler>>

MigrateSaved ==
    /\ loop.pc = "save"
    /\ SaveReturns(Loop)
    /\ loop' = Receiving
    /\ UNCHANGED <<notLoop, handler>>

(* Mutant of ProcessFails: the response is awaited without a deadline.     *)
ProcessFailsNoDeadline ==
    /\ loop.pc \in {"fetch", "request", "check"}
    /\ loop' = Receiving
    /\ UNCHANGED <<storeVars, notLoop, handler>>
(* Any of its steps fails, or the response is an error or does not come:   *)
(* the request is gone.                                                    *)
ProcessFails ==
    /\ loop.pc \in {"fetch", "request", "wait", "check"}
    /\ loop' = Receiving
    /\ UNCHANGED <<storeVars, notLoop, handler>>

(* The context ends. *)
StopLoop ==
    /\ loop.pc = "recv"
    /\ loop' = [loop EXCEPT !.pc = "stopped"]
    /\ UNCHANGED <<storeVars, notLoop, handler>>

-----------------------------------------------------------------------------
(* HandleShardMigrate at the new provider *)
At(o, pc) == handler[o] = pc /\ UNCHANGED <<storeVars, orders, rpc, loop>>

(* Mutant of CheckRequest: the content is not stored first.                *)
CheckRequestOnly(o) ==
    /\ At(o, "check") /\ shard[o] = "migrating"
    /\ handler' = [handler EXCEPT ![o] = "complete"]
    /\ UNCHANGED <<shard, content>>
(* The transaction, the data id and the shard are checked. *)
CheckRequest(o) ==
    /\ At(o, "check") /\ shard[o] = "migrating"
    /\ handler' = [handler EXCEPT ![o] = "store"]
    /\ UNCHANGED <<shard, content>>

StoreContent(o) ==
    /\ At(o, "store")
    /\ content' = content \cup {o}
    /\ handler' = [handler EXCEPT ![o] = "complete"]
    /\ UNCHANGED shard

(* CompleteOrder; the transaction may succeed without the sender knowing. *)
CompleteOrder(o) ==
    /\ At(o, "complete") /\ shard[o] = "migrating"
    /\ shard' = [shard EXCEPT ![o] = "completed"]
    /\ \E pc \in {"done", "failed"} : handler' = [handler EXCEPT ![o] = pc]
    /\ UNCHANGED content

HandlerFails(o) ==
    /\ \E pc \in {"check", "store", "complete"} : At(o, pc)
    /\ handler' = [handler EXCEPT ![o] = "failed"]
    /\ UNCHANGED <<shard, content>>

-----------------------------------------------------------------------------
(* The old provider stops and starts again: nothing resumes a migration. *)
Crash ==
    /\ StoreCrash
    /\ rpc' = [r \in Rpc |-> NoCall]
    /\ loop' = Receiving
    /\ UNCHANGED <<orders, shard, handler, content>>

RpcStep(r) ==
    \/ \E d \in DataId : NextData(r, d)
    \/ JobSaved(r) \/ GetMeta(r) \/ SkipOrder(r) \/ NextOrder(r)
    \/ OrderSaved(r) \/ SendRequest(r) \/ DataDone(r) \/ MigrateReturns(r)
    \/ StoreStep(r) /\ UNCHANGED migrateVars

LoopStep ==
    \/ Fetch \/ RequestShardMigrate \/ Response \/ CompleteMigrate
    \/ MigrateSaved \/ ProcessFails
    \/ StoreStep(Loop) /\ UNCHANGED migrateVars

HandlerStep(o) ==
    \/ CheckRequest(o) \/ StoreContent(o) \/ CompleteOrder(o)
    \/ HandlerFails(o)

Next ==
    \/ \E r \in Rpc :
           \/ \E ds \in SUBSET DataId \ {{}} : SendMigrateTx(r, ds)
           \/ MigrateTxFails(r) \/ MigratePanics(r) \/ RpcStep(r)
    \/ LoopStep \/ StopLoop
    \/ \E g \in Goroutine : SaveFails(g) /\ UNCHANGED migrateVars
    \/ \E o \in Order : HandlerStep(o)
    \/ Crash

(* Goroutines that can take a step take it; nothing is assumed of the new  *)
(* provider.                                                               *)
Fairness == (\A r \in Rpc : WF_vars(RpcStep(r))) /\ WF_vars(LoopStep)

Spec == Init /\ [][Next]_vars /\ Fairness

-----------------------------------------------------------------------------
(* A call of Migrate, and the loop. *)
CallState ==
    [pc : {"none", "next", "savejob", "meta", "order", "saveorder", "send",
           "returned", "panic"},
     todo : SUBSET DataId, data : DataId \cup {None}, orders : Seq(Order)]
LoopState ==
    [pc : {"recv", "fetch", "request", "wait", "check", "save", "stopped"},
     order : Order \cup {None}]

(* What is not of the store keeps its type. *)
MigrateTypeOK ==
    /\ orders \in Layout
    /\ shard \in [Order -> {"held", "migrating", "completed"}]
    /\ rpc \in [Rpc -> CallState]
    /\ loop \in LoopState
    /\ handler \in [Order -> {"none", "check", "store", "complete", "done",
                              "failed"}]
    /\ content \subseteq Order

(* The variables keep their types. *)
TypeOK == StoreTypeOK /\ MigrateTypeOK

(* A shard the chain counts as moved is stored by its new provider:        *)
(* HandleShardMigrate stores before it sends the transaction, whatever     *)
(* crashes or fails on the way.                                            *)
MigratedIsStored == \A o \in Order : shard[o] = "completed" => o \in content

(* A MigrateInfo in state Complete belongs to data of which the chain has  *)
(* moved an order.                                                         *)
CompleteIsMigrated ==
    \A d \in DataId :
        LET mi == record["migrate"][d] IN
        mi # None /\ mi.state = "complete" =>
            \E o \in Range(orders[d]) : shard[o] = "completed"

(* MigrateInfo is not set back from Complete to TxSent when the data has   *)
(* one order.  (With several orders it is: they share the record.)         *)
CompleteIsFinal ==
    [][\A d \in DataId :
          LET mi == record["migrate"][d] IN
          mi # None /\ mi.state = "complete" /\ Len(orders[d]) = 1 =>
              record'["migrate"][d].state = "complete"]_vars

(* Every call of Migrate returns, although it hands its requests over an   *)
(* unbuffered channel; only when the loop has been stopped may it wait     *)
(* forever.                                                                *)
MigrateEnds ==
    \A r \in Rpc :
        rpc[r].pc = "next" ~> \/ rpc[r].pc \in {"none", "returned", "panic"}
                             \/ loop.pc = "stopped"
=============================================================================
