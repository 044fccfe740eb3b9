------------------------------ MODULE Gateway ------------------------------
(***************************************************************************)
(* The order pipeline of a gateway (node/gateway/gateway_service.go and    *)
(* stage.go): CommitModel stages the content, sends the order to the chain *)
(* and queues it; process() asks the chosen providers to store it;         *)
(* HandleShardComplete records completions and drops the staged content;   *)
(* checkTimeout queues an order again when its deadline passes.            *)
(*                                                                         *)
(* OrderInfo is saved under its data id, but locked under its order id;    *)
(* CommitModel takes no order lock; process() saves the copy it was queued *)
(* with.  Every await is a step.  The gateway may crash at any point: the  *)
(* datastore and the staging directory survive.  An element of Order is    *)
(* one client proposal: its content, and the chain order it becomes.       *)
(***************************************************************************)
EXTENDS Naturals, FiniteSets

CONSTANTS
    Order,         \* client proposals
    DataId,        \* data models
    DataOf,        \* the data model a proposal creates or updates
    Sp,            \* storage providers
    Task,          \* work requests that may exist at a time (bound)
    MaxHeight,     \* last block height (bound)
    TIMEOUT,       \* order.Timeout, in blocks
    MAX_RETRIES,   \* gateway_service.go line 39
    TxFails,       \* TRUE: a transaction may fail, or seem to
    QueryFails,    \* TRUE: a query of the chain may fail
    None           \* no order id (0), no record, no holder

ASSUME GatewayAssumption ==
    /\ DataOf \in [Order -> DataId]
    /\ MaxHeight \in Nat \ {0}
    /\ TIMEOUT \in Nat \ {0}
    /\ MAX_RETRIES \in Nat \ {0}
    /\ TxFails \in BOOLEAN
    /\ QueryFails \in BOOLEAN
    /\ None \notin Order /\ None \notin Nat

VARIABLES
    height,        \* chain: the last block
    created,       \* chain: CreatedAt of each order, or None
    shard,         \* chain: order.Shards, status by provider
    asked,         \* storage nodes: assignments they work on
    notices,       \* network: ShardCompleteReq on their way
    ds,            \* datastore: OrderInfo by data id
    staged,        \* staging directory: contents (file <cid>-<data id>)
    up,            \* the gateway runs
    commit,        \* of each proposal: the next step of CommitModel
    info,          \* of each proposal: the local orderInfo of CommitModel
    pc,            \* of each task: not in use, in schedQueue, or in process()
    job,           \* of each task: WorkRequest.Order, a copy of a record
    handler,       \* of each (order, provider): the next step of HandleShardComplete
    seen,          \* ... its allShardsCompleted(order), read before the lock
    copy,          \* ... its orderInfo, read under the lock
    lock,          \* holder of "lk-order-<id>"
    timeoutMap,    \* timeoutMap, as a set of entries
    latestHeight,  \* checkTimeout: the height it has reached
    due,           \* checkTimeout: entries of that height still to be handled
    unscanned,     \* data ids processIncompleteOrders has not looked at yet
    unrestored     \* data ids checkTimeout has not restored yet

chainVars == <<height, created, shard>>
netVars == <<asked, notices>>
diskVars == <<ds, staged>>
commitVars == <<commit, info>>
taskVars == <<pc, job>>
handlerVars == <<handler, seen, copy>>
timerVars == <<timeoutMap, latestHeight, due>>
startVars == <<up, unscanned, unrestored>>
vars == <<chainVars, netVars, diskVars, commitVars, taskVars, handlerVars, lock, timerVars, startVars>>

OrderState == {"staged", "ready", "complete", "terminate", "expired"}

(* shards: "assigned" stands for every state but "completed".              *)
OrderInfo ==
    [order : Order \cup {None}, cid : Order, state : OrderState, tries : 0 .. MAX_RETRIES,
     expire : Nat, shards : [Sp -> {"none", "assigned", "completed"}]]

ASSUME NoneAssumption == None \notin OrderInfo

Entry == [at : Nat, order : Order, cid : Order, expire : Nat]

TypeOK ==
    /\ height \in 1 .. MaxHeight
    /\ created \in [Order -> (1 .. MaxHeight) \cup {None}]
    /\ shard \in [Order -> [Sp -> {"none", "waiting", "completed", "timeout"}]]
    /\ asked \subseteq Order \X Sp
    /\ notices \subseteq Order \X Sp
    /\ ds \in [DataId -> OrderInfo \cup {None}]
    /\ staged \subseteq Order
    /\ up \in BOOLEAN
    /\ commit \in [Order -> {"new", "send", "ready", "push", "watch", "returned"}]
    /\ info \in [Order -> OrderInfo \cup {None}]
    /\ pc \in [Task -> {"free", "queued", "save"}]
    /\ job \in [Task -> OrderInfo \cup {None}]
    /\ handler \in [Order \X Sp -> {"idle", "lock", "save", "unstage"}]
    /\ seen \in [Order \X Sp -> BOOLEAN]
    /\ copy \in [Order \X Sp -> OrderInfo \cup {None}]
    /\ lock \in [Order \cup {None} -> Task \cup (Order \X Sp) \cup {None}]
    /\ timeoutMap \subseteq Entry
    /\ latestHeight \in 0 .. MaxHeight
    /\ due \subseteq Entry
    /\ unscanned \subseteq DataId
    /\ unrestored \subseteq DataId

Init ==
    /\ height = 1
    /\ created = [o \in Order |-> None]
    /\ shard = [o \in Order |-> [p \in Sp |-> "none"]]
    /\ asked = {} /\ notices = {}
    /\ ds = [d \in DataId |-> None]
    /\ staged = {}
    /\ up = TRUE
    /\ commit = [o \in Order |-> "new"]
    /\ info = [o \in Order |-> None]
    /\ pc = [t \in Task |-> "free"]
    /\ job = [t \in Task |-> None]
    /\ handler = [h \in Order \X Sp |-> "idle"]
    /\ seen = [h \in Order \X Sp |-> FALSE]
    /\ copy = [h \in Order \X Sp |-> None]
    /\ lock = [o \in Order \cup {None} |-> None]
    /\ timeoutMap = {} /\ latestHeight = 0 /\ due = {}
    /\ unscanned = {} /\ unrestored = {}

-----------------------------------------------------------------------------
(* Chain and storage nodes, as the gateway sees them (external).           *)

Providers(o) == {p \in Sp : shard[o][p] # "none"}

allShardsCompleted(o) == \A p \in Providers(o) : shard[o][p] = "completed"

(* An order times out after a day of blocks (docs/api.md: 86400); a commit *)
(* takes seconds.  Without this the model's short TIMEOUT would let a      *)
(* commit outlive its own order's deadline.                                *)
CommitIsPrompt ==
    \A o \in Order : up /\ commit[o] \in {"ready", "push", "watch"} => height + 1 < created[o] + TIMEOUT

NewBlock ==
    /\ height < MaxHeight
    /\ CommitIsPrompt
    /\ height' = height + 1
    /\ UNCHANGED <<created, shard, netVars, diskVars, commitVars, taskVars, handlerVars, lock, timerVars, startVars>>

(* The order timed out with p: the chain picks another provider q.         *)
Reassign(o, p, q) ==
    /\ shard[o][p] = "waiting" /\ shard[o][q] = "none"
    /\ height >= created[o] + TIMEOUT
    /\ shard' = [shard EXCEPT ![o][p] = "timeout", ![o][q] = "waiting"]
    /\ UNCHANGED <<height, created, netVars, diskVars, commitVars, taskVars, handlerVars, lock, timerVars, startVars>>

(* The timed out shard leaves the order.                                   *)
DropTimedOut(o, p) ==
    /\ shard[o][p] = "timeout"
    /\ shard' = [shard EXCEPT ![o][p] = "none"]
    /\ UNCHANGED <<height, created, netVars, diskVars, commitVars, taskVars, handlerVars, lock, timerVars, startVars>>

(* A storage node fetches the staged content (HandleShardStore), stores it *)
(* and completes the shard on chain; a node that has done so before only   *)
(* notifies again.  See module Storage.                                    *)
NodeCompletes(o, p) ==
    /\ <<o, p>> \in asked
    /\ \/ up /\ o \in staged /\ shard[o][p] = "waiting"
       \/ shard[o][p] = "completed"
    /\ shard' = [shard EXCEPT ![o][p] = "completed"]
    /\ asked' = asked \ {<<o, p>>}
    /\ notices' = notices \cup {<<o, p>>}
    /\ UNCHANGED <<height, created, diskVars, commitVars, taskVars, handlerVars, lock, timerVars, startVars>>

NodeGivesUp(o, p) ==
    /\ <<o, p>> \in asked
    /\ asked' = asked \ {<<o, p>>}
    /\ UNCHANGED <<chainVars, notices, diskVars, commitVars, taskVars, handlerVars, lock, timerVars, startVars>>

LoseNotice(o, p) ==
    /\ <<o, p>> \in notices
    /\ notices' = notices \ {<<o, p>>}
    /\ UNCHANGED <<chainVars, asked, diskVars, commitVars, taskVars, handlerVars, lock, timerVars, startVars>>

-----------------------------------------------------------------------------
(* schedQueue.Push(&WorkRequest{Order: j})                                 *)
Push(t, j) ==
    /\ pc[t] = "free"
    /\ pc' = [pc EXCEPT ![t] = "queued"]
    /\ job' = [job EXCEPT ![t] = j]

Done(t) ==
    /\ pc' = [pc EXCEPT ![t] = "free"]
    /\ job' = [job EXCEPT ![t] = None]

(* utils.SaveOrder: the key is the data id.                                *)
SaveOrder(j) == ds' = [ds EXCEPT ![DataOf[j.cid]] = j]

-----------------------------------------------------------------------------
(* CommitModel                                                             *)

(* Lines 684-714: stage the content, save the record.                      *)
StageShard(o) ==
    /\ up
    /\ commit[o] = "new"
    /\ staged' = staged \cup {o}
    /\ info' = [info EXCEPT ![o] = [order |-> None, cid |-> o, state |-> "staged", tries |-> 0,
                                    expire |-> 0, shards |-> [p \in Sp |-> "none"]]]
    /\ SaveOrder(info'[o])
    /\ commit' = [commit EXCEPT ![o] = "send"]
    /\ UNCHANGED <<chainVars, netVars, taskVars, handlerVars, lock, timerVars, startVars>>

(* The chain executes the transaction (external).                          *)
ChainStores(o, chosen) ==
    /\ created' = [created EXCEPT ![o] = height]
    /\ shard' = [shard EXCEPT ![o] = [p \in Sp |-> IF p \in chosen THEN "waiting" ELSE "none"]]

(* Lines 739, 751: the transaction creates the order and picks providers.  *)
(* An error ends CommitModel, whether or not the chain executed it.        *)
SendOrder(o, chosen) ==
    /\ up
    /\ commit[o] = "send"
    /\ \/ /\ ChainStores(o, chosen)
          /\ info' = [info EXCEPT ![o].shards = [p \in Sp |-> IF p \in chosen THEN "assigned" ELSE "none"],
                                  ![o].order = o]
          /\ commit' = [commit EXCEPT ![o] = "ready"]
       \/ /\ TxFails
          /\ ChainStores(o, chosen) \/ UNCHANGED <<created, shard>>
          /\ info' = [info EXCEPT ![o] = None]
          /\ commit' = [commit EXCEPT ![o] = "returned"]
    /\ UNCHANGED <<height, netVars, diskVars, taskVars, handlerVars, lock, timerVars, startVars>>

(* Lines 765-786: the deadline stays 0 when GetOrder fails.                *)
SaveReady(o) ==
    /\ up
    /\ commit[o] = "ready"
    /\ \E expire \in {created[o] + TIMEOUT} \cup (IF QueryFails THEN {0} ELSE {}) :
         info' = [info EXCEPT ![o].state = "ready", ![o].expire = expire]
    /\ SaveOrder(info'[o])
    /\ commit' = [commit EXCEPT ![o] = "push"]
    /\ UNCHANGED <<chainVars, netVars, staged, taskVars, handlerVars, lock, timerVars, startVars>>

PushOrder(t, o) ==
    /\ up
    /\ commit[o] = "push"
    /\ Push(t, info[o])
    /\ commit' = [commit EXCEPT ![o] = "watch"]
    /\ UNCHANGED <<chainVars, netVars, diskVars, info, handlerVars, lock, timerVars, startVars>>

(* Mutant of WatchTimeout: the deadline is not registered.                 *)
WatchTimeoutForgotten(o) ==
    /\ up
    /\ commit[o] = "watch"
    /\ commit' = [commit EXCEPT ![o] = "returned"]
    /\ info' = [info EXCEPT ![o] = None]
    /\ UNCHANGED <<chainVars, netVars, diskVars, taskVars, handlerVars, lock, timerVars, startVars>>

(* Lines 791-820                                                           *)
WatchTimeout(o) ==
    /\ up
    /\ commit[o] = "watch"
    /\ timeoutMap' = timeoutMap \cup
         {[at |-> info[o].expire, order |-> o, cid |-> o, expire |-> info[o].expire]}
    /\ commit' = [commit EXCEPT ![o] = "returned"]
    /\ info' = [info EXCEPT ![o] = None]
    /\ UNCHANGED <<chainVars, netVars, diskVars, taskVars, handlerVars, lock, latestHeight, due, startVars>>

-----------------------------------------------------------------------------
(* runSched and process(): the order lock is free when a task runs, and is *)
(* held across the assignment requests.                                    *)

CanRun(t) ==
    /\ up
    /\ pc[t] = "queued"
    /\ lock[job[t].order] = None

Attempt(t) == [job[t] EXCEPT !.tries = @ + 1]

(* Line 602                                                                *)
Exhausted(t) == job[t].tries + 1 >= MAX_RETRIES

Finished(t) == job[t].state \in {"terminate", "complete"}

(* Lines 588-597                                                           *)
Drop(t) ==
    /\ CanRun(t)
    /\ Finished(t)
    /\ Done(t)
    /\ UNCHANGED <<chainVars, netVars, diskVars, commitVars, handlerVars, lock, timerVars, startVars>>

(* Lines 602-612                                                           *)
Terminate(t) ==
    /\ CanRun(t)
    /\ ~Finished(t) /\ Exhausted(t)
    /\ SaveOrder([Attempt(t) EXCEPT !.state = "terminate"])
    /\ Done(t)
    /\ UNCHANGED <<chainVars, netVars, staged, commitVars, handlerVars, lock, timerVars, startVars>>

(* Lines 615-618: GetLastHeight fails and the task is queued again.        *)
HeightUnknown(t) ==
    /\ CanRun(t)
    /\ ~Finished(t) /\ ~Exhausted(t)
    /\ QueryFails /\ job[t].expire > 0
    /\ job' = [job EXCEPT ![t] = Attempt(t)]
    /\ UNCHANGED <<chainVars, netVars, diskVars, commitVars, pc, handlerVars, lock, timerVars, startVars>>

IsExpired(t) == job[t].expire > 0 /\ height > job[t].expire

(* Lines 620-630                                                           *)
Expire(t) ==
    /\ CanRun(t)
    /\ ~Finished(t) /\ ~Exhausted(t) /\ IsExpired(t)
    /\ SaveOrder([Attempt(t) EXCEPT !.state = "expired"])
    /\ Done(t)
    /\ UNCHANGED <<chainVars, netVars, staged, commitVars, handlerVars, lock, timerVars, startVars>>

(* Lines 633-664: the requests reach some of the providers that are not    *)
(* known to have completed.  The states set at 657 and 660 are set on a    *)
(* copy of the map's value and are lost.                                   *)
AssignShards(t, reached) ==
    /\ CanRun(t)
    /\ ~Finished(t) /\ ~Exhausted(t) /\ ~IsExpired(t)
    /\ job[t].state \in {"staged", "ready"}
    /\ reached \subseteq {p \in Sp : job[t].shards[p] = "assigned" /\ shard[job[t].order][p] # "none"}
    /\ asked' = asked \cup ({job[t].order} \X reached)
    /\ lock' = [lock EXCEPT ![job[t].order] = t]
    /\ pc' = [pc EXCEPT ![t] = "save"]
    /\ job' = [job EXCEPT ![t] = Attempt(t)]
    /\ UNCHANGED <<chainVars, notices, diskVars, commitVars, handlerVars, timerVars, startVars>>

(* Mutant of SaveAssigned: the lock is kept.                               *)
SaveAssignedKeepsLock(t) ==
    /\ up
    /\ pc[t] = "save"
    /\ SaveOrder(job[t])
    /\ Done(t)
    /\ UNCHANGED <<chainVars, netVars, staged, commitVars, handlerVars, lock, timerVars, startVars>>

(* Lines 667-681                                                           *)
SaveAssigned(t) ==
    /\ up
    /\ pc[t] = "save"
    /\ SaveOrder(job[t])
    /\ lock' = [lock EXCEPT ![job[t].order] = None]
    /\ Done(t)
    /\ UNCHANGED <<chainVars, netVars, staged, commitVars, handlerVars, timerVars, startVars>>

Process(t) ==
    \/ Drop(t)
    \/ Terminate(t)
    \/ HeightUnknown(t)
    \/ Expire(t)
    \/ \E reached \in SUBSET Sp : AssignShards(t, reached)
    \/ SaveAssigned(t)

-----------------------------------------------------------------------------
(* HandleShardComplete, for the notice of provider p about order o         *)

(* Lines 223-292: what the chain says of the order, before the lock.  The  *)
(* notice is refused when the order has no shard of p any more.            *)
CheckComplete(o, p) ==
    /\ up
    /\ <<o, p>> \in notices
    /\ handler[<<o, p>>] = "idle"
    /\ notices' = notices \ {<<o, p>>}
    /\ p \in Providers(o)
    /\ handler' = [handler EXCEPT ![<<o, p>>] = "lock"]
    /\ seen' = [seen EXCEPT ![<<o, p>>] = allShardsCompleted(o)]
    /\ UNCHANGED <<chainVars, asked, diskVars, commitVars, taskVars, copy, lock, timerVars, startVars>>

(* Lines 294-306                                                           *)
ReadOrder(o, p) ==
    /\ up
    /\ handler[<<o, p>>] = "lock"
    /\ lock[o] = None
    /\ lock' = [lock EXCEPT ![o] = <<o, p>>]
    /\ handler' = [handler EXCEPT ![<<o, p>>] = "save"]
    /\ copy' = [copy EXCEPT ![<<o, p>>] = ds[DataOf[o]]]
    /\ UNCHANGED <<chainVars, netVars, diskVars, commitVars, taskVars, seen, timerVars, startVars>>

(* Mutant of Completes: any notice completes the order.                    *)
CompletesUnchecked(o, p) == copy[<<o, p>>].state # "complete"

(* Line 312: the order was complete when the chain was asked.              *)
Completes(o, p) == copy[<<o, p>>].state # "complete" /\ seen[<<o, p>>]

(* Mutant of SaveComplete: the early return keeps the lock.                *)
SaveCompleteKeepsLock(o, p) ==
    /\ up
    /\ handler[<<o, p>>] = "save"
    /\ SaveOrder(IF Completes(o, p) THEN [copy[<<o, p>>] EXCEPT !.state = "complete"] ELSE copy[<<o, p>>])
    /\ handler' = [handler EXCEPT ![<<o, p>>] = IF Completes(o, p) THEN "unstage" ELSE "idle"]
    /\ UNCHANGED <<chainVars, netVars, staged, commitVars, taskVars, seen, copy, lock, timerVars, startVars>>

(* Lines 307-318                                                           *)
SaveComplete(o, p) ==
    /\ up
    /\ handler[<<o, p>>] = "save"
    /\ IF Completes(o, p)
       THEN /\ SaveOrder([copy[<<o, p>>] EXCEPT !.state = "complete"])
            /\ handler' = [handler EXCEPT ![<<o, p>>] = "unstage"]
            /\ UNCHANGED <<seen, copy, lock>>
       ELSE /\ SaveOrder(copy[<<o, p>>])
            /\ handler' = [handler EXCEPT ![<<o, p>>] = "idle"]
            /\ seen' = [seen EXCEPT ![<<o, p>>] = FALSE]
            /\ copy' = [copy EXCEPT ![<<o, p>>] = None]
            /\ lock' = [lock EXCEPT ![o] = None]
    /\ UNCHANGED <<chainVars, netVars, staged, commitVars, taskVars, timerVars, startVars>>

(* Lines 320-328: the content of the record that was read.                 *)
UnstageShard(o, p) ==
    /\ up
    /\ handler[<<o, p>>] = "unstage"
    /\ staged' = staged \ {copy[<<o, p>>].cid}
    /\ handler' = [handler EXCEPT ![<<o, p>>] = "idle"]
    /\ seen' = [seen EXCEPT ![<<o, p>>] = FALSE]
    /\ copy' = [copy EXCEPT ![<<o, p>>] = None]
    /\ lock' = [lock EXCEPT ![o] = None]
    /\ UNCHANGED <<chainVars, netVars, ds, commitVars, taskVars, timerVars, startVars>>

HandleShardComplete(o, p) ==
    \/ ReadOrder(o, p)
    \/ SaveComplete(o, p)
    \/ UnstageShard(o, p)

-----------------------------------------------------------------------------
(* checkTimeout.  An entry of a height the loop has passed is never read   *)
(* again (most are deleted at line 1032): the model drops it.              *)

(* Lines 970-982, 1027-1034                                                *)
NextHeight ==
    /\ up
    /\ unrestored = {} /\ due = {}
    /\ latestHeight < height
    /\ latestHeight' = latestHeight + 1
    /\ due' = {e \in timeoutMap : e.at = latestHeight + 1}
    /\ timeoutMap' = {e \in timeoutMap : e.at > latestHeight + 1}
    /\ UNCHANGED <<chainVars, netVars, diskVars, commitVars, taskVars, handlerVars, lock, startVars>>

(* Lines 987-994: the order is complete, or GetOrder failed.               *)
SkipDue(e) ==
    /\ up
    /\ e \in due
    /\ QueryFails \/ allShardsCompleted(e.order)
    /\ due' = due \ {e}
    /\ UNCHANGED <<chainVars, netVars, diskVars, commitVars, taskVars, handlerVars, lock, timeoutMap, latestHeight, startVars>>

(* Lines 996-1024; shards that timed out are left out.                     *)
Reschedule(t, e) ==
    LET expire == e.expire + TIMEOUT
        Status(p) == CASE shard[e.order][p] = "completed" -> "completed"
                       [] shard[e.order][p] = "waiting" -> "assigned"
                       [] OTHER -> "none"
    IN  /\ up
        /\ e \in due
        /\ ~allShardsCompleted(e.order)
        /\ Push(t, [order |-> e.order, cid |-> e.cid, state |-> "ready", tries |-> 0,
                    expire |-> expire, shards |-> [p \in Sp |-> Status(p)]])
        /\ timeoutMap' = timeoutMap \cup {[at |-> expire, order |-> e.order, cid |-> e.cid, expire |-> expire]}
        /\ due' = due \ {e}
        /\ UNCHANGED <<chainVars, netVars, diskVars, commitVars, handlerVars, lock, latestHeight, startVars>>

-----------------------------------------------------------------------------
(* The gateway stops at any moment; its memory is lost.                    *)
Crash ==
    /\ up
    /\ up' = FALSE
    /\ commit' = [o \in Order |-> IF commit[o] = "new" THEN "new" ELSE "returned"]
    /\ info' = [o \in Order |-> None]
    /\ pc' = [t \in Task |-> "free"]
    /\ job' = [t \in Task |-> None]
    /\ handler' = [h \in Order \X Sp |-> "idle"]
    /\ seen' = [h \in Order \X Sp |-> FALSE]
    /\ copy' = [h \in Order \X Sp |-> None]
    /\ lock' = [o \in Order \cup {None} |-> None]
    /\ timeoutMap' = {} /\ latestHeight' = 0 /\ due' = {}
    /\ unscanned' = {} /\ unrestored' = {}
    /\ UNCHANGED <<chainVars, netVars, diskVars>>

(* NewGatewaySvc                                                           *)
Restart ==
    /\ ~up
    /\ up' = TRUE
    /\ unscanned' = {d \in DataId : ds[d] # None}
    /\ unrestored' = {d \in DataId : ds[d] # None}
    /\ UNCHANGED <<chainVars, netVars, diskVars, commitVars, taskVars, handlerVars, lock, timerVars>>

(* processIncompleteOrders                                                 *)
ScanPending(t, d) ==
    /\ d \in unscanned
    /\ ds[d].state # "complete"
    /\ Push(t, ds[d])
    /\ unscanned' = unscanned \ {d}
    /\ UNCHANGED <<chainVars, netVars, diskVars, commitVars, handlerVars, lock, timerVars, up, unrestored>>

ScanComplete(d) ==
    /\ d \in unscanned
    /\ ds[d].state = "complete"
    /\ unscanned' = unscanned \ {d}
    /\ UNCHANGED <<chainVars, netVars, diskVars, commitVars, taskVars, handlerVars, lock, timerVars, up, unrestored>>

(* GetMeta: the order the chain records last for a data id (external).     *)
MetaOrder(d) ==
    {o \in Order : /\ DataOf[o] = d /\ created[o] # None
                   /\ \A q \in Order : DataOf[q] = d /\ created[q] # None => created[q] <= created[o]}

(* Line 950: the last deadline the order has passed.                       *)
TimeoutAt(o) == ((height - created[o]) \div TIMEOUT) * TIMEOUT + created[o]

(* A height the chain never reaches: when GetLastHeight fails at line 936, *)
(* line 950 subtracts from 0 and the unsigned result is close to 2^64.     *)
Never == MaxHeight + 1

(* Lines 938-961, for a model whose last order is not complete.            *)
RestoreTimeout(d, o) ==
    /\ d \in unrestored
    /\ o \in MetaOrder(d) /\ ~allShardsCompleted(o)
    /\ \E at \in {TimeoutAt(o)} \cup (IF QueryFails THEN {Never} ELSE {}) :
         timeoutMap' = timeoutMap \cup {[at |-> at, order |-> o, cid |-> ds[d].cid, expire |-> at + TIMEOUT]}
    /\ unrestored' = unrestored \ {d}
    /\ UNCHANGED <<chainVars, netVars, diskVars, commitVars, taskVars, handlerVars, lock, latestHeight, due, up, unscanned>>

(* ... the model is complete, has no order, or a query failed.             *)
RestoreNothing(d) ==
    /\ d \in unrestored
    /\ QueryFails \/ \A o \in MetaOrder(d) : allShardsCompleted(o)
    /\ unrestored' = unrestored \ {d}
    /\ UNCHANGED <<chainVars, netVars, diskVars, commitVars, taskVars, handlerVars, lock, timerVars, up, unscanned>>

-----------------------------------------------------------------------------
Chain ==
    \/ NewBlock
    \/ \E o \in Order, p, q \in Sp : Reassign(o, p, q)
    \/ \E o \in Order, p \in Sp : DropTimedOut(o, p)

Nodes == \E o \in Order, p \in Sp : NodeCompletes(o, p) \/ NodeGivesUp(o, p) \/ LoseNotice(o, p)

CommitModel(o) ==
    \/ StageShard(o)
    \/ \E chosen \in SUBSET Sp \ {{}} : SendOrder(o, chosen)
    \/ SaveReady(o)
    \/ \E t \in Task : PushOrder(t, o)
    \/ WatchTimeout(o)

checkTimeout ==
    \/ NextHeight
    \/ \E e \in due : SkipDue(e) \/ \E t \in Task : Reschedule(t, e)

Starting ==
    \/ \E d \in DataId : (\E t \in Task : ScanPending(t, d)) \/ ScanComplete(d)
    \/ \E d \in DataId : (\E o \in Order : RestoreTimeout(d, o)) \/ RestoreNothing(d)

Next ==
    \/ Chain
    \/ Nodes
    \/ \E o \in Order : CommitModel(o)
    \/ \E t \in Task : Process(t)
    \/ \E o \in Order, p \in Sp : CheckComplete(o, p) \/ HandleShardComplete(o, p)
    \/ checkTimeout
    \/ Crash \/ Restart
    \/ Starting

Spec == Init /\ [][Next]_vars

(* Goroutines run.  A task that waits for the order lock competes with     *)
(* others: Go's mutexes do not starve a waiter.                            *)
Fairness ==
    /\ \A t \in Task : SF_vars(Process(t))
    /\ \A o \in Order, p \in Sp : SF_vars(HandleShardComplete(o, p))

FairSpec == Spec /\ Fairness

-----------------------------------------------------------------------------
(* The staged copy is the only one until the providers have theirs: as     *)
(* long as an order on chain has a shard that is not completed, its        *)
(* content can still be fetched from the staging directory                 *)
(* (HandleShardStore), whatever the notices, crashes and retries were.     *)
ContentStaged ==
    \A o \in Order : created[o] # None /\ ~allShardsCompleted(o) => o \in staged

(* A record says Complete only of a content all of whose shards are        *)
(* completed on chain, although process() and HandleShardComplete save     *)
(* records they read before.  processIncompleteOrders skips such an order. *)
CompleteIsOnChain ==
    \A d \in DataId : ds[d] # None /\ ds[d].state = "complete" =>
        created[ds[d].cid] # None /\ allShardsCompleted(ds[d].cid)

Watched(o) == \E e \in timeoutMap \cup due : e.order = o /\ (e \in due \/ e.at > latestHeight)

(* An order that is not complete on chain has a deadline ahead at which    *)
(* checkTimeout will queue it again, unless its CommitModel still runs or  *)
(* a newer order has replaced it: no crash, restart or exhausted task      *)
(* makes the gateway forget it.                                            *)
NotForgotten ==
    up /\ unrestored = {} =>
        \A d \in DataId : \A o \in MetaOrder(d) :
            \/ allShardsCompleted(o)
            \/ commit[o] # "returned"
            \/ Watched(o)

(* HandleShardComplete always answers: a notice that passed the checks     *)
(* gets the order lock, however process() and other notices compete for it.*)
NoticeAnswered ==
    \A o \in Order, p \in Sp : handler[<<o, p>>] = "lock" ~> handler[<<o, p>>] = "idle"

(* A queued order leaves the queue: process() ends or gives up after       *)
(* MAX_RETRIES attempts, even when the chain cannot be asked.              *)
EveryOrderLeavesQueue ==
    \A t \in Task : pc[t] # "free" ~> pc[t] = "free"
=============================================================================
