------------------------------ MODULE Storage ------------------------------
(***************************************************************************)
(* The shard pipeline of one storage node (node/storage/storage_service.go *)
(* with the ShardInfo records of utils/state_utils.go): shard assignments  *)
(* are recorded and queued, goroutines of the scheduler fetch the content  *)
(* from the gateway, store it, send the CompleteOrder transaction and tell *)
(* the gateway; errors put the task back in the queue, up to MAX_RETRIES.  *)
(*                                                                         *)
(* process() takes no lock and works on the copy of the record that was    *)
(* queued, so the same shard may be processed by several goroutines whose  *)
(* saves overwrite each other.  Every await of process() is a step.  The   *)
(* node may crash at any point; the datastore and the store survive.       *)
(*                                                                         *)
(* The queue is a set: a task whose RetryAt lies ahead is pushed to the    *)
(* back, so any queued task may be the next one to run.  The gateway and   *)
(* the chain are the environment: their answers are arbitrary.             *)
(***************************************************************************)
EXTENDS Naturals, FiniteSets

CONSTANTS
    Shard,         \* the (order id, cid) keys of ShardInfo
    Cid,           \* contents
    CidOf,         \* the content of each shard
    Renewal,       \* shards of renew orders (Operation "3")
    Task,          \* work requests that may exist at a time (bound)
    Timeout,       \* ShardAssignReq.TimeoutHeight values; 0: unknown to the gateway
    MaxHeight,     \* last block height (bound)
    MAX_RETRIES,   \* storage_service.go line 43
    WINDOW_SIZE,   \* storage_service.go line 41
    None           \* no record in the datastore, no work request

ASSUME ShardAssumption ==
    /\ CidOf \in [Shard -> Cid]
    /\ Renewal \subseteq Shard
    /\ Timeout \subseteq Nat
    /\ MaxHeight \in Nat
    /\ MAX_RETRIES \in Nat \ {0}
    /\ WINDOW_SIZE \in Nat \ {0}

ShardState == {"validated", "stored", "completed", "terminated"}

ShardInfo == [shard : Shard, state : ShardState, tries : 0 .. MAX_RETRIES, expire : Nat]

ASSUME NoneAssumption == None \notin ShardInfo

VARIABLES
    height,        \* chain: the last block
    chain,         \* chain: status of this node's shard
    store,         \* contents the backends hold
    ds,            \* datastore: ShardInfo records
    expireIdx,     \* datastore: ShardExpireIndex
    up,            \* the node runs
    unscanned,     \* keys processIncompleteShards has not looked at yet
    pc,            \* of each task: not in use, in schedQueue, or a point of process()
    job            \* of each task: WorkRequest.Shard, a copy of a record

chainVars == <<height, chain>>
diskVars == <<store, ds, expireIdx>>
vars == <<height, chain, store, ds, expireIdx, up, unscanned, pc, job>>

(* fetch: before the content is there; stored: content in the backends,    *)
(* record not saved; tx: before CompleteOrder; sent: transaction accepted, *)
(* record not saved; expire: before SaveShardExpire; notify: before        *)
(* RequestShardComplete.                                                   *)
Running == {"fetch", "stored", "tx", "sent", "expire", "notify"}

TypeOK ==
    /\ height \in 0 .. MaxHeight
    /\ chain \in [Shard -> {"none", "waiting", "completed", "timeout"}]
    /\ store \subseteq Cid
    /\ ds \in [Shard -> ShardInfo \cup {None}]
    /\ expireIdx \subseteq Shard
    /\ up \in BOOLEAN
    /\ unscanned \subseteq Shard
    /\ pc \in [Task -> {"free", "queued"} \cup Running]
    /\ job \in [Task -> ShardInfo \cup {None}]

Init ==
    /\ height = 0
    /\ chain = [s \in Shard |-> "none"]
    /\ store = {}
    /\ ds = [s \in Shard |-> None]
    /\ expireIdx = {}
    /\ up = TRUE
    /\ unscanned = {}
    /\ pc = [t \in Task |-> "free"]
    /\ job = [t \in Task |-> None]

-----------------------------------------------------------------------------
(* The chain, external.                                                    *)

NewBlock ==
    /\ height < MaxHeight
    /\ height' = height + 1
    /\ UNCHANGED <<chain, diskVars, up, unscanned, pc, job>>

(* An order names this node as the provider of s.                          *)
ChainAssigns(s) ==
    /\ chain[s] = "none"
    /\ chain' = [chain EXCEPT ![s] = "waiting"]
    /\ UNCHANGED <<height, diskVars, up, unscanned, pc, job>>

(* The chain gives the shard to another provider.                          *)
ChainTimesOut(s) ==
    /\ chain[s] = "waiting"
    /\ chain' = [chain EXCEPT ![s] = "timeout"]
    /\ UNCHANGED <<height, diskVars, up, unscanned, pc, job>>

-----------------------------------------------------------------------------
(* schedQueue.Push(&WorkRequest{Shard: j})                                 *)
Push(t, j) ==
    /\ pc[t] = "free"
    /\ pc' = [pc EXCEPT ![t] = "queued"]
    /\ job' = [job EXCEPT ![t] = j]

(* process() returned nil: the task is gone.                               *)
Done(t) ==
    /\ pc' = [pc EXCEPT ![t] = "free"]
    /\ job' = [job EXCEPT ![t] = None]

(* utils.SaveShard                                                         *)
SaveShard(j) == ds' = [ds EXCEPT ![j.shard] = j]

(* HandleShardAssign for a shard the chain assigns to this node.  The      *)
(* reset of an expired record is made to the queued copy only.             *)
HandleShardAssign(t, s, timeout) ==
    /\ up
    /\ chain[s] # "none"
    /\ LET new == [shard |-> s, state |-> "validated", tries |-> 0, expire |-> timeout]
           rec == IF ds[s] = None THEN new ELSE ds[s]
       IN /\ ds' = [ds EXCEPT ![s] = rec]
          /\ Push(t, IF rec.expire < timeout THEN new ELSE rec)
    /\ UNCHANGED <<chainVars, store, expireIdx, up, unscanned>>

(* ShardFix: queue the saved record, whatever its state.                   *)
ShardFix(t, s) ==
    /\ up
    /\ ds[s] # None
    /\ Push(t, ds[s])
    /\ UNCHANGED <<chainVars, diskVars, up, unscanned>>

-----------------------------------------------------------------------------
(* process(), lines 764-796: Start pops a task while the throttle allows.  *)

CanStart(t) ==
    /\ up
    /\ pc[t] = "queued"
    /\ Cardinality({u \in Task : pc[u] \in Running}) < WINDOW_SIZE

(* Mutant of Attempt: the attempt is not counted.                          *)
AttemptUncounted(t) == job[t]

(* task.Tries++                                                            *)
Attempt(t) == [job[t] EXCEPT !.tries = @ + 1]

Exhausted(t) == job[t].tries + 1 >= MAX_RETRIES

Expired(t) == job[t].expire > 0 /\ height > job[t].expire

(* A queued copy of a terminated record.                                   *)
Drop(t) ==
    /\ CanStart(t)
    /\ job[t].state = "terminated"
    /\ Done(t)
    /\ UNCHANGED <<chainVars, diskVars, up, unscanned>>

(* Too many retries, or the order expired.                                 *)
Terminate(t) ==
    /\ CanStart(t)
    /\ job[t].state # "terminated"
    /\ Exhausted(t) \/ Expired(t)
    /\ SaveShard([Attempt(t) EXCEPT !.state = "terminated"])
    /\ Done(t)
    /\ UNCHANGED <<chainVars, store, expireIdx, up, unscanned>>

(* GetLastHeight fails: back to the queue, nothing saved.                  *)
HeightUnknown(t) ==
    /\ CanStart(t)
    /\ job[t].state # "terminated"
    /\ ~Exhausted(t)
    /\ job[t].expire > 0
    /\ job' = [job EXCEPT ![t] = Attempt(t)]
    /\ UNCHANGED <<chainVars, diskVars, up, unscanned, pc>>

(* GetNodePeer of the gateway fails: the error is saved.                   *)
PeerUnknown(t) ==
    /\ CanStart(t)
    /\ job[t].state # "terminated"
    /\ ~Exhausted(t) /\ ~Expired(t)
    /\ job' = [job EXCEPT ![t] = Attempt(t)]
    /\ SaveShard(job'[t])
    /\ UNCHANGED <<chainVars, store, expireIdx, up, unscanned, pc>>

(* The saved state says which of the steps were done before.               *)
Resume(t) ==
    /\ CanStart(t)
    /\ job[t].state # "terminated"
    /\ ~Exhausted(t) /\ ~Expired(t)
    /\ job' = [job EXCEPT ![t] = Attempt(t)]
    /\ pc' = [pc EXCEPT ![t] = CASE job[t].state = "validated" -> "fetch"
                                 [] job[t].state = "stored" -> "tx"
                                 [] job[t].state = "completed" -> "notify"]
    /\ UNCHANGED <<chainVars, diskVars, up, unscanned>>

Start(t) ==
    Drop(t) \/ Terminate(t) \/ HeightUnknown(t) \/ PeerUnknown(t) \/ Resume(t)

-----------------------------------------------------------------------------
(* process(), lines 798-887.                                               *)

(* updateShardError and return err: the caller pushes the task back.       *)
FailAndRetry(t) ==
    /\ SaveShard(job[t])
    /\ pc' = [pc EXCEPT ![t] = "queued"]

(* RequestShardStore or storeManager.Store fails; a backend may have kept  *)
(* the content although another one reported an error.                     *)
FetchFails(t) ==
    /\ pc[t] = "fetch"
    /\ job[t].shard \notin Renewal
    /\ store' \in {store, store \cup {CidOf[job[t].shard]}}
    /\ FailAndRetry(t)
    /\ UNCHANGED <<chainVars, expireIdx, up, unscanned, job>>

(* Mutant of FetchStores: the error of storeManager.Store is not checked.  *)
FetchWithoutStore(t) ==
    /\ pc[t] = "fetch"
    /\ store' \in {store, store \cup {CidOf[job[t].shard]}}
    /\ pc' = [pc EXCEPT ![t] = "stored"]
    /\ UNCHANGED <<chainVars, ds, expireIdx, up, unscanned, job>>

(* The content arrived with the right cid and is stored; the content of a  *)
(* renewed order is there already.                                         *)
FetchStores(t) ==
    /\ pc[t] = "fetch"
    /\ LET c == CidOf[job[t].shard] IN
        /\ job[t].shard \in Renewal => c \in store
        /\ store' = store \cup {c}
    /\ pc' = [pc EXCEPT ![t] = "stored"]
    /\ UNCHANGED <<chainVars, ds, expireIdx, up, unscanned, job>>

SaveStored(t) ==
    /\ pc[t] = "stored"
    /\ job' = [job EXCEPT ![t].state = "stored"]
    /\ SaveShard(job'[t])
    /\ pc' = [pc EXCEPT ![t] = "tx"]
    /\ UNCHANGED <<chainVars, store, expireIdx, up, unscanned>>

(* Mutant of TxFails: the error of CompleteOrder is not checked.           *)
TxFailureIgnored(t) ==
    /\ pc[t] = "tx"
    /\ chain' = chain
    /\ pc' = [pc EXCEPT ![t] = "sent"]
    /\ UNCHANGED <<height, diskVars, up, unscanned, job>>

(* CompleteOrder returns an error; the transaction may have been executed  *)
(* all the same (a lost answer).                                           *)
TxFails(t) ==
    /\ pc[t] = "tx"
    /\ \/ chain' = chain
       \/ /\ chain[job[t].shard] = "waiting"
          /\ chain' = [chain EXCEPT ![job[t].shard] = "completed"]
    /\ FailAndRetry(t)
    /\ UNCHANGED <<height, store, expireIdx, up, unscanned, job>>

TxSucceeds(t) ==
    /\ pc[t] = "tx"
    /\ chain[job[t].shard] \in {"waiting", "completed"}
    /\ chain' = [chain EXCEPT ![job[t].shard] = "completed"]
    /\ pc' = [pc EXCEPT ![t] = "sent"]
    /\ UNCHANGED <<height, diskVars, up, unscanned, job>>

SaveCompleted(t) ==
    /\ pc[t] = "sent"
    /\ job' = [job EXCEPT ![t].state = "completed"]
    /\ SaveShard(job'[t])
    /\ pc' = [pc EXCEPT ![t] = "expire"]
    /\ UNCHANGED <<chainVars, store, expireIdx, up, unscanned>>

(* SaveShardExpire, unless GetOrder fails.                                 *)
SaveShardExpire(t) ==
    /\ pc[t] = "expire"
    /\ expireIdx' \in {expireIdx, expireIdx \cup {job[t].shard}}
    /\ pc' = [pc EXCEPT ![t] = "notify"]
    /\ UNCHANGED <<chainVars, store, ds, up, unscanned, job>>

(* RequestShardComplete: an error is saved, never retried.                 *)
Notify(t) ==
    /\ pc[t] = "notify"
    /\ ds' = ds \/ SaveShard(job[t])
    /\ Done(t)
    /\ UNCHANGED <<chainVars, store, expireIdx, up, unscanned>>

Run(t) ==
    \/ FetchFails(t) \/ FetchStores(t) \/ SaveStored(t) \/ TxFails(t) \/ TxSucceeds(t)
    \/ SaveCompleted(t) \/ SaveShardExpire(t) \/ Notify(t)

-----------------------------------------------------------------------------
Stopped ==
    /\ up' = FALSE
    /\ pc' = [t \in Task |-> "free"]
    /\ job' = [t \in Task |-> None]

(* The node is stopped or killed.                                          *)
Crash ==
    /\ up
    /\ Stopped
    /\ UNCHANGED <<chainVars, diskVars, unscanned>>

(* Lines 813-815 and 829-831: content with another cid, or a renewal whose *)
(* content is gone, calls updateShardError with the nil err of line 792;   *)
(* err.Error() panics and the goroutine takes the node down.               *)
FetchPanics(t) ==
    /\ pc[t] = "fetch"
    /\ job[t].shard \in Renewal => CidOf[job[t].shard] \notin store
    /\ Stopped
    /\ UNCHANGED <<chainVars, diskVars, unscanned>>

(* NewStoreService: initShardsExpiration fills an empty index from the     *)
(* chain (or gives up silently) and processIncompleteShards is launched.   *)
Restart ==
    /\ ~up
    /\ up' = TRUE
    /\ unscanned' = Shard
    /\ \/ UNCHANGED expireIdx
       \/ expireIdx = {} /\ expireIdx' = {s \in Shard : chain[s] # "none"}
    /\ UNCHANGED <<chainVars, store, ds, pc, job>>

(* Mutant of IsPending: only records that have not been started.           *)
IsPendingFirst(s) == ds[s] # None /\ ds[s].state = "validated"

(* getPendingShardList                                                     *)
IsPending(s) == ds[s] # None /\ ds[s].state \notin {"completed", "terminated"}

(* processIncompleteShards, one key at a time.                             *)
ScanPending(t, s) ==
    /\ up
    /\ s \in unscanned
    /\ IsPending(s)
    /\ Push(t, ds[s])
    /\ unscanned' = unscanned \ {s}
    /\ UNCHANGED <<chainVars, diskVars, up>>

ScanOther(s) ==
    /\ up
    /\ s \in unscanned
    /\ ~IsPending(s)
    /\ unscanned' = unscanned \ {s}
    /\ UNCHANGED <<chainVars, diskVars, up, pc, job>>

-----------------------------------------------------------------------------
Request(t, s) ==
    \/ \E timeout \in Timeout : HandleShardAssign(t, s, timeout)
    \/ ShardFix(t, s)
    \/ ScanPending(t, s)

Next ==
    \/ NewBlock
    \/ \E s \in Shard : ChainAssigns(s) \/ ChainTimesOut(s) \/ ScanOther(s)
    \/ \E t \in Task : Start(t) \/ Run(t) \/ FetchPanics(t)
    \/ \E t \in Task, s \in Shard : Request(t, s)
    \/ Crash
    \/ Restart

(* The scheduler loop pops queued tasks as long as it runs and every       *)
(* request it makes returns (streams have deadlines, chain calls poll).    *)
(* A task gets a free slot of the throttle again and again, not for good:  *)
(* strong fairness.  Nothing obliges the gateway, the operator or the      *)
(* chain to act.                                                           *)
Fairness == \A t \in Task : SF_vars(Start(t)) /\ WF_vars(Run(t) \/ FetchPanics(t))

Spec == Init /\ [][Next]_vars

FairSpec == Spec /\ Fairness

-----------------------------------------------------------------------------
(* Content is stored before it is declared: whenever the chain counts a    *)
(* shard of this node as completed, the backends hold its content, however *)
(* goroutines, retries, lost answers and crashes interleave (process()     *)
(* lines 820-842, resumed from a saved state at lines 798 and 841).        *)
CompletedIsStored ==
    \A s \in Shard : chain[s] = "completed" => CidOf[s] \in store

(* A record saved as completed, or a task that is about to notify the      *)
(* gateway, is one the chain has completed: the gateway's                  *)
(* HandleShardComplete will find the transaction (lines 841-875).          *)
CompleteIsOnChain ==
    /\ \A s \in Shard : ds[s] # None /\ ds[s].state = "completed" => chain[s] = "completed"
    /\ \A t \in Task : pc[t] = "notify" => chain[job[t].shard] = "completed"

(* No shard is forgotten: an unfinished record always has a task in the    *)
(* queue or in process() (or its key is still to be scanned after a        *)
(* restart), although duplicate tasks overwrite each other's records and   *)
(* a crash may fall between any two steps (lines 325-336, 731-759).        *)
UnfinishedIsScheduled ==
    up => \A s \in Shard \ unscanned :
            ds[s] # None /\ ds[s].state \in {"validated", "stored"}
                => \E t \in Task : pc[t] # "free" /\ job[t].shard = s

(* Every task leaves the scheduler: errors cannot keep it going round,     *)
(* because each pass counts in Tries (lines 768-776, 731-759).             *)
EveryTaskEnds == \A t \in Task : pc[t] # "free" ~> pc[t] = "free"
=============================================================================
