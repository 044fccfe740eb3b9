--------------------------- MODULE StorageProofs ---------------------------
(***************************************************************************)
(* Proofs about Storage for any set of shards, contents and tasks, and any *)
(* retry limit.  The inductive invariant says of every copy of a record,   *)
(* saved or queued or in process(), that the store and the chain back the  *)
(* state it claims; and that every unfinished record has a live task whose *)
(* own copy is unfinished too (that copy is what makes it save again).     *)
(***************************************************************************)
EXTENDS Storage, TLAPS

Unfinished == {"validated", "stored"}

(* The store st and the chain ch back the state that the copy j claims,    *)
(* and a copy that is still processed has attempts left.                   *)
Backed(j, st, ch) ==
    /\ j.state # "terminated" => j.tries < MAX_RETRIES
    /\ j.state \in {"stored", "completed"} => CidOf[j.shard] \in st
    /\ j.state = "completed" => ch[j.shard] = "completed"

(* A task at point q of process() with the copy j.                         *)
Good(q, j, st, ch) ==
    /\ j \in ShardInfo
    /\ Backed(j, st, ch)
    /\ q \in {"fetch", "stored"} => j.state = "validated"
    /\ q \in {"tx", "sent"} => j.state = "stored"
    /\ q \in {"expire", "notify"} => j.state = "completed"
    /\ q = "stored" => CidOf[j.shard] \in st
    /\ q = "sent" => ch[j.shard] = "completed"

RecordInv ==
    \A s \in Shard : ds[s] # None => ds[s].shard = s /\ Backed(ds[s], store, chain)

TaskInv ==
    \A t \in Task : \/ pc[t] = "free" /\ job[t] = None
                    \/ pc[t] # "free" /\ Good(pc[t], job[t], store, chain)

Witness(t, s) == pc[t] # "free" /\ job[t].shard = s /\ job[t].state \in Unfinished

ScheduledInv ==
    up => \A s \in Shard \ unscanned :
            ds[s] # None /\ ds[s].state \in Unfinished => \E t \in Task : Witness(t, s)

DownInv == ~up => \A t \in Task : pc[t] = "free"

IInv == TypeOK /\ RecordInv /\ TaskInv /\ CompletedIsStored /\ ScheduledInv /\ DownInv

(* What the backends and the chain may do between two states: contents     *)
(* are only added, a completed shard stays completed.                      *)
Grows ==
    /\ store \subseteq store'
    /\ \A s \in Shard : chain[s] = "completed" => chain'[s] = "completed"
    /\ CompletedIsStored'

-----------------------------------------------------------------------------
(* The invariant holds when the node starts with an empty datastore.       *)
LEMMA InitIInv == Init => IInv
  BY ShardAssumption, SMTT(30) DEF Init, IInv, TypeOK, RecordInv, TaskInv, CompletedIsStored,
                         ScheduledInv, DownInv, Running

(* A backed copy stays backed while the store and the chain grow.          *)
LEMMA BackedGrows ==
    ASSUME Grows, NEW j \in ShardInfo, Backed(j, store, chain)
    PROVE  Backed(j, store', chain')
  BY Zenon DEF Grows, Backed, ShardInfo

(* So does what is known of a task that does not move.                     *)
LEMMA GoodGrows ==
    ASSUME Grows, NEW q, NEW j, Good(q, j, store, chain)
    PROVE  Good(q, j, store', chain')
  <1>1. j \in ShardInfo /\ j.shard \in Shard
    BY Zenon DEF Good, ShardInfo
  <1>2. Backed(j, store', chain')
    BY <1>1, BackedGrows, Zenon DEF Good
  <1> QED BY <1>1, <1>2, Zenon DEF Good, Grows

(* The general step of a task t: it moves to the point q with the copy j,  *)
(* which it may save.                                                      *)
LEMMA Moves ==
    ASSUME IInv, TypeOK', Grows, up, up' = up,
           NEW t \in Task, NEW q \in {"queued"} \cup Running, NEW j \in ShardInfo,
           Good(q, j, store', chain'),
           pc' = [pc EXCEPT ![t] = q],
           job' = [job EXCEPT ![t] = j],
           \/ ds' = [ds EXCEPT ![j.shard] = j]
           \/ ds' = ds /\ (pc[t] # "free" /\ job[t].state \in Unfinished => j.state \in Unfinished),
           \/ unscanned' = unscanned
           \/ unscanned' = unscanned \ {j.shard} /\ j.state \in Unfinished,
           pc[t] # "free" => job[t].shard = j.shard
    PROVE  IInv'
  <1>0. TypeOK /\ RecordInv /\ TaskInv /\ ScheduledInv
    BY Zenon DEF IInv
  <1>1. q # "free" /\ j.shard \in Shard
    BY Zenon DEF Running, ShardInfo
  <1>2. pc'[t] = q /\ job'[t] = j /\ \A u \in Task \ {t} : pc'[u] = pc[u] /\ job'[u] = job[u]
    BY <1>0, Zenon DEF TypeOK
  <1>3. RecordInv'
    <2> SUFFICES ASSUME NEW s \in Shard, ds'[s] # None
                 PROVE  ds'[s].shard = s /\ Backed(ds'[s], store', chain')
      BY Zenon DEF RecordInv
    <2>1. CASE ds'[s] = ds[s]
      BY <2>1, <1>0, BackedGrows, Zenon DEF RecordInv, TypeOK
    <2>2. CASE ds'[s] # ds[s]
      <3>1. s = j.shard /\ ds'[s] = j
        BY <2>2, <1>0, <1>1, Zenon DEF TypeOK
      <3> QED BY <3>1, Zenon DEF Good
    <2> QED BY <2>1, <2>2, Zenon
  <1>4. TaskInv'
    <2> SUFFICES ASSUME NEW u \in Task
                 PROVE  \/ pc'[u] = "free" /\ job'[u] = None
                        \/ pc'[u] # "free" /\ Good(pc'[u], job'[u], store', chain')
      BY Zenon DEF TaskInv
    <2>1. CASE u = t
      BY <2>1, <1>1, <1>2, Zenon
    <2>2. CASE u # t
      BY <2>2, <1>0, <1>2, GoodGrows, Zenon DEF TaskInv
    <2> QED BY <2>1, <2>2, Zenon
  <1>5. CompletedIsStored'
    BY Zenon DEF Grows
  <1>6. ScheduledInv'
    <2> SUFFICES ASSUME NEW s \in Shard \ unscanned', ds'[s] # None, ds'[s].state \in Unfinished
                 PROVE  \E u \in Task : Witness(u, s)'
      BY Zenon DEF ScheduledInv
    <2>1. CASE s = j.shard /\ j.state \in Unfinished
      BY <2>1, <1>1, <1>2, Zenon DEF Witness
    <2>2. CASE ~(s = j.shard /\ j.state \in Unfinished)
      <3>1. ds'[s] = ds[s] /\ s \in Shard \ unscanned
        BY <2>2, <1>0, <1>1, Zenon DEF TypeOK
      <3>2. PICK u \in Task : Witness(u, s)
        BY <3>1, <1>0, Zenon DEF ScheduledInv
      <3>3. CASE u # t
        BY <3>2, <3>3, <1>2, Zenon DEF Witness
      <3>4. CASE u = t
        <4>1. pc[t] # "free" /\ job[t].shard = s /\ job[t].state \in Unfinished
          BY <3>2, <3>4, Zenon DEF Witness
        <4>2. s = j.shard
          BY <4>1, Zenon
        <4>3. ds' = [ds EXCEPT ![j.shard] = j]
          BY <4>1, <4>2, <2>2, Zenon
        <4>4. ds'[s] = j
          BY <4>2, <4>3, <1>0, <1>1, Zenon DEF TypeOK
        <4> QED BY <4>4, <4>2, <2>2, Zenon
      <3> QED BY <3>3, <3>4, Zenon
    <2> QED BY <2>1, <2>2, Zenon
  <1>7. DownInv'
    BY Zenon DEF DownInv
  <1> QED BY <1>3, <1>4, <1>5, <1>6, <1>7, Zenon DEF IInv

(* The last step of a task t: it leaves, and may save a finished copy j.   *)
LEMMA Leaves ==
    ASSUME IInv, NEW t \in Task, pc[t] # "free", up,
           pc' = [pc EXCEPT ![t] = "free"],
           job' = [job EXCEPT ![t] = None],
           \/ ds' = ds /\ job[t].state \notin Unfinished
           \/ \E j \in ShardInfo :
                 /\ ds' = [ds EXCEPT ![j.shard] = j]
                 /\ j.shard = job[t].shard
                 /\ j.state \notin Unfinished
                 /\ Backed(j, store, chain),
           UNCHANGED <<height, chain, store, expireIdx, up, unscanned>>
    PROVE  IInv'
  <1>0. TypeOK /\ RecordInv /\ TaskInv /\ ScheduledInv /\ CompletedIsStored
    BY Zenon DEF IInv
  <1>1. /\ pc'[t] = "free" /\ job'[t] = None
        /\ \A u \in Task \ {t} : pc'[u] = pc[u] /\ job'[u] = job[u]
    BY <1>0, Zenon DEF TypeOK
  <1>2. job[t].shard \in Shard
    BY <1>0, Zenon DEF TaskInv, Good, ShardInfo
  <1>3. \A s \in Shard : ds'[s] = ds[s]
                        \/ /\ s = job[t].shard /\ ds'[s] \in ShardInfo
                           /\ ds'[s].shard = s /\ ds'[s].state \notin Unfinished
                           /\ Backed(ds'[s], store, chain)
    BY <1>0, <1>2, Zenon DEF TypeOK
  <1>4. TypeOK'
    <2>1. ds' \in [Shard -> ShardInfo \cup {None}]
      BY <1>0, <1>2, Zenon DEF TypeOK
    <2> QED BY <2>1, <1>0, Zenon DEF TypeOK
  <1>5. RecordInv'
    BY <1>0, <1>3, Zenon DEF RecordInv
  <1>6. TaskInv'
    BY <1>0, <1>1, Zenon DEF TaskInv
  <1>7. CompletedIsStored'
    BY <1>0, Zenon DEF CompletedIsStored
  <1>8. ScheduledInv'
    <2> SUFFICES ASSUME NEW s \in Shard \ unscanned', ds'[s] # None, ds'[s].state \in Unfinished
                 PROVE  \E u \in Task : Witness(u, s)'
      BY Zenon DEF ScheduledInv
    <2>1. ds'[s] = ds[s]
      BY <1>3, Zenon
    <2>2. PICK u \in Task : Witness(u, s)
      BY <2>1, <1>0, Zenon DEF ScheduledInv
    <2>3. u # t
      BY <2>1, <2>2, <1>0, <1>2, Zenon DEF Witness, TypeOK
    <2> QED BY <2>2, <2>3, <1>1, Zenon DEF Witness
  <1>9. DownInv'
    BY Zenon DEF DownInv
  <1> QED BY <1>4, <1>5, <1>6, <1>7, <1>8, <1>9, Zenon DEF IInv

(* Steps of the chain touch no task and no record.                         *)
LEMMA ChainIInv ==
    ASSUME IInv, NewBlock \/ \E s \in Shard : ChainAssigns(s) \/ ChainTimesOut(s)
    PROVE  IInv'
  <1>0. TypeOK /\ RecordInv /\ TaskInv /\ ScheduledInv /\ CompletedIsStored /\ DownInv
    BY Zenon DEF IInv
  <1>1. UNCHANGED <<store, ds, expireIdx, up, unscanned, pc, job>>
    BY Zenon DEF NewBlock, ChainAssigns, ChainTimesOut, diskVars
  <1>2. TypeOK'
    BY <1>0, ShardAssumption, SMTT(30) DEF TypeOK, NewBlock, ChainAssigns, ChainTimesOut, diskVars
  <1>3. Grows
    <2>1. \A s \in Shard : chain'[s] = "completed" <=> chain[s] = "completed"
      BY <1>0, Zenon DEF TypeOK, NewBlock, ChainAssigns, ChainTimesOut
    <2> QED BY <2>1, <1>0, <1>1, Zenon DEF Grows, CompletedIsStored
  <1>4. RecordInv'
    BY <1>0, <1>1, <1>3, BackedGrows, Zenon DEF RecordInv, TypeOK
  <1>5. TaskInv'
    BY <1>0, <1>1, <1>3, GoodGrows, Zenon DEF TaskInv
  <1>6. ScheduledInv' /\ DownInv'
    BY <1>0, <1>1, SMTT(30) DEF ScheduledInv, Witness, DownInv
  <1> QED BY <1>2, <1>3, <1>4, <1>5, <1>6, Zenon DEF IInv, Grows

(* An assignment, a ShardFix or a scan after a restart queues a copy of a  *)
(* saved record, a fresh one, or one reset to validated.                   *)
LEMMA RequestIInv ==
    ASSUME IInv, NEW t \in Task, NEW s \in Shard, Request(t, s)
    PROVE  IInv'
  <1>0. TypeOK /\ RecordInv /\ TaskInv /\ ScheduledInv /\ CompletedIsStored /\ DownInv
    BY Zenon DEF IInv
  <1>1. /\ up /\ pc[t] = "free"
        /\ UNCHANGED <<height, chain, store, expireIdx, up>>
    BY Zenon DEF Request, HandleShardAssign, ShardFix, ScanPending, Push, chainVars, diskVars
  <1>2. Grows
    BY <1>0, <1>1, Zenon DEF Grows, CompletedIsStored
  <1>3. CASE \E timeout \in Timeout : HandleShardAssign(t, s, timeout)
    <2>1. PICK timeout \in Timeout : HandleShardAssign(t, s, timeout)
      BY <1>3, Zenon
    <2>2. PICK new : new = [shard |-> s, state |-> "validated", tries |-> 0, expire |-> timeout]
      BY Zenon
    <2>3. new \in ShardInfo /\ new.shard = s /\ new.state = "validated"
      BY <2>2, ShardAssumption, SMTT(30) DEF ShardInfo, ShardState
    <2>4. Good("queued", new, store', chain')
      BY <2>2, <2>3, ShardAssumption, SMTT(30) DEF Good, Backed
    <2>5. PICK rec : rec = IF ds[s] = None THEN new ELSE ds[s]
      BY Zenon
    <2>6. PICK j : j = IF rec.expire < timeout THEN new ELSE rec
      BY Zenon
    <2>7. /\ ds' = [ds EXCEPT ![s] = rec]
          /\ pc' = [pc EXCEPT ![t] = "queued"]
          /\ job' = [job EXCEPT ![t] = j]
          /\ unscanned' = unscanned
      BY <2>1, <2>2, <2>5, <2>6, Zenon DEF HandleShardAssign, Push
    <2>8. rec \in ShardInfo /\ rec.shard = s /\ Good("queued", rec, store', chain')
      BY <2>3, <2>4, <2>5, <1>0, <1>1, Zenon DEF TypeOK, RecordInv, Good
    <2>9. j \in ShardInfo /\ j.shard = s /\ Good("queued", j, store', chain')
      BY <2>3, <2>4, <2>6, <2>8, Zenon
    <2>10. ds' \in {ds, [ds EXCEPT ![j.shard] = j]}
      <3>1. CASE ds[s] # None
        BY <3>1, <2>5, <2>7, <1>0, Zenon DEF TypeOK
      <3>2. CASE ds[s] = None
        <4>1. rec = new /\ ~(rec.expire < timeout)
          BY <3>2, <2>2, <2>5, ShardAssumption, SMTT(30)
        <4> QED BY <4>1, <2>6, <2>7, <2>9, Zenon
      <3> QED BY <3>1, <3>2, Zenon
    <2>11. TypeOK'
      BY <2>7, <2>8, <2>9, <1>0, <1>1, Zenon DEF TypeOK
    <2> QED BY <2>7, <2>9, <2>10, <2>11, <1>1, <1>2, Moves, Zenon
  <1>4. CASE ShardFix(t, s) \/ ScanPending(t, s)
    <2>1. PICK j : j = ds[s]
      BY Zenon
    <2>2. /\ ds' = ds /\ j # None
          /\ pc' = [pc EXCEPT ![t] = "queued"]
          /\ job' = [job EXCEPT ![t] = j]
      BY <1>4, <2>1, Zenon DEF ShardFix, ScanPending, IsPending, Push, diskVars
    <2>3. j \in ShardInfo /\ j.shard = s /\ Good("queued", j, store', chain')
      BY <2>1, <2>2, <1>0, <1>1, Zenon DEF TypeOK, RecordInv, Good
    <2>4. \/ unscanned' = unscanned
          \/ unscanned' = unscanned \ {j.shard} /\ j.state \in Unfinished
      BY <1>4, <2>1, <2>3, Zenon DEF ShardFix, ScanPending, IsPending, Unfinished, ShardInfo, ShardState
    <2>5. TypeOK'
      BY <2>2, <2>3, <2>4, <1>0, <1>1, Zenon DEF TypeOK
    <2> QED BY <2>2, <2>3, <2>4, <2>5, <1>1, <1>2, Moves, Zenon
  <1> QED BY <1>3, <1>4, Zenon DEF Request

(* Counting an attempt of a copy that is not terminated.                   *)
LEMMA AttemptType ==
    ASSUME NEW t \in Task, job[t] \in ShardInfo, Backed(job[t], store, chain),
           job[t].state # "terminated"
    PROVE  /\ Attempt(t) \in ShardInfo
           /\ Attempt(t).shard = job[t].shard
           /\ Attempt(t).state = job[t].state
           /\ Attempt(t).tries = job[t].tries + 1
  <1>1. job[t].tries + 1 \in 0 .. MAX_RETRIES
    BY ShardAssumption, SMTT(30) DEF Backed, ShardInfo
  <1> QED BY <1>1, Zenon DEF Attempt, ShardInfo

(* The first block of process(): it drops, terminates, puts back or        *)
(* resumes the task at the point its copy's state stands for.              *)
LEMMA StartIInv ==
    ASSUME IInv, NEW t \in Task, Start(t)
    PROVE  IInv'
  <1>0. TypeOK /\ RecordInv /\ TaskInv /\ ScheduledInv /\ CompletedIsStored /\ DownInv
    BY Zenon DEF IInv
  <1>1. /\ up /\ pc[t] = "queued"
        /\ UNCHANGED <<height, chain, store, expireIdx, up, unscanned>>
    BY Zenon DEF Start, Drop, Terminate, HeightUnknown, PeerUnknown, Resume, CanStart, chainVars, diskVars
  <1>2. job[t] \in ShardInfo /\ Backed(job[t], store, chain)
    BY <1>0, <1>1, Zenon DEF TaskInv, Good
  <1>3. Grows
    BY <1>0, <1>1, Zenon DEF Grows, CompletedIsStored
  <1>4. CASE Drop(t)
    <2>1. /\ pc' = [pc EXCEPT ![t] = "free"] /\ job' = [job EXCEPT ![t] = None]
          /\ ds' = ds /\ job[t].state \notin Unfinished
      BY <1>4, Zenon DEF Drop, Done, diskVars, Unfinished
    <2> QED BY <2>1, <1>1, Leaves, Zenon
  <1>5. CASE Terminate(t)
    <2>1. PICK j : j = [Attempt(t) EXCEPT !.state = "terminated"]
      BY Zenon
    <2>2. Attempt(t) \in ShardInfo /\ Attempt(t).shard = job[t].shard
      BY <1>2, <1>5, AttemptType, Zenon DEF Terminate
    <2>3. /\ j \in ShardInfo /\ j.shard = job[t].shard /\ j.state = "terminated"
          /\ Backed(j, store, chain) /\ j.state \notin Unfinished
      BY <2>1, <2>2, Zenon DEF ShardInfo, ShardState, Backed, Unfinished
    <2>4. /\ pc' = [pc EXCEPT ![t] = "free"] /\ job' = [job EXCEPT ![t] = None]
          /\ ds' = [ds EXCEPT ![j.shard] = j]
      BY <1>5, <2>1, Zenon DEF Terminate, Done, SaveShard
    <2> QED BY <2>3, <2>4, <1>1, Leaves, Zenon
  <1>6. CASE HeightUnknown(t) \/ PeerUnknown(t) \/ Resume(t)
    <2>1. job[t].state # "terminated" /\ ~Exhausted(t)
      BY <1>6, Zenon DEF HeightUnknown, PeerUnknown, Resume
    <2>2. PICK j : j = Attempt(t)
      BY Zenon
    <2>3. /\ j \in ShardInfo /\ j.shard = job[t].shard /\ j.state = job[t].state
          /\ j.tries < MAX_RETRIES
      BY <1>2, <2>1, <2>2, AttemptType, ShardAssumption, SMTT(30) DEF Exhausted, ShardInfo
    <2>4. Backed(j, store', chain')
      BY <2>3, <1>1, <1>2, Zenon DEF Backed
    <2>5. PICK q : q = IF Resume(t)
                       THEN CASE job[t].state = "validated" -> "fetch"
                              [] job[t].state = "stored" -> "tx"
                              [] job[t].state = "completed" -> "notify"
                       ELSE "queued"
      BY SMTT(30)
    <2>6. job[t].state \in {"validated", "stored", "completed"}
      BY <1>2, <2>1, Zenon DEF ShardInfo, ShardState
    <2>7. q \in {"queued"} \cup Running /\ Good(q, j, store', chain')
      BY <2>3, <2>4, <2>5, <2>6, Zenon DEF Running, Good
    <2>8. job' = [job EXCEPT ![t] = j]
      BY <1>6, <2>2, Zenon DEF HeightUnknown, PeerUnknown, Resume
    <2>9. pc' = [pc EXCEPT ![t] = q]
      <3>1. CASE Resume(t)
        <4>1. q = CASE job[t].state = "validated" -> "fetch"
                    [] job[t].state = "stored" -> "tx"
                    [] job[t].state = "completed" -> "notify"
          BY <3>1, <2>5, Zenon
        <4> QED BY <3>1, <4>1, Zenon DEF Resume
      <3>2. CASE ~Resume(t)
        <4>1. q = "queued" /\ pc' = pc
          BY <3>2, <2>5, <1>6, Zenon DEF HeightUnknown, PeerUnknown
        <4> QED BY <4>1, <1>0, <1>1, Zenon DEF TypeOK
      <3> QED BY <3>1, <3>2, Zenon
    <2>10. ds' \in {ds, [ds EXCEPT ![j.shard] = j]}
      BY <1>6, <2>2, <2>8, <1>0, Zenon DEF HeightUnknown, PeerUnknown, Resume, SaveShard, diskVars, TypeOK
    <2>11. TypeOK'
      BY <2>3, <2>7, <2>8, <2>9, <2>10, <1>0, <1>1, SMTT(30) DEF TypeOK, ShardInfo
    <2> QED BY <2>3, <2>7, <2>8, <2>9, <2>10, <2>11, <1>1, <1>3, Moves, Zenon
  <1> QED BY <1>4, <1>5, <1>6, Zenon DEF Start

(* The awaits of process(): content before the stored state, transaction   *)
(* before the completed state.                                             *)
LEMMA RunIInv ==
    ASSUME IInv, NEW t \in Task, Run(t)
    PROVE  IInv'
  <1>0. TypeOK /\ RecordInv /\ TaskInv /\ ScheduledInv /\ CompletedIsStored /\ DownInv
    BY Zenon DEF IInv
  <1> DEFINE j0 == job[t]
  <1>1. /\ pc[t] \in Running
        /\ UNCHANGED <<height, up, unscanned>>
    BY Zenon DEF Run, FetchFails, FetchStores, SaveStored, TxFails, TxSucceeds, SaveCompleted,
           SaveShardExpire, Notify, chainVars, diskVars, Running
  <1>2. up /\ pc[t] # "free"
    BY <1>0, <1>1, Zenon DEF DownInv, Running
  <1>3. Good(pc[t], j0, store, chain) /\ j0 \in ShardInfo /\ j0.shard \in Shard
    BY <1>0, <1>2, Zenon DEF TaskInv, Good, ShardInfo
  <1>4. CASE FetchFails(t) \/ FetchStores(t)
    <2>1. PICK j : j = j0
      BY Zenon
    <2>2. /\ pc[t] = "fetch" /\ j.state = "validated"
          /\ chain' = chain /\ expireIdx' = expireIdx
          /\ store' \in {store, store \cup {CidOf[j.shard]}}
      BY <1>3, <1>4, <2>1, Zenon DEF FetchFails, FetchStores, chainVars, Good
    <2>3. Grows
      BY <2>2, <1>0, Zenon DEF Grows, CompletedIsStored
    <2>4. Good("queued", j, store', chain')
      BY <1>3, <2>1, <2>3, GoodGrows, <2>2, Zenon DEF Good
    <2>5. PICK q \in {"queued", "stored"} :
             /\ pc' = [pc EXCEPT ![t] = q]
             /\ q = "stored" => CidOf[j.shard] \in store'
      BY <1>4, <2>1, Zenon DEF FetchFails, FetchStores, FailAndRetry
    <2>6. Good(q, j, store', chain')
      BY <2>2, <2>4, <2>5, Zenon DEF Good
    <2>7. job' = [job EXCEPT ![t] = j]
      BY <1>0, <1>4, <2>1, Zenon DEF FetchFails, FetchStores, TypeOK
    <2>8. ds' \in {ds, [ds EXCEPT ![j.shard] = j]}
      BY <1>4, <2>1, Zenon DEF FetchFails, FetchStores, FailAndRetry, SaveShard
    <2>9. store' \subseteq Cid
      BY <2>1, <2>2, <1>0, <1>3, ShardAssumption, SMTT(30) DEF TypeOK
    <2>10. TypeOK'
      BY <2>1, <2>2, <2>5, <2>7, <2>8, <2>9, <1>0, <1>1, <1>3, Zenon DEF TypeOK, Running
    <2> QED BY <2>1, <2>3, <2>5, <2>6, <2>7, <2>8, <2>10, <1>1, <1>2, <1>3, Moves, Zenon DEF Running
  <1>5. CASE SaveStored(t) \/ SaveCompleted(t)
    <2>1. PICK j : j = [j0 EXCEPT !.state = IF SaveStored(t) THEN "stored" ELSE "completed"]
      BY Zenon
    <2>2. /\ j \in ShardInfo /\ j.shard = j0.shard /\ j.tries = j0.tries
          /\ j.state = IF SaveStored(t) THEN "stored" ELSE "completed"
      BY <2>1, <1>3, Zenon DEF ShardInfo, ShardState
    <2>3. PICK q : q = IF SaveStored(t) THEN "tx" ELSE "expire"
      BY Zenon
    <2>4. pc[t] = IF SaveStored(t) THEN "stored" ELSE "sent"
      <3>1. CASE SaveStored(t)
        <4>1. pc[t] = "stored"
          BY <3>1, Zenon DEF SaveStored
        <4> QED BY <3>1, <4>1, Zenon
      <3>2. CASE ~SaveStored(t)
        <4>1. pc[t] = "sent"
          BY <3>2, <1>5, Zenon DEF SaveCompleted
        <4> QED BY <3>2, <4>1, Zenon
      <3> QED BY <3>1, <3>2, Zenon
    <2>5. UNCHANGED <<chain, store, expireIdx>>
      BY <1>5, Zenon DEF SaveStored, SaveCompleted, chainVars
    <2>6. Grows
      BY <2>5, <1>0, Zenon DEF Grows, CompletedIsStored
    <2>7. Good(q, j, store', chain') /\ q \in Running
      BY <2>2, <2>3, <2>4, <2>5, <1>3, Zenon DEF Good, Backed, Running
    <2>8. pc' = [pc EXCEPT ![t] = q] /\ job' = [job EXCEPT ![t] = j]
      <3>1. CASE SaveStored(t)
        <4>1. q = "tx" /\ j = [j0 EXCEPT !.state = "stored"]
          BY <3>1, <2>1, <2>3, Zenon
        <4> QED BY <3>1, <4>1, Zenon DEF SaveStored
      <3>2. CASE ~SaveStored(t)
        <4>1. q = "expire" /\ j = [j0 EXCEPT !.state = "completed"]
          BY <3>2, <2>1, <2>3, Zenon
        <4> QED BY <3>2, <4>1, <1>5, Zenon DEF SaveCompleted
      <3> QED BY <3>1, <3>2, Zenon
    <2>9. ds' = [ds EXCEPT ![j.shard] = j]
      <3>1. job'[t] = j
        BY <2>8, <1>0, Zenon DEF TypeOK
      <3> QED BY <3>1, <1>5, Zenon DEF SaveStored, SaveCompleted, SaveShard
    <2>10. TypeOK'
      BY <2>2, <2>5, <2>7, <2>8, <2>9, <1>0, <1>1, <1>3, Zenon DEF TypeOK
    <2> QED BY <2>2, <2>6, <2>7, <2>8, <2>9, <2>10, <1>1, <1>2, <1>3, Moves, Zenon
  <1>6. CASE TxFails(t) \/ TxSucceeds(t)
    <2>1. PICK j : j = j0
      BY Zenon
    <2>2. /\ pc[t] = "tx" /\ j.state = "stored" /\ CidOf[j.shard] \in store
          /\ store' = store /\ expireIdx' = expireIdx
          /\ chain' \in {chain, [chain EXCEPT ![j.shard] = "completed"]}
      BY <1>3, <1>6, <2>1, Zenon DEF TxFails, TxSucceeds, diskVars, Good, Backed
    <2>3. Grows
      BY <2>1, <2>2, <1>0, <1>3, Zenon DEF Grows, CompletedIsStored, TypeOK
    <2>4. Good("queued", j, store', chain')
      BY <1>3, <2>1, <2>2, <2>3, GoodGrows, Zenon DEF Good
    <2>5. PICK q \in {"queued", "sent"} :
             /\ pc' = [pc EXCEPT ![t] = q]
             /\ q = "sent" => chain'[j.shard] = "completed"
      BY <1>0, <1>3, <1>6, <2>1, Zenon DEF TxFails, TxSucceeds, FailAndRetry, TypeOK
    <2>6. Good(q, j, store', chain')
      BY <2>2, <2>4, <2>5, Zenon DEF Good
    <2>7. job' = [job EXCEPT ![t] = j]
      BY <1>0, <1>6, <2>1, Zenon DEF TxFails, TxSucceeds, TypeOK
    <2>8. ds' \in {ds, [ds EXCEPT ![j.shard] = j]}
      BY <1>6, <2>1, Zenon DEF TxFails, TxSucceeds, FailAndRetry, SaveShard, diskVars
    <2>9. TypeOK'
      BY <2>1, <2>2, <2>5, <2>7, <2>8, <1>0, <1>1, <1>3, SMTT(30) DEF TypeOK, Running
    <2> QED BY <2>1, <2>3, <2>5, <2>6, <2>7, <2>8, <2>9, <1>1, <1>2, <1>3, Moves, Zenon DEF Running
  <1>7. CASE SaveShardExpire(t)
    <2>1. PICK j : j = j0
      BY Zenon
    <2>2. /\ pc[t] = "expire" /\ UNCHANGED <<chain, store, ds, job>>
          /\ pc' = [pc EXCEPT ![t] = "notify"]
          /\ expireIdx' \subseteq Shard
      BY <1>0, <1>3, <1>7, Zenon DEF SaveShardExpire, chainVars, TypeOK
    <2>3. Grows
      BY <2>2, <1>0, Zenon DEF Grows, CompletedIsStored
    <2>4. Good("notify", j, store', chain')
      BY <2>1, <2>2, <1>3, Zenon DEF Good
    <2>5. job' = [job EXCEPT ![t] = j]
      BY <2>1, <2>2, <1>0, Zenon DEF TypeOK
    <2>6. TypeOK'
      BY <2>2, <1>0, <1>1, Zenon DEF TypeOK, Running
    <2> QED BY <2>1, <2>2, <2>3, <2>4, <2>5, <2>6, <1>1, <1>2, <1>3, Moves, Zenon DEF Running
  <1>8. CASE Notify(t)
    <2>1. /\ pc[t] = "notify" /\ UNCHANGED <<chain, store, expireIdx>>
          /\ pc' = [pc EXCEPT ![t] = "free"] /\ job' = [job EXCEPT ![t] = None]
          /\ ds' = ds \/ ds' = [ds EXCEPT ![j0.shard] = j0]
      BY <1>8, Zenon DEF Notify, Done, SaveShard, chainVars
    <2>2. j0.state \notin Unfinished /\ Backed(j0, store, chain)
      BY <2>1, <1>3, Zenon DEF Good, Unfinished
    <2> QED BY <2>1, <2>2, <1>1, <1>2, <1>3, Leaves, Zenon
  <1> QED BY <1>4, <1>5, <1>6, <1>7, <1>8, Zenon DEF Run

(* A crash empties the scheduler; nothing is claimed until the restarted   *)
(* node has scanned a key.                                                 *)
LEMMA CrashIInv ==
    ASSUME IInv, Crash \/ (\E t \in Task : FetchPanics(t)) \/ Restart \/ (\E s \in Shard : ScanOther(s))
    PROVE  IInv'
  <1>0. TypeOK /\ RecordInv /\ TaskInv /\ ScheduledInv /\ CompletedIsStored /\ DownInv
    BY Zenon DEF IInv
  <1>1. UNCHANGED <<height, chain, store, ds>>
    BY Zenon DEF Crash, FetchPanics, Restart, ScanOther, chainVars, diskVars
  <1>2. RecordInv' /\ CompletedIsStored'
    BY <1>0, <1>1, Zenon DEF RecordInv, CompletedIsStored
  <1>3. CASE Crash \/ \E t \in Task : FetchPanics(t)
    <2>1. Stopped /\ UNCHANGED <<expireIdx, unscanned>>
      BY <1>3, Zenon DEF Crash, FetchPanics, diskVars
    <2>2. TypeOK'
      BY <2>1, <1>0, <1>1, Zenon DEF TypeOK, Stopped
    <2> QED BY <2>1, <2>2, <1>2, Zenon DEF IInv, Stopped, TaskInv, ScheduledInv, DownInv
  <1>4. CASE Restart
    <2>1. TypeOK'
      BY <1>4, <1>0, <1>1, Zenon DEF TypeOK, Restart
    <2> QED BY <2>1, <1>0, <1>1, <1>2, <1>4, Zenon DEF IInv, Restart, TaskInv, ScheduledInv, DownInv
  <1>5. CASE \E s \in Shard : ScanOther(s)
    <2>1. PICK s \in Shard : ScanOther(s)
      BY <1>5, Zenon
    <2>2. /\ UNCHANGED <<expireIdx, up, pc, job>> /\ unscanned' = unscanned \ {s}
          /\ ~(ds[s] # None /\ ds[s].state \in Unfinished)
      BY <2>1, Zenon DEF ScanOther, IsPending, Unfinished, diskVars
    <2>3. TypeOK'
      BY <2>2, <1>0, <1>1, Zenon DEF TypeOK
    <2>4. ScheduledInv'
      BY <2>2, <1>0, <1>1, SMTT(30) DEF ScheduledInv, Witness
    <2> QED BY <2>2, <2>3, <2>4, <1>0, <1>1, <1>2, Zenon DEF IInv, TaskInv, DownInv
  <1> QED BY <1>3, <1>4, <1>5, Zenon

-----------------------------------------------------------------------------
(* The strengthened invariant holds of every behaviour of the node.        *)
THEOREM Invariance == Spec => []IInv
  <1>1. IInv /\ [Next]_vars => IInv'
    <2> SUFFICES ASSUME IInv, [Next]_vars PROVE IInv'
      BY Zenon
    <2>1. CASE Next
      BY <2>1, ChainIInv, RequestIInv, StartIInv, RunIInv, CrashIInv, Zenon DEF Next
    <2>2. CASE UNCHANGED vars
      BY <2>2, SMTT(30) DEF vars, IInv, TypeOK, RecordInv, TaskInv, CompletedIsStored, ScheduledInv,
                  Witness, DownInv
    <2> QED BY <2>1, <2>2, Zenon
  <1> QED BY <1>1, InitIInv, PTL DEF Spec

(* The handlers and goroutines of the storage service keep the types of    *)
(* their state; in particular no copy of a record counts more than         *)
(* MAX_RETRIES attempts.                                                   *)
THEOREM TypeCorrect == Spec => []TypeOK
  <1>1. IInv => TypeOK
    BY Zenon DEF IInv
  <1> QED BY <1>1, Invariance, PTL

(* For any number of shards, tasks, crashes and retries, the node holds    *)
(* the content of every shard that the chain has completed.                *)
THEOREM StoredTheorem == Spec => []CompletedIsStored
  <1>1. IInv => CompletedIsStored
    BY Zenon DEF IInv
  <1> QED BY <1>1, Invariance, PTL

(* A completed record or a pending notification is backed by the chain.    *)
THEOREM OnChainTheorem == Spec => []CompleteIsOnChain
  <1>1. IInv => CompleteIsOnChain
    BY Zenon DEF IInv, RecordInv, TaskInv, Good, Backed, CompleteIsOnChain
  <1> QED BY <1>1, Invariance, PTL

(* Every unfinished record of a running node is scheduled, or waits to be  *)
(* scanned after a restart.                                                *)
THEOREM ScheduledTheorem == Spec => []UnfinishedIsScheduled
  <1>1. IInv => UnfinishedIsScheduled
    BY Zenon DEF IInv, ScheduledInv, Witness, Unfinished, UnfinishedIsScheduled
  <1> QED BY <1>1, Invariance, PTL
=============================================================================
