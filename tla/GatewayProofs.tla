--------------------------- MODULE GatewayProofs ---------------------------
(***************************************************************************)
(* Theorems about module Gateway, for every number of proposals, providers *)
(* and tasks, and any deadline and number of retries: what a record says   *)
(* agrees with the chain and the staged content of an order stays until    *)
(* its shards are completed, whatever fails; and, when the chain answers,  *)
(* no order is forgotten.                                                  *)
(***************************************************************************)
EXTENDS Gateway, TLAPS

(* Every proposal creates a data model of its own.  The record of a model  *)
(* that two proposals share is the one of the last, and the handlers of    *)
(* both use it.                                                            *)
OwnModel == \A o, q \in Order : DataOf[o] = DataOf[q] => o = q

-----------------------------------------------------------------------------
(* The inductive invariant                                                 *)

OnChain(o) == created[o] # None /\ allShardsCompleted(o)

(* A record that was exhausted is terminated, and may be completed later;  *)
(* providers are known from the answer that has the order id.              *)
InfoOK(j) ==
    /\ j \in OrderInfo
    /\ j.tries < MAX_RETRIES \/ j.state \in {"complete", "terminate"}
    /\ j.order = None => \A p \in Sp : j.shards[p] = "none"

Committing == {"send", "ready", "push", "watch"}

(* A proposal is sent to the chain once.                                   *)
ChainInv ==
    /\ height \in 1 .. MaxHeight
    /\ created \in [Order -> (1 .. MaxHeight) \cup {None}]
    /\ shard \in [Order -> [Sp -> {"none", "waiting", "completed", "timeout"}]]
    /\ commit \in [Order -> {"new", "send", "ready", "push", "watch", "returned"}]
    /\ \A o \in Order :
          /\ created[o] # None => commit[o] \notin {"new", "send"} /\ created[o] <= height
          /\ commit[o] \in {"ready", "push", "watch"} => created[o] # None
          /\ \A p \in Sp : shard[o][p] # "none" => created[o] # None

NetInv == asked \subseteq Order \X Sp /\ notices \subseteq Order \X Sp

StageInv ==
    /\ staged \subseteq Order
    /\ \A o \in Order : commit[o] = "send" => o \in staged
    /\ ContentStaged

(* The record of a model is the one of its proposal.                       *)
RecordInv ==
    /\ ds \in [DataId -> OrderInfo \cup {None}]
    /\ \A o \in Order : commit[o] # "new" => ds[DataOf[o]] # None
    /\ \A d \in DataId : ds[d] # None =>
          /\ InfoOK(ds[d]) /\ DataOf[ds[d].cid] = d
          /\ ds[d].state = "complete" => OnChain(ds[d].cid)

CommitInv ==
    /\ up \in BOOLEAN
    /\ info \in [Order -> OrderInfo \cup {None}]
    /\ \A o \in Order : commit[o] \in Committing =>
          /\ InfoOK(info[o]) /\ info[o].cid = o /\ info[o].state \in {"staged", "ready"}
          /\ up

TaskInv ==
    /\ pc \in [Task -> {"free", "queued", "save"}]
    /\ job \in [Task -> OrderInfo \cup {None}]
    /\ \A t \in Task : pc[t] # "free" => InfoOK(job[t]) /\ job[t].state # "complete"

(* What a handler has read of the chain stays true.                        *)
HandlerInv ==
    /\ handler \in [Order \X Sp -> {"idle", "lock", "save", "unstage"}]
    /\ seen \in [Order \X Sp -> BOOLEAN]
    /\ copy \in [Order \X Sp -> OrderInfo \cup {None}]
    /\ \A o \in Order, p \in Sp :
          /\ handler[<<o, p>>] # "idle" => created[o] # None
          /\ seen[<<o, p>>] => OnChain(o)
          /\ handler[<<o, p>>] \in {"save", "unstage"} =>
                /\ InfoOK(copy[<<o, p>>]) /\ copy[<<o, p>>].cid = o
                /\ copy[<<o, p>>].state = "complete" => OnChain(o)
          /\ handler[<<o, p>>] = "unstage" => OnChain(o)

LockInv == lock \in [Order \cup {None} -> Task \cup (Order \X Sp) \cup {None}]

TimerInv ==
    /\ timeoutMap \subseteq Entry
    /\ latestHeight \in 0 .. MaxHeight
    /\ due \subseteq Entry
    /\ unscanned \subseteq DataId
    /\ unrestored \subseteq DataId
    /\ \A d \in unscanned \cup unrestored : ds[d] # None
    /\ ~up => unscanned = {} /\ unrestored = {}

GatewayInv ==
    /\ ChainInv /\ NetInv /\ StageInv /\ RecordInv /\ CommitInv
    /\ TaskInv /\ HandlerInv /\ LockInv /\ TimerInv

-----------------------------------------------------------------------------
(* What a step leaves alone                                                *)

LEMMA InfoFacts ==
    ASSUME NEW j, InfoOK(j)
    PROVE  j \in OrderInfo /\ j # None /\ j.cid \in Order /\ DataOf[j.cid] \in DataId
  BY GatewayAssumption, NoneAssumption, Zenon DEF InfoOK, OrderInfo

(* A step that makes no order incomplete again                             *)
Progress == \A o \in Order : /\ created[o] # None => created'[o] # None
                             /\ OnChain(o) => OnChain(o)'

LEMMA RecordFrame == ASSUME RecordInv, UNCHANGED <<ds, commit>>, Progress PROVE RecordInv'
<1>1. \A d \in DataId : ds[d] # None => ds[d].cid \in Order
  BY InfoFacts, Zenon DEF RecordInv
<1> QED BY <1>1, Zenon DEF RecordInv, Progress

LEMMA HandlerFrame == ASSUME HandlerInv, UNCHANGED handlerVars, Progress PROVE HandlerInv'
  BY Zenon DEF HandlerInv, Progress, handlerVars

LEMMA CommitFrame == ASSUME CommitInv, UNCHANGED <<commit, info, up>> PROVE CommitInv'
  BY Zenon DEF CommitInv

LEMMA TaskFrame == ASSUME TaskInv, UNCHANGED taskVars PROVE TaskInv'
  BY Zenon DEF TaskInv, taskVars

LEMMA StageFrame ==
    ASSUME StageInv, UNCHANGED <<staged, commit, created>>, Progress PROVE StageInv'
  BY Zenon DEF StageInv, ContentStaged, Progress, OnChain

LEMMA StageMove ==
    ASSUME StageInv, UNCHANGED staged, Progress,
           \A o \in Order : \/ o \in staged
                            \/ created'[o] = created[o] /\ (commit'[o] = "send" => commit[o] = "send")
    PROVE  StageInv'
<1>1. staged' \subseteq Order /\ \A o \in Order : commit'[o] = "send" => o \in staged'
  BY Zenon DEF StageInv
<1>2. ASSUME NEW o \in Order, created'[o] # None, ~allShardsCompleted(o)' PROVE o \in staged'
  <2>1. o \in staged \/ (created[o] # None /\ ~allShardsCompleted(o))
    BY <1>2, Zenon DEF Progress, OnChain
  <2> QED BY <2>1, Zenon DEF StageInv, ContentStaged
<1> QED BY <1>1, <1>2, Zenon DEF StageInv, ContentStaged

LEMMA ChainFrame == ASSUME ChainInv, UNCHANGED <<chainVars, commit>> PROVE ChainInv' /\ Progress
  BY Zenon DEF ChainInv, chainVars, Progress, OnChain, allShardsCompleted, Providers

LEMMA TimerFrame ==
    ASSUME TimerInv, UNCHANGED <<timerVars, startVars>>,
           \A d \in DataId : ds[d] # None => ds'[d] # None
    PROVE  TimerInv'
  BY Zenon DEF TimerInv, timerVars, startVars

LEMMA LockFrame == ASSUME LockInv, UNCHANGED lock PROVE LockInv'
  BY Zenon DEF LockInv

LEMMA NetFrame == ASSUME NetInv, UNCHANGED netVars PROVE NetInv'
  BY Zenon DEF NetInv, netVars

(* SaveOrder of a sound record.                                            *)
LEMMA SaveRecord ==
    ASSUME RecordInv, NEW j, InfoOK(j), SaveOrder(j), Progress,
           j.state = "complete" => OnChain(j.cid)',
           \A o \in Order : commit'[o] # "new" => commit[o] # "new" \/ o = j.cid
    PROVE  RecordInv' /\ \A d \in DataId : ds[d] # None => ds'[d] # None
<1>1. j \in OrderInfo /\ j # None /\ j.cid \in Order /\ DataOf[j.cid] \in DataId
  BY InfoFacts, Zenon
<1>2. /\ ds' \in [DataId -> OrderInfo \cup {None}] /\ ds'[DataOf[j.cid]] = j
      /\ \A d \in DataId : d # DataOf[j.cid] => ds'[d] = ds[d]
  BY <1>1, Zenon DEF SaveOrder, RecordInv
<1>3. \A d \in DataId : ds[d] # None => ds'[d] # None
  BY <1>1, <1>2, Zenon
<1>4. \A o \in Order : commit'[o] # "new" => ds'[DataOf[o]] # None
  BY <1>1, <1>2, <1>3, GatewayAssumption, Zenon DEF RecordInv
<1>5. ASSUME NEW d \in DataId, ds'[d] # None
      PROVE  (/\ InfoOK(ds[d]) /\ DataOf[ds[d].cid] = d
              /\ ds[d].state = "complete" => OnChain(ds[d].cid))'
  <2>1. CASE d = DataOf[j.cid]
    BY <1>1, <1>2, <2>1, Zenon
  <2>2. CASE d # DataOf[j.cid]
    <3>1. ds'[d] = ds[d] /\ ds[d] # None
      BY <1>2, <1>5, <2>2, Zenon
    <3>2. /\ InfoOK(ds[d]) /\ DataOf[ds[d].cid] = d
          /\ ds[d].state = "complete" => OnChain(ds[d].cid)
      BY <3>1, Zenon DEF RecordInv
    <3>3. ds[d].cid \in Order
      BY <3>2, InfoFacts, Zenon
    <3> QED BY <3>1, <3>2, <3>3, Zenon DEF Progress
  <2> QED BY <2>1, <2>2, Zenon
<1> QED BY <1>2, <1>3, <1>4, <1>5, Zenon DEF RecordInv

LEMMA InitGatewayInv == Init => GatewayInv
<1> SUFFICES ASSUME Init PROVE GatewayInv
  BY Zenon
<1>1. ChainInv
  BY GatewayAssumption, SMTT(30) DEF Init, ChainInv
<1>2. NetInv /\ StageInv
  BY Zenon DEF Init, NetInv, StageInv, ContentStaged
<1>3. RecordInv /\ CommitInv /\ LockInv
  BY GatewayAssumption, Zenon DEF Init, RecordInv, CommitInv, LockInv, Committing
<1>4. TaskInv /\ HandlerInv /\ TimerInv
  BY GatewayAssumption, SMTT(30) DEF Init, TaskInv, HandlerInv, TimerInv
<1> QED BY <1>1, <1>2, <1>3, <1>4, Zenon DEF GatewayInv

-----------------------------------------------------------------------------
(* The chain and the storage nodes                                         *)

ShardStatus == [Order -> [Sp -> {"none", "waiting", "completed", "timeout"}]]

(* Shards change on orders that exist; completed ones stay as they are.    *)
ShardStep ==
    /\ shard' \in ShardStatus
    /\ \A o \in Order, p \in Sp : shard'[o][p] # "none" => created[o] # None
    /\ \A o \in Order, p \in Sp :
          shard'[o][p] = shard[o][p] \/ shard'[o][p] = "completed"
          \/ \E q \in Sp : shard[o][q] \notin {"completed", "none"}

LEMMA ReassignStep ==
    ASSUME ChainInv, NEW o \in Order, NEW p \in Sp, NEW q \in Sp, Reassign(o, p, q)
    PROVE  ShardStep
<1>1. shard \in ShardStatus /\ created[o] # None
  BY Zenon DEF ChainInv, Reassign, ShardStatus
<1>2. /\ shard' \in ShardStatus
      /\ \A x \in Order, y \in Sp : x # o => shard'[x][y] = shard[x][y]
  BY <1>1, Zenon DEF Reassign, ShardStatus
<1>3. shard[o][p] \notin {"completed", "none"}
  BY Zenon DEF Reassign
<1> QED BY <1>1, <1>2, <1>3, SMTT(30) DEF ShardStep, ChainInv

LEMMA DropStep ==
    ASSUME ChainInv, NEW o \in Order, NEW p \in Sp, DropTimedOut(o, p)
    PROVE  ShardStep
<1>1. shard \in ShardStatus /\ created[o] # None
  BY Zenon DEF ChainInv, DropTimedOut, ShardStatus
<1>2. /\ shard' \in ShardStatus
      /\ \A x \in Order, y \in Sp : x # o => shard'[x][y] = shard[x][y]
  BY <1>1, Zenon DEF DropTimedOut, ShardStatus
<1>3. shard[o][p] \notin {"completed", "none"}
  BY Zenon DEF DropTimedOut
<1> QED BY <1>1, <1>2, <1>3, SMTT(30) DEF ShardStep, ChainInv

LEMMA CompleteStep ==
    ASSUME ChainInv, NEW o \in Order, NEW p \in Sp, NodeCompletes(o, p)
    PROVE  ShardStep
<1>1. shard \in ShardStatus /\ created[o] # None
  BY Zenon DEF ChainInv, NodeCompletes, ShardStatus
<1>2. /\ shard' \in ShardStatus
      /\ \A x \in Order, y \in Sp :
            shard'[x][y] = shard[x][y] \/ (x = o /\ shard'[x][y] = "completed")
  BY <1>1, Zenon DEF NodeCompletes, ShardStatus
<1> QED BY <1>1, <1>2, SMTT(30) DEF ShardStep, ChainInv

LEMMA ChainKeepsInv ==
    ASSUME GatewayInv, Chain \/ Nodes PROVE GatewayInv' /\ Progress
<1>1. UNCHANGED <<created, diskVars, commitVars, taskVars, handlerVars, lock, timerVars, startVars>>
  BY Zenon DEF Chain, Nodes, NewBlock, Reassign, DropTimedOut, NodeCompletes, NodeGivesUp, LoseNotice,
     chainVars
<1>2. UNCHANGED shard \/ ShardStep
  BY ReassignStep, DropStep, CompleteStep, Zenon
  DEF GatewayInv, Chain, Nodes, NewBlock, NodeGivesUp, LoseNotice, chainVars
<1>3. Progress
  BY <1>1, <1>2, Zenon DEF ShardStep, Progress, OnChain, allShardsCompleted, Providers
<1>4. height' \in 1 .. MaxHeight /\ height <= height'
  <2>1. UNCHANGED height \/ NewBlock
    BY Zenon DEF Chain, Nodes, Reassign, DropTimedOut, NodeCompletes, NodeGivesUp, LoseNotice, chainVars
  <2> QED BY <2>1, GatewayAssumption, SMTT(30) DEF NewBlock, GatewayInv, ChainInv
<1>5. NetInv'
  BY Zenon DEF GatewayInv, NetInv, Chain, Nodes, NewBlock, Reassign, DropTimedOut, NodeCompletes,
     NodeGivesUp, LoseNotice, netVars
<1>6. ChainInv'
  BY <1>1, <1>2, <1>4, GatewayAssumption, SMTT(30) DEF GatewayInv, ChainInv, ShardStep, ShardStatus, commitVars
<1>7. StageInv' /\ RecordInv' /\ HandlerInv'
  BY <1>1, <1>3, StageFrame, RecordFrame, HandlerFrame, Zenon DEF GatewayInv, diskVars, commitVars
<1>8. CommitInv' /\ TaskInv' /\ LockInv' /\ TimerInv'
  BY <1>1, CommitFrame, TaskFrame, LockFrame, TimerFrame, Zenon
  DEF GatewayInv, diskVars, commitVars, startVars
<1> QED BY <1>3, <1>5, <1>6, <1>7, <1>8, Zenon DEF GatewayInv

-----------------------------------------------------------------------------
(* CommitModel                                                             *)

(* A proposal moves on and leaves the chain alone.                         *)
LEMMA CommitMove ==
    ASSUME ChainInv, UNCHANGED chainVars, NEW o \in Order,
           NEW c \in {"send", "push", "watch", "returned"},
           commit' = [commit EXCEPT ![o] = c],
           c = "send" => commit[o] = "new",
           c \in {"push", "watch"} => commit[o] \in {"ready", "push"}
    PROVE  ChainInv' /\ Progress
<1>1. Progress
  BY Zenon DEF chainVars, Progress, OnChain, allShardsCompleted, Providers
<1>2. \A q \in Order : commit'[q] = IF q = o THEN c ELSE commit[q]
  BY Zenon DEF ChainInv
<1>3. commit' \in [Order -> {"new", "send", "ready", "push", "watch", "returned"}]
  BY Zenon DEF ChainInv
<1>4. UNCHANGED <<height, created, shard>>
  BY Zenon DEF chainVars
<1> QED BY <1>1, <1>2, <1>3, <1>4, Zenon DEF ChainInv

(* ... and has a sound local record as long as it runs.                    *)
LEMMA InfoMove ==
    ASSUME CommitInv, ChainInv, UNCHANGED up, NEW o \in Order, NEW c, NEW j,
           commit' = [commit EXCEPT ![o] = c], info' = [info EXCEPT ![o] = j],
           \/ c \notin Committing /\ j = None
           \/ up /\ InfoOK(j) /\ j.cid = o /\ j.state \in {"staged", "ready"}
    PROVE  CommitInv'
<1>1. j \in OrderInfo \cup {None}
  BY Zenon DEF InfoOK
<1>2. \A q \in Order : /\ commit'[q] = IF q = o THEN c ELSE commit[q]
                       /\ info'[q] = IF q = o THEN j ELSE info[q]
  BY Zenon DEF ChainInv, CommitInv
<1>3. info' \in [Order -> OrderInfo \cup {None}]
  BY <1>1, Zenon DEF CommitInv
<1> QED BY <1>2, <1>3, Zenon DEF CommitInv

NewInfo(o) == [order |-> None, cid |-> o, state |-> "staged", tries |-> 0,
               expire |-> 0, shards |-> [p \in Sp |-> "none"]]

LEMMA StageShardKeepsInv ==
    ASSUME GatewayInv, NEW o \in Order, StageShard(o) PROVE GatewayInv' /\ Progress
<1> DEFINE j == NewInfo(o)
<1>1. /\ InfoOK(j) /\ j.cid = o /\ j.state = "staged"
  BY GatewayAssumption, SMTT(30) DEF InfoOK, OrderInfo, OrderState, NewInfo
<1>2. /\ up /\ commit[o] = "new" /\ staged' = staged \cup {o}
      /\ info' = [info EXCEPT ![o] = j] /\ SaveOrder(info'[o])
      /\ commit' = [commit EXCEPT ![o] = "send"]
      /\ UNCHANGED <<chainVars, netVars, taskVars, handlerVars, lock, timerVars, startVars>>
  BY Zenon DEF StageShard, NewInfo
<1> HIDE DEF j
<1>3. ChainInv' /\ Progress
  BY <1>2, CommitMove, Zenon DEF GatewayInv
<1>4. CommitInv'
  BY <1>1, <1>2, InfoMove, Zenon DEF GatewayInv, startVars
<1>5. SaveOrder(j) /\ \A q \in Order : commit'[q] # "new" => commit[q] # "new" \/ q = o
  BY <1>2, Zenon DEF GatewayInv, CommitInv, ChainInv
<1>6. RecordInv' /\ \A d \in DataId : ds[d] # None => ds'[d] # None
  BY <1>1, <1>3, <1>5, SaveRecord, Zenon DEF GatewayInv
<1>7. StageInv'
  BY <1>2, Zenon DEF GatewayInv, StageInv, ContentStaged, ChainInv, chainVars, allShardsCompleted, Providers
<1>8. HandlerInv' /\ TaskInv' /\ LockInv' /\ TimerInv' /\ NetInv'
  BY <1>2, <1>3, <1>6, HandlerFrame, TaskFrame, LockFrame, TimerFrame, NetFrame, Zenon DEF GatewayInv
<1> QED BY <1>3, <1>4, <1>6, <1>7, <1>8, Zenon DEF GatewayInv

LEMMA SaveReadyKeepsInv ==
    ASSUME GatewayInv, NEW o \in Order, SaveReady(o) PROVE GatewayInv' /\ Progress
<1>1. /\ InfoOK(info[o]) /\ info[o].cid = o /\ info[o].state \in {"staged", "ready"}
      /\ info \in [Order -> OrderInfo \cup {None}] /\ created[o] \in Nat
  BY NoneAssumption, SMTT(30) DEF SaveReady, GatewayInv, CommitInv, Committing, ChainInv
<1> PICK expire \in {created[o] + TIMEOUT} \cup (IF QueryFails THEN {0} ELSE {}) :
          info' = [info EXCEPT ![o].state = "ready", ![o].expire = expire]
  BY Zenon DEF SaveReady
<1>2. expire \in Nat
  BY <1>1, GatewayAssumption, SMTT(30)
<1> DEFINE j == [info[o] EXCEPT !.state = "ready", !.expire = expire]
<1>3. info' = [info EXCEPT ![o] = j]
  BY <1>1, Zenon
<1>4. InfoOK(j) /\ j.cid = o /\ j.state = "ready"
  BY <1>1, <1>2, Zenon DEF InfoOK, OrderInfo, OrderState
<1> HIDE DEF j
<1>5. /\ up /\ commit[o] = "ready" /\ SaveOrder(info'[o])
      /\ commit' = [commit EXCEPT ![o] = "push"]
      /\ UNCHANGED <<chainVars, netVars, staged, taskVars, handlerVars, lock, timerVars, startVars>>
  BY Zenon DEF SaveReady
<1>6. ChainInv' /\ Progress
  BY <1>5, CommitMove, Zenon DEF GatewayInv
<1>7. CommitInv'
  BY <1>3, <1>4, <1>5, InfoMove, Zenon DEF GatewayInv, startVars
<1>8. SaveOrder(j) /\ \A q \in Order : commit'[q] # "new" => commit[q] # "new"
  BY <1>1, <1>3, <1>5, Zenon DEF GatewayInv, ChainInv
<1>9. RecordInv' /\ \A d \in DataId : ds[d] # None => ds'[d] # None
  BY <1>4, <1>6, <1>8, SaveRecord, Zenon DEF GatewayInv
<1>10. StageInv'
  BY <1>5, Zenon DEF GatewayInv, StageInv, ContentStaged, ChainInv, chainVars, allShardsCompleted, Providers
<1>11. HandlerInv' /\ TaskInv' /\ LockInv' /\ TimerInv' /\ NetInv'
  BY <1>5, <1>6, <1>9, HandlerFrame, TaskFrame, LockFrame, TimerFrame, NetFrame, Zenon DEF GatewayInv
<1> QED BY <1>6, <1>7, <1>9, <1>10, <1>11, Zenon DEF GatewayInv

SentInfo(o, chosen) ==
    [info[o] EXCEPT !.shards = [p \in Sp |-> IF p \in chosen THEN "assigned" ELSE "none"], !.order = o]

LEMMA SendOrderKeepsInv ==
    ASSUME GatewayInv, NEW o \in Order, NEW chosen \in SUBSET Sp, SendOrder(o, chosen)
    PROVE  GatewayInv' /\ Progress
<1>1. /\ up /\ commit[o] = "send" /\ created[o] = None /\ o \in staged
      /\ InfoOK(info[o]) /\ info[o].cid = o /\ info[o].state \in {"staged", "ready"}
      /\ info \in [Order -> OrderInfo \cup {None}]
  BY Zenon DEF SendOrder, GatewayInv, CommitInv, Committing, ChainInv, StageInv
<1>2. UNCHANGED <<height, netVars, diskVars, taskVars, handlerVars, lock, timerVars, startVars>>
  BY Zenon DEF SendOrder
<1>3. PICK c \in {"ready", "returned"} :
          /\ commit' = [commit EXCEPT ![o] = c]
          /\ c = "ready" => ChainStores(o, chosen)
          /\ ChainStores(o, chosen) \/ UNCHANGED <<created, shard>>
  BY Zenon DEF SendOrder
<1>4. PICK j : /\ info' = [info EXCEPT ![o] = j]
               /\ (c = "returned" /\ j = None) \/ j = SentInfo(o, chosen)
  <2>1. CASE info' = [info EXCEPT ![o] = None] /\ commit' = [commit EXCEPT ![o] = "returned"]
    <3>1. c = "returned"
      BY <1>3, <2>1, Zenon DEF GatewayInv, ChainInv
    <3> QED BY <2>1, <3>1, Zenon
  <2>2. CASE info' = [info EXCEPT ![o].shards = [p \in Sp |-> IF p \in chosen THEN "assigned" ELSE "none"],
                                  ![o].order = o]
    <3>1. info' = [info EXCEPT ![o] = SentInfo(o, chosen)]
      BY <1>1, <2>2, Zenon DEF SentInfo
    <3> QED BY <3>1, Zenon
  <2> QED BY <2>1, <2>2, Zenon DEF SendOrder
<1>5. CommitInv'
  <2>1. /\ InfoOK(SentInfo(o, chosen)) /\ SentInfo(o, chosen).cid = o
        /\ SentInfo(o, chosen).state \in {"staged", "ready"}
    BY <1>1, GatewayAssumption, Zenon DEF SentInfo, InfoOK, OrderInfo, OrderState
  <2> QED BY <1>1, <1>2, <1>3, <1>4, <2>1, InfoMove, Zenon DEF GatewayInv, startVars, Committing
<1>6. /\ created' \in [Order -> (1 .. MaxHeight) \cup {None}] /\ shard' \in ShardStatus
      /\ \A q \in Order : q # o => created'[q] = created[q] /\ shard'[q] = shard[q]
      /\ \/ created'[o] = height /\ height # None
         \/ c = "returned" /\ UNCHANGED <<created, shard>>
  <2>1. /\ created \in [Order -> (1 .. MaxHeight) \cup {None}] /\ shard \in ShardStatus
        /\ height \in 1 .. MaxHeight /\ height # None
    BY GatewayAssumption, SMTT(30) DEF GatewayInv, ChainInv, ShardStatus
  <2> QED BY <1>3, <2>1, SMTT(30) DEF ChainStores, ShardStatus
<1>7. \A q \in Order : commit'[q] = IF q = o THEN c ELSE commit[q]
  BY <1>3, Zenon DEF GatewayInv, ChainInv
<1>8. ChainInv'
  <2>1. commit' \in [Order -> {"new", "send", "ready", "push", "watch", "returned"}]
    BY <1>3, Zenon DEF GatewayInv, ChainInv
  <2>2. height \in 1 .. MaxHeight /\ UNCHANGED height
    BY <1>2, Zenon DEF GatewayInv, ChainInv
  <2>3. ASSUME NEW q \in Order
        PROVE  (/\ created[q] # None => commit[q] \notin {"new", "send"} /\ created[q] <= height
                /\ commit[q] \in {"ready", "push", "watch"} => created[q] # None
                /\ \A p \in Sp : shard[q][p] # "none" => created[q] # None)'
    <3>1. CASE q = o
      BY <1>1, <1>6, <1>7, <2>2, <3>1, SMTT(30) DEF GatewayInv, ChainInv
    <3>2. CASE q # o
      BY <1>6, <1>7, <2>2, <3>2, SMTT(30) DEF GatewayInv, ChainInv
    <3> QED BY <3>1, <3>2, Zenon
  <2> QED BY <1>6, <2>1, <2>2, <2>3, Zenon DEF ChainInv, ShardStatus
<1>9. Progress
  BY <1>1, <1>6, SMTT(30) DEF Progress, OnChain, allShardsCompleted, Providers
<1>10. StageInv'
  <2>1. StageInv /\ o \in staged
    BY <1>1, Zenon DEF GatewayInv, StageInv
  <2>2. \A q \in Order : q \in staged \/ (created'[q] = created[q] /\ commit'[q] = commit[q])
    BY <1>6, <1>7, <2>1, Zenon
  <2> QED BY <1>2, <1>9, <2>1, <2>2, StageMove, Zenon DEF diskVars
<1>11. RecordInv' /\ \A d \in DataId : ds[d] # None => ds'[d] # None
  <2>1. \A d \in DataId : ds[d] # None => ds[d].cid \in Order
    BY InfoFacts, Zenon DEF GatewayInv, RecordInv
  <2>2. \A q \in Order : commit'[q] # "new" => commit[q] # "new"
    BY <1>1, <1>7, Zenon
  <2> QED BY <1>2, <1>9, <2>1, <2>2, Zenon DEF GatewayInv, RecordInv, Progress, diskVars
<1>12. HandlerInv' /\ TaskInv' /\ LockInv' /\ TimerInv' /\ NetInv'
  BY <1>2, <1>9, <1>11, HandlerFrame, TaskFrame, LockFrame, TimerFrame, NetFrame, Zenon DEF GatewayInv
<1> QED BY <1>5, <1>8, <1>9, <1>10, <1>11, <1>12, Zenon DEF GatewayInv

LEMMA PushTask ==
    ASSUME TaskInv, NEW t \in Task, NEW j, InfoOK(j), j.state # "complete", Push(t, j)
    PROVE  TaskInv'
  BY Zenon DEF TaskInv, Push, InfoOK

(* The steps that change neither the chain nor a record.                   *)
LEMMA QuietFrame ==
    ASSUME GatewayInv, UNCHANGED <<chainVars, ds, commit>>
    PROVE  ChainInv' /\ Progress /\ RecordInv' /\ (UNCHANGED staged => StageInv')
<1>1. ChainInv' /\ Progress
  BY ChainFrame, Zenon DEF GatewayInv
<1> QED BY <1>1, RecordFrame, StageFrame, Zenon DEF GatewayInv, chainVars

LEMMA PushOrderKeepsInv ==
    ASSUME GatewayInv, NEW o \in Order, NEW t \in Task, PushOrder(t, o) PROVE GatewayInv' /\ Progress
<1>1. /\ commit[o] = "push" /\ commit' = [commit EXCEPT ![o] = "watch"] /\ Push(t, info[o])
      /\ UNCHANGED <<chainVars, netVars, diskVars, info, handlerVars, lock, timerVars, startVars>>
  BY Zenon DEF PushOrder
<1>2. up /\ InfoOK(info[o]) /\ info[o].cid = o /\ info[o].state \in {"staged", "ready"}
  BY <1>1, Zenon DEF GatewayInv, CommitInv, Committing
<1>3. TaskInv'
  BY <1>1, <1>2, PushTask, Zenon DEF GatewayInv
<1>4. ChainInv' /\ Progress
  BY <1>1, CommitMove, Zenon DEF GatewayInv
<1>5. \A q \in Order : commit'[q] = IF q = o THEN "watch" ELSE commit[q]
  BY <1>1, Zenon DEF GatewayInv, ChainInv
<1>6. CommitInv'
  <2>1. up' = up /\ info' = info
    BY <1>1, Zenon DEF startVars
  <2>2. /\ up \in BOOLEAN /\ info \in [Order -> OrderInfo \cup {None}]
        /\ \A q \in Order : commit[q] \in Committing =>
              InfoOK(info[q]) /\ info[q].cid = q /\ info[q].state \in {"staged", "ready"} /\ up
    BY Zenon DEF GatewayInv, CommitInv
  <2>3. ASSUME NEW q \in Order, commit'[q] \in Committing
        PROVE  InfoOK(info[q]) /\ info[q].cid = q /\ info[q].state \in {"staged", "ready"} /\ up
    <3>1. CASE q = o
      BY <1>2, <3>1, Zenon
    <3>2. CASE q # o
      BY <1>5, <2>2, <2>3, <3>2, Zenon
    <3> QED BY <3>1, <3>2, Zenon
  <2> QED BY <2>1, <2>2, <2>3, Zenon DEF CommitInv
<1>7. StageInv'
  <2>1. created' = created /\ commit'[o] # "send"
    BY <1>1, <1>5, SMTT(30) DEF chainVars
  <2>2. \A q \in Order : created'[q] = created[q] /\ (commit'[q] = "send" => commit[q] = "send")
    BY <1>5, <2>1, Zenon
  <2> QED BY <1>1, <1>4, <2>2, StageMove, Zenon DEF GatewayInv, diskVars
<1>8. RecordInv'
  <2>1. \A d \in DataId : ds[d] # None => ds[d].cid \in Order
    BY InfoFacts, Zenon DEF GatewayInv, RecordInv
  <2> QED BY <1>1, <1>4, <1>5, <2>1, Zenon DEF GatewayInv, RecordInv, Progress, diskVars
<1>9. HandlerInv' /\ LockInv' /\ TimerInv' /\ NetInv'
  BY <1>1, <1>4, HandlerFrame, LockFrame, TimerFrame, NetFrame, Zenon DEF GatewayInv, diskVars
<1> QED BY <1>3, <1>4, <1>6, <1>7, <1>8, <1>9, Zenon DEF GatewayInv

LEMMA WatchTimeoutKeepsInv ==
    ASSUME GatewayInv, NEW o \in Order, WatchTimeout(o) PROVE GatewayInv' /\ Progress
<1>1. /\ commit[o] = "watch" /\ commit' = [commit EXCEPT ![o] = "returned"]
      /\ info' = [info EXCEPT ![o] = None]
      /\ UNCHANGED <<chainVars, netVars, diskVars, taskVars, handlerVars, lock, latestHeight, due, startVars>>
  BY Zenon DEF WatchTimeout
<1>2. info[o].expire \in Nat
  BY <1>1, Zenon DEF GatewayInv, CommitInv, Committing, InfoOK, OrderInfo
<1>3. TimerInv'
  <2>1. timeoutMap' \subseteq Entry
    <3>1. [at |-> info[o].expire, order |-> o, cid |-> o, expire |-> info[o].expire] \in Entry
      BY <1>2, Zenon DEF Entry
    <3>2. timeoutMap \subseteq Entry
      BY Zenon DEF GatewayInv, TimerInv
    <3> QED BY <3>1, <3>2, Zenon DEF WatchTimeout
  <2> QED BY <1>1, <2>1, Zenon DEF GatewayInv, TimerInv, startVars, diskVars
<1>4. ChainInv' /\ Progress
  BY <1>1, CommitMove, Zenon DEF GatewayInv
<1>5. \A q \in Order : commit'[q] = IF q = o THEN "returned" ELSE commit[q]
  BY <1>1, Zenon DEF GatewayInv, ChainInv
<1>6. CommitInv'
  BY <1>1, InfoMove, Zenon DEF GatewayInv, startVars, Committing
<1>7. StageInv'
  <2>1. created' = created /\ commit'[o] # "send"
    BY <1>1, <1>5, SMTT(30) DEF chainVars
  <2>2. \A q \in Order : created'[q] = created[q] /\ (commit'[q] = "send" => commit[q] = "send")
    BY <1>5, <2>1, Zenon
  <2> QED BY <1>1, <1>4, <2>2, StageMove, Zenon DEF GatewayInv, diskVars
<1>8. RecordInv'
  <2>1. \A d \in DataId : ds[d] # None => ds[d].cid \in Order
    BY InfoFacts, Zenon DEF GatewayInv, RecordInv
  <2> QED BY <1>1, <1>4, <1>5, <2>1, Zenon DEF GatewayInv, RecordInv, Progress, diskVars
<1>9. HandlerInv' /\ LockInv' /\ TaskInv' /\ NetInv'
  BY <1>1, <1>4, HandlerFrame, LockFrame, TaskFrame, NetFrame, Zenon DEF GatewayInv
<1> QED BY <1>3, <1>4, <1>6, <1>7, <1>8, <1>9, Zenon DEF GatewayInv

-----------------------------------------------------------------------------
(* process()                                                               *)

Tried(j) == [j EXCEPT !.tries = @ + 1]

Terminated(j) == [Tried(j) EXCEPT !.state = "terminate"]

Expired(j) == [Tried(j) EXCEPT !.state = "expired"]

LEMMA NextTry ==
    ASSUME NEW j, InfoOK(j), j.state \notin {"terminate", "complete"}
    PROVE  /\ InfoOK(Terminated(j)) /\ Terminated(j).state = "terminate"
           /\ j.tries + 1 < MAX_RETRIES =>
                 /\ InfoOK(Tried(j)) /\ Tried(j).state = j.state /\ Tried(j).order = j.order
                 /\ InfoOK(Expired(j)) /\ Expired(j).state = "expired"
<1> PICK k : k = Tried(j)
  BY Zenon
<1> PICK e : e = Expired(j)
  BY Zenon
<1> PICK x : x = Terminated(j)
  BY Zenon
<1>1. /\ j \in OrderInfo /\ j.tries \in Nat /\ j.tries < MAX_RETRIES
      /\ j.order = None => \A p \in Sp : j.shards[p] = "none"
  BY GatewayAssumption, SMTT(30) DEF InfoOK, OrderInfo
<1>2. /\ k \in [order : Order \cup {None}, cid : Order, state : OrderState, tries : Nat,
                expire : Nat, shards : [Sp -> {"none", "assigned", "completed"}]]
      /\ k.tries = j.tries + 1 /\ k.state = j.state /\ k.order = j.order /\ k.shards = j.shards
  BY <1>1, SMTT(30) DEF OrderInfo, Tried
<1>3. k.tries \in 0 .. MAX_RETRIES
  BY <1>1, <1>2, GatewayAssumption, SMTT(30)
<1>4. k \in OrderInfo
  BY <1>2, <1>3, Zenon DEF OrderInfo
<1>5. InfoOK(x) /\ x.state = "terminate"
  <2>1. x = [k EXCEPT !.state = "terminate"]
    BY Zenon DEF Terminated
  <2> QED BY <1>1, <1>2, <1>4, <2>1, SMTT(30) DEF InfoOK, OrderInfo, OrderState
<1>6. ASSUME j.tries + 1 < MAX_RETRIES
      PROVE  /\ InfoOK(k) /\ k.state = j.state /\ k.order = j.order
             /\ InfoOK(e) /\ e.state = "expired"
  <2>1. InfoOK(k)
    BY <1>1, <1>2, <1>4, <1>6, Zenon DEF InfoOK
  <2>2. InfoOK(e) /\ e.state = "expired"
    <3>1. e = [k EXCEPT !.state = "expired"]
      BY Zenon DEF Expired
    <3> QED BY <1>1, <1>2, <1>4, <1>6, <3>1, SMTT(30) DEF InfoOK, OrderInfo, OrderState
  <2> QED BY <1>2, <2>1, <2>2, Zenon
<1> QED BY <1>5, <1>6, Zenon

LEMMA DoneTask == ASSUME TaskInv, NEW t \in Task, Done(t) PROVE TaskInv'
  BY Zenon DEF TaskInv, Done

(* process() saves a record that is not complete, and is done.             *)
LEMMA ProcessSaves ==
    ASSUME GatewayInv, NEW t \in Task, NEW j, InfoOK(j), j.state # "complete",
           SaveOrder(j), Done(t), LockInv',
           UNCHANGED <<chainVars, netVars, staged, commitVars, handlerVars, timerVars, startVars>>
    PROVE  GatewayInv' /\ Progress
<1>1. ChainInv' /\ Progress
  BY ChainFrame, Zenon DEF GatewayInv, commitVars
<1>2. RecordInv' /\ \A d \in DataId : ds[d] # None => ds'[d] # None
  BY <1>1, SaveRecord, Zenon DEF GatewayInv, commitVars
<1>3. TaskInv'
  BY DoneTask, Zenon DEF GatewayInv
<1>4. StageInv' /\ CommitInv'
  BY <1>1, StageFrame, CommitFrame, Zenon DEF GatewayInv, chainVars, commitVars, startVars
<1>5. HandlerInv' /\ TimerInv' /\ NetInv'
  BY <1>1, <1>2, HandlerFrame, TimerFrame, NetFrame, Zenon DEF GatewayInv
<1> QED BY <1>1, <1>2, <1>3, <1>4, <1>5, Zenon DEF GatewayInv

LEMMA ProcessKeepsInv ==
    ASSUME GatewayInv, NEW t \in Task, Process(t) PROVE GatewayInv' /\ Progress
<1> PICK j : j = job[t]
  BY Zenon
<1>1. InfoOK(j) /\ j.state # "complete" /\ pc[t] # "free" /\ j.order \in Order \cup {None}
  BY Zenon DEF GatewayInv, TaskInv, Process, Drop, Terminate, HeightUnknown, Expire, AssignShards,
     SaveAssigned, CanRun, InfoOK, OrderInfo
<1> PICK k : k = Tried(j)
  BY Zenon
<1> PICK e : e = Expired(j)
  BY Zenon
<1> PICK x : x = Terminated(j)
  BY Zenon
<1>2. ~Finished(t) => j.state \notin {"terminate", "complete"}
  BY Zenon DEF Finished
<1>3. ~Finished(t) => InfoOK(x) /\ x.state = "terminate"
  BY <1>1, <1>2, NextTry, Zenon
<1>4. ~Finished(t) /\ ~Exhausted(t) =>
          /\ InfoOK(k) /\ k.state = j.state /\ k.order = j.order
          /\ InfoOK(e) /\ e.state = "expired"
  <2>1. j.tries + 1 < MAX_RETRIES \/ Exhausted(t)
    BY <1>1, GatewayAssumption, SMTT(30) DEF Exhausted, InfoOK, OrderInfo
  <2> QED BY <1>1, <1>2, <2>1, NextTry, Zenon
<1>5. CASE Drop(t)
  <2>1. UNCHANGED <<chainVars, netVars, diskVars, commitVars, handlerVars, lock, timerVars, startVars>>
    BY <1>5, Zenon DEF Drop
  <2>2. TaskInv'
    BY <1>5, DoneTask, Zenon DEF Drop, GatewayInv
  <2>3. ChainInv' /\ Progress /\ RecordInv' /\ StageInv'
    BY <2>1, QuietFrame, Zenon DEF diskVars, commitVars
  <2>4. HandlerInv' /\ CommitInv' /\ LockInv' /\ TimerInv' /\ NetInv'
    BY <2>1, <2>3, HandlerFrame, CommitFrame, LockFrame, TimerFrame, NetFrame, Zenon
    DEF GatewayInv, diskVars, commitVars, startVars
  <2> QED BY <2>2, <2>3, <2>4, Zenon DEF GatewayInv
<1>6. CASE Terminate(t)
  <2>1. SaveOrder(x)
    BY <1>6, Zenon DEF Terminate, Attempt, Terminated, Tried
  <2> QED BY <1>3, <1>6, <2>1, ProcessSaves, LockFrame, Zenon DEF Terminate, GatewayInv
<1>7. CASE Expire(t)
  <2>1. SaveOrder(e)
    BY <1>7, Zenon DEF Expire, Attempt, Expired, Tried
  <2> QED BY <1>4, <1>7, <2>1, ProcessSaves, LockFrame, Zenon DEF Expire, GatewayInv
<1>8. CASE SaveAssigned(t)
  <2>1. LockInv'
    BY <1>1, <1>8, Zenon DEF GatewayInv, LockInv, SaveAssigned
  <2> QED BY <1>1, <1>8, <2>1, ProcessSaves, Zenon DEF SaveAssigned
<1>9. CASE HeightUnknown(t) \/ \E reached \in SUBSET Sp : AssignShards(t, reached)
  <2>1. /\ UNCHANGED <<chainVars, notices, diskVars, commitVars, handlerVars, timerVars, startVars>>
        /\ ~Finished(t) /\ ~Exhausted(t)
    BY <1>9, Zenon DEF HeightUnknown, AssignShards, netVars
  <2>2. TaskInv'
    <3>1. job' = [job EXCEPT ![t] = k]
      BY <1>9, Zenon DEF HeightUnknown, AssignShards, Attempt, Tried
    <3>2. InfoOK(k) /\ k.state # "complete" /\ k \in OrderInfo
      BY <1>1, <1>4, <2>1, Zenon DEF InfoOK
    <3>3. pc' = pc \/ pc' = [pc EXCEPT ![t] = "save"]
      BY <1>9, Zenon DEF HeightUnknown, AssignShards
    <3> QED BY <1>1, <3>1, <3>2, <3>3, Zenon DEF GatewayInv, TaskInv
  <2>3. LockInv'
    <3>1. lock' = lock \/ lock' = [lock EXCEPT ![j.order] = t]
      BY <1>1, <1>9, Zenon DEF HeightUnknown, AssignShards
    <3>2. lock \in [Order \cup {None} -> Task \cup (Order \X Sp) \cup {None}]
      BY Zenon DEF GatewayInv, LockInv
    <3> QED BY <3>1, <3>2, Zenon DEF LockInv
  <2>4. NetInv'
    <3>1. ASSUME NEW reached \in SUBSET Sp, AssignShards(t, reached) PROVE NetInv'
      <4>1. j.order = None => reached = {}
        BY <1>1, <3>1, Zenon DEF AssignShards, InfoOK
      <4>2. asked' = asked \cup ({j.order} \X reached) /\ UNCHANGED notices
        BY <3>1, Zenon DEF AssignShards
      <4> QED BY <1>1, <4>1, <4>2, Zenon DEF GatewayInv, NetInv
    <3>2. CASE HeightUnknown(t)
      BY <3>2, NetFrame, Zenon DEF HeightUnknown, GatewayInv
    <3> QED BY <1>9, <3>1, <3>2, Zenon
  <2>5. ChainInv' /\ Progress /\ RecordInv' /\ StageInv'
    BY <2>1, QuietFrame, Zenon DEF diskVars, commitVars
  <2>6. HandlerInv' /\ CommitInv' /\ TimerInv'
    BY <2>1, <2>5, HandlerFrame, CommitFrame, TimerFrame, Zenon DEF GatewayInv, diskVars, commitVars, startVars
  <2> QED BY <2>2, <2>3, <2>4, <2>5, <2>6, Zenon DEF GatewayInv
<1> QED BY <1>5, <1>6, <1>7, <1>8, <1>9, Zenon DEF Process

-----------------------------------------------------------------------------
(* HandleShardComplete                                                     *)

(* What HandlerInv says of one handler.                                    *)
HandlerOK(o, p) ==
    /\ handler[<<o, p>>] # "idle" => created[o] # None
    /\ seen[<<o, p>>] => OnChain(o)
    /\ handler[<<o, p>>] \in {"save", "unstage"} =>
          /\ InfoOK(copy[<<o, p>>]) /\ copy[<<o, p>>].cid = o
          /\ copy[<<o, p>>].state = "complete" => OnChain(o)
    /\ handler[<<o, p>>] = "unstage" => OnChain(o)

(* A handler moves on; the others stay where they are.                     *)
LEMMA HandlerMove ==
    ASSUME HandlerInv, UNCHANGED chainVars, NEW o \in Order, NEW p \in Sp,
           NEW h \in {"idle", "lock", "save", "unstage"}, NEW s \in BOOLEAN, NEW c \in OrderInfo \cup {None},
           handler' = [handler EXCEPT ![<<o, p>>] = h], seen' = [seen EXCEPT ![<<o, p>>] = s],
           copy' = [copy EXCEPT ![<<o, p>>] = c],
           h # "idle" => created[o] # None, s => OnChain(o),
           h \in {"save", "unstage"} => InfoOK(c) /\ c.cid = o /\ (c.state = "complete" => OnChain(o)),
           h = "unstage" => OnChain(o)
    PROVE  HandlerInv'
<1>1. /\ handler' \in [Order \X Sp -> {"idle", "lock", "save", "unstage"}]
      /\ seen' \in [Order \X Sp -> BOOLEAN]
      /\ copy' \in [Order \X Sp -> OrderInfo \cup {None}]
  BY Zenon DEF HandlerInv
<1>2. \A q \in Order : (OnChain(q)' <=> OnChain(q)) /\ created'[q] = created[q]
  BY Zenon DEF chainVars, OnChain, allShardsCompleted, Providers
<1>3. ASSUME NEW q \in Order, NEW r \in Sp PROVE HandlerOK(q, r)'
  <2>1. CASE <<q, r>> = <<o, p>>
    <3>1. q = o /\ handler'[<<q, r>>] = h /\ seen'[<<q, r>>] = s /\ copy'[<<q, r>>] = c
      BY <2>1, Zenon DEF HandlerInv
    <3> QED BY <1>2, <3>1, Zenon DEF HandlerOK
  <2>2. CASE <<q, r>> # <<o, p>>
    <3>1. /\ handler'[<<q, r>>] = handler[<<q, r>>] /\ seen'[<<q, r>>] = seen[<<q, r>>]
          /\ copy'[<<q, r>>] = copy[<<q, r>>]
      BY <2>2, Zenon DEF HandlerInv
    <3>2. HandlerOK(q, r)
      BY Zenon DEF HandlerInv, HandlerOK
    <3> QED BY <1>2, <3>1, <3>2, Zenon DEF HandlerOK
  <2> QED BY <2>1, <2>2, Zenon
<1> QED BY <1>1, <1>3, Zenon DEF HandlerInv, HandlerOK

LEMMA HandlersKeepInv ==
    ASSUME OwnModel, GatewayInv, NEW o \in Order, NEW p \in Sp,
           CheckComplete(o, p) \/ HandleShardComplete(o, p)
    PROVE  GatewayInv' /\ Progress
<1>1. UNCHANGED <<chainVars, asked, commitVars, taskVars, timerVars, startVars>>
  BY Zenon DEF CheckComplete, HandleShardComplete, ReadOrder, SaveComplete, UnstageShard, netVars
<1>2. ChainInv' /\ Progress
  BY <1>1, ChainFrame, Zenon DEF GatewayInv, commitVars
<1>3. CommitInv' /\ TaskInv'
  BY <1>1, CommitFrame, TaskFrame, Zenon DEF GatewayInv, commitVars, startVars
<1> PICK c : c = copy[<<o, p>>]
  BY Zenon
<1>4. /\ HandlerOK(o, p) /\ <<o, p>> \in Order \X Sp /\ seen[<<o, p>>] \in BOOLEAN
      /\ c \in OrderInfo \cup {None} /\ handler \in [Order \X Sp -> {"idle", "lock", "save", "unstage"}]
      /\ seen \in [Order \X Sp -> BOOLEAN] /\ copy \in [Order \X Sp -> OrderInfo \cup {None}]
  BY Zenon DEF GatewayInv, HandlerInv, HandlerOK
<1> PICK s \in BOOLEAN : s = seen[<<o, p>>]
  BY <1>4, Zenon
<1>5. CASE CheckComplete(o, p)
  <2>1. /\ UNCHANGED <<diskVars, lock, copy>> /\ notices' = notices \ {<<o, p>>}
        /\ handler' = [handler EXCEPT ![<<o, p>>] = "lock"]
        /\ seen' = [seen EXCEPT ![<<o, p>>] = allShardsCompleted(o)]
        /\ p \in Providers(o)
    BY <1>5, Zenon DEF CheckComplete
  <2>2. created[o] # None
    BY <2>1, Zenon DEF GatewayInv, ChainInv, Providers
  <2>3. copy' = [copy EXCEPT ![<<o, p>>] = c] /\ allShardsCompleted(o) \in BOOLEAN
    BY <1>4, <2>1, Zenon DEF allShardsCompleted
  <2>4. HandlerInv'
    BY <1>1, <1>4, <2>1, <2>2, <2>3, HandlerMove, Zenon DEF GatewayInv, OnChain
  <2>5. RecordInv' /\ StageInv' /\ LockInv' /\ TimerInv'
    BY <1>1, <2>1, QuietFrame, LockFrame, TimerFrame, Zenon DEF GatewayInv, diskVars, commitVars
  <2>6. NetInv'
    BY <1>1, <2>1, Zenon DEF GatewayInv, NetInv
  <2> QED BY <1>2, <1>3, <2>4, <2>5, <2>6, Zenon DEF GatewayInv
<1>6. CASE ReadOrder(o, p)
  <2> PICK j : j = ds[DataOf[o]]
    BY Zenon
  <2>1. /\ UNCHANGED <<netVars, diskVars, seen>> /\ handler[<<o, p>>] = "lock"
        /\ handler' = [handler EXCEPT ![<<o, p>>] = "save"]
        /\ copy' = [copy EXCEPT ![<<o, p>>] = j]
        /\ lock' = [lock EXCEPT ![o] = <<o, p>>]
    BY <1>6, Zenon DEF ReadOrder
  <2>2. created[o] # None /\ j # None
    BY <1>4, <2>1, Zenon DEF HandlerOK, GatewayInv, ChainInv, RecordInv
  <2>3. InfoOK(j) /\ DataOf[j.cid] = DataOf[o] /\ (j.state = "complete" => OnChain(j.cid))
    BY <2>2, GatewayAssumption, Zenon DEF GatewayInv, RecordInv
  <2>4. j.cid = o
    BY <2>3, InfoFacts, Zenon DEF OwnModel
  <2>5. seen' = [seen EXCEPT ![<<o, p>>] = s] /\ j \in OrderInfo \cup {None}
    BY <1>4, <2>1, <2>3, Zenon DEF InfoOK
  <2>6. HandlerInv'
    <3>1. HandlerInv /\ (s => OnChain(o))
      BY <1>4, Zenon DEF GatewayInv, HandlerOK
    <3>2. InfoOK(j) /\ j.cid = o /\ (j.state = "complete" => OnChain(o))
      BY <2>3, <2>4, Zenon
    <3> QED BY <1>1, <2>1, <2>2, <2>5, <3>1, <3>2, HandlerMove, ZenonT(30)
  <2>7. RecordInv' /\ StageInv' /\ TimerInv' /\ NetInv'
    BY <1>1, <2>1, QuietFrame, TimerFrame, NetFrame, Zenon DEF GatewayInv, diskVars, commitVars
  <2>8. LockInv'
    BY <2>1, Zenon DEF GatewayInv, LockInv
  <2> QED BY <1>2, <1>3, <2>6, <2>7, <2>8, Zenon DEF GatewayInv
<1>7. CASE SaveComplete(o, p)
  <2> PICK x : x = [c EXCEPT !.state = "complete"]
    BY Zenon
  <2>1. UNCHANGED <<netVars, staged>> /\ handler[<<o, p>>] = "save"
    BY <1>7, Zenon DEF SaveComplete
  <2>2. /\ InfoOK(c) /\ c.cid = o /\ created[o] # None
        /\ c.state = "complete" => OnChain(o)
    BY <1>4, <2>1, Zenon DEF HandlerOK
  <2>3. InfoOK(x) /\ x.cid = o
    BY <2>2, Zenon DEF InfoOK, OrderInfo, OrderState
  <2>4. CASE Completes(o, p)
    <3>1. /\ SaveOrder(x) /\ handler' = [handler EXCEPT ![<<o, p>>] = "unstage"]
          /\ UNCHANGED <<seen, copy, lock>>
      BY <1>7, <2>4, Zenon DEF SaveComplete
    <3>2. OnChain(o)
      BY <1>4, <2>4, Zenon DEF Completes, HandlerOK
    <3>3. RecordInv' /\ \A d \in DataId : ds[d] # None => ds'[d] # None
      BY <1>1, <1>2, <2>3, <3>1, <3>2, SaveRecord, Zenon DEF GatewayInv, commitVars, Progress
    <3>4. /\ seen' = [seen EXCEPT ![<<o, p>>] = s]
          /\ copy' = [copy EXCEPT ![<<o, p>>] = c]
      BY <1>4, <3>1, Zenon
    <3>5. HandlerInv'
      <4>1. HandlerInv
        BY Zenon DEF GatewayInv
      <4>2. c \in OrderInfo \cup {None}
        BY <1>4, Zenon
      <4> QED BY <1>1, <2>2, <3>1, <3>2, <3>4, <4>1, <4>2, HandlerMove, ZenonT(30)
    <3>6. LockInv'
      BY <3>1, LockFrame, Zenon DEF GatewayInv
    <3> QED BY <3>3, <3>5, <3>6, <1>1, <1>2, <1>3, <2>1, StageFrame, TimerFrame, NetFrame, Zenon
            DEF GatewayInv, chainVars, commitVars
  <2>5. CASE ~Completes(o, p)
    <3>1. /\ SaveOrder(c) /\ handler' = [handler EXCEPT ![<<o, p>>] = "idle"]
          /\ seen' = [seen EXCEPT ![<<o, p>>] = FALSE]
          /\ copy' = [copy EXCEPT ![<<o, p>>] = None]
          /\ lock' = [lock EXCEPT ![o] = None]
      BY <1>7, <2>5, Zenon DEF SaveComplete
    <3>2. RecordInv' /\ \A d \in DataId : ds[d] # None => ds'[d] # None
      BY <1>1, <1>2, <2>2, <3>1, SaveRecord, Zenon DEF GatewayInv, commitVars, Progress
    <3>3. HandlerInv'
      BY <1>1, <3>1, HandlerMove, Zenon DEF GatewayInv
    <3>4. LockInv'
      BY <3>1, Zenon DEF GatewayInv, LockInv
    <3> QED BY <3>2, <3>3, <3>4, <1>1, <1>2, <1>3, <2>1, StageFrame, TimerFrame, NetFrame, Zenon
            DEF GatewayInv, chainVars, commitVars
  <2> QED BY <2>4, <2>5, Zenon
<1>8. CASE UnstageShard(o, p)
  <2>1. /\ UNCHANGED <<netVars, ds>> /\ handler[<<o, p>>] = "unstage"
        /\ staged' = staged \ {c.cid}
        /\ handler' = [handler EXCEPT ![<<o, p>>] = "idle"]
        /\ seen' = [seen EXCEPT ![<<o, p>>] = FALSE]
        /\ copy' = [copy EXCEPT ![<<o, p>>] = None]
        /\ lock' = [lock EXCEPT ![o] = None]
    BY <1>8, Zenon DEF UnstageShard
  <2>2. c.cid = o /\ OnChain(o) /\ commit[o] # "send"
    BY <1>4, <2>1, Zenon DEF HandlerOK, OnChain, GatewayInv, ChainInv
  <2>3. StageInv'
    BY <1>1, <2>1, <2>2, Zenon DEF GatewayInv, StageInv, ContentStaged, OnChain, chainVars, commitVars,
       allShardsCompleted, Providers
  <2>4. HandlerInv'
    BY <1>1, <2>1, HandlerMove, Zenon DEF GatewayInv
  <2>5. LockInv'
    BY <2>1, Zenon DEF GatewayInv, LockInv
  <2>6. RecordInv' /\ TimerInv' /\ NetInv'
    BY <1>1, <2>1, QuietFrame, TimerFrame, NetFrame, Zenon DEF GatewayInv, commitVars
  <2> QED BY <1>2, <1>3, <2>3, <2>4, <2>5, <2>6, Zenon DEF GatewayInv
<1> QED BY <1>5, <1>6, <1>7, <1>8, Zenon DEF HandleShardComplete

-----------------------------------------------------------------------------
(* checkTimeout, stop and start                                            *)

(* Steps that touch neither the chain, the disk, a commit, a handler nor a *)
(* lock.                                                                   *)
LEMMA TimerStep ==
    ASSUME GatewayInv, TaskInv', TimerInv',
           UNCHANGED <<chainVars, netVars, diskVars, commitVars, handlerVars, lock, up>>
    PROVE  GatewayInv' /\ Progress
<1>1. ChainInv' /\ Progress /\ RecordInv' /\ StageInv'
  BY QuietFrame, Zenon DEF diskVars, commitVars
<1>2. HandlerInv' /\ CommitInv' /\ LockInv' /\ NetInv'
  BY <1>1, HandlerFrame, CommitFrame, LockFrame, NetFrame, Zenon DEF GatewayInv, commitVars
<1> QED BY <1>1, <1>2, Zenon DEF GatewayInv

LEMMA checkTimeoutKeepsInv == ASSUME GatewayInv, checkTimeout PROVE GatewayInv' /\ Progress
<1>1. CASE NextHeight
  <2>1. UNCHANGED <<chainVars, netVars, diskVars, commitVars, taskVars, handlerVars, lock, startVars>>
    BY <1>1, Zenon DEF NextHeight
  <2>2. latestHeight' \in 0 .. MaxHeight
    BY <1>1, GatewayAssumption, SMTT(30) DEF NextHeight, GatewayInv, TimerInv, ChainInv
  <2>3. TimerInv'
    BY <1>1, <2>1, <2>2, SMTT(30) DEF NextHeight, GatewayInv, TimerInv, startVars, diskVars
  <2> QED BY <2>1, <2>3, TimerStep, TaskFrame, Zenon DEF GatewayInv, startVars
<1>2. ASSUME NEW e \in due, SkipDue(e) PROVE GatewayInv' /\ Progress
  <2>1. /\ UNCHANGED <<chainVars, netVars, diskVars, commitVars, taskVars, handlerVars, lock,
                       timeoutMap, latestHeight, startVars>>
        /\ due' = due \ {e}
    BY <1>2, Zenon DEF SkipDue
  <2>2. TimerInv'
    BY <2>1, Zenon DEF GatewayInv, TimerInv, startVars, diskVars
  <2> QED BY <2>1, <2>2, TimerStep, TaskFrame, Zenon DEF GatewayInv, startVars
<1>3. ASSUME NEW e \in due, NEW t \in Task, Reschedule(t, e) PROVE GatewayInv' /\ Progress
  <2>1. /\ UNCHANGED <<chainVars, netVars, diskVars, commitVars, handlerVars, lock, latestHeight, startVars>>
        /\ due' = due \ {e}
        /\ timeoutMap' = timeoutMap \cup
             {[at |-> e.expire + TIMEOUT, order |-> e.order, cid |-> e.cid, expire |-> e.expire + TIMEOUT]}
    BY <1>3, Zenon DEF Reschedule
  <2>2. e.order \in Order /\ e.cid \in Order /\ e.expire + TIMEOUT \in Nat
    BY GatewayAssumption, SMTT(30) DEF GatewayInv, TimerInv, Entry
  <2>3. TimerInv'
    BY <2>1, <2>2, SMTT(30) DEF GatewayInv, TimerInv, Entry, startVars, diskVars
  <2>4. TaskInv'
    <3>1. PICK f \in [Sp -> {"none", "assigned", "completed"}] :
              Push(t, [order |-> e.order, cid |-> e.cid, state |-> "ready", tries |-> 0,
                       expire |-> e.expire + TIMEOUT, shards |-> f])
      <4> DEFINE Status(p) == CASE shard[e.order][p] = "completed" -> "completed"
                                [] shard[e.order][p] = "waiting" -> "assigned"
                                [] OTHER -> "none"
      <4>1. [p \in Sp |-> Status(p)] \in [Sp -> {"none", "assigned", "completed"}]
        BY Zenon
      <4>2. Push(t, [order |-> e.order, cid |-> e.cid, state |-> "ready", tries |-> 0,
                     expire |-> e.expire + TIMEOUT, shards |-> [p \in Sp |-> Status(p)]])
        BY <1>3, Zenon DEF Reschedule
      <4> HIDE DEF Status
      <4> QED BY <4>1, <4>2, Zenon
    <3> PICK j : j = [order |-> e.order, cid |-> e.cid, state |-> "ready", tries |-> 0,
                      expire |-> e.expire + TIMEOUT, shards |-> f]
      BY Zenon
    <3>2. InfoOK(j) /\ j.state # "complete"
      BY <2>2, GatewayAssumption, SMTT(30) DEF InfoOK, OrderInfo, OrderState
    <3> QED BY <3>1, <3>2, PushTask, Zenon DEF GatewayInv
  <2> QED BY <2>1, <2>3, <2>4, TimerStep, Zenon DEF startVars
<1> QED BY <1>1, <1>2, <1>3, Zenon DEF checkTimeout

LEMMA CrashKeepsInv == ASSUME GatewayInv, Crash PROVE GatewayInv' /\ Progress
<1>1. /\ UNCHANGED <<chainVars, netVars, diskVars>> /\ up' = FALSE
      /\ commit' = [o \in Order |-> IF commit[o] = "new" THEN "new" ELSE "returned"]
      /\ info' = [o \in Order |-> None]
  BY Zenon DEF Crash
<1>2. \A o \in Order : commit'[o] = IF commit[o] = "new" THEN "new" ELSE "returned"
  BY <1>1, Zenon
<1>3. ChainInv'
  BY <1>1, <1>2, Zenon DEF GatewayInv, ChainInv, chainVars
<1>4. Progress
  BY <1>1, Zenon DEF Progress, OnChain, allShardsCompleted, Providers, chainVars
<1>5. CommitInv'
  BY <1>1, <1>2, Zenon DEF CommitInv, Committing
<1>6. StageInv'
  BY <1>1, <1>2, Zenon DEF GatewayInv, StageInv, ContentStaged, allShardsCompleted, Providers, chainVars, diskVars
<1>7. RecordInv'
  <2>1. \A d \in DataId : ds[d] # None => ds[d].cid \in Order
    BY InfoFacts, Zenon DEF GatewayInv, RecordInv
  <2> QED BY <1>1, <1>2, <1>4, <2>1, Zenon DEF GatewayInv, RecordInv, Progress, diskVars
<1>8. TaskInv' /\ LockInv' /\ NetInv'
  BY <1>1, NetFrame, Zenon DEF GatewayInv, TaskInv, LockInv, Crash
<1>9. HandlerInv'
  BY Zenon DEF HandlerInv, Crash
<1>10. TimerInv'
  BY GatewayAssumption, SMTT(30) DEF TimerInv, Crash
<1> QED BY <1>3, <1>4, <1>5, <1>6, <1>7, <1>8, <1>9, <1>10, Zenon DEF GatewayInv

LEMMA RestartKeepsInv == ASSUME GatewayInv, Restart PROVE GatewayInv' /\ Progress
<1>1. UNCHANGED <<chainVars, netVars, diskVars, commitVars, taskVars, handlerVars, lock, timerVars>>
  BY Zenon DEF Restart
<1>2. ChainInv' /\ Progress /\ RecordInv' /\ StageInv'
  BY <1>1, QuietFrame, Zenon DEF diskVars, commitVars
<1>3. HandlerInv' /\ LockInv' /\ NetInv' /\ TaskInv'
  BY <1>1, <1>2, HandlerFrame, LockFrame, NetFrame, TaskFrame, Zenon DEF GatewayInv
<1>4. CommitInv'
  BY <1>1, Zenon DEF GatewayInv, CommitInv, Restart, commitVars
<1>5. TimerInv'
  BY <1>1, Zenon DEF GatewayInv, TimerInv, Restart, timerVars, diskVars
<1> QED BY <1>2, <1>3, <1>4, <1>5, Zenon DEF GatewayInv

(* Line 950 yields a height from the creation of the order on.             *)
LEMMA TimeoutAtFacts ==
    ASSUME ChainInv, NEW o \in Order, created[o] # None
    PROVE  TimeoutAt(o) \in Nat /\ 1 <= TimeoutAt(o)
<1>1. created[o] \in Nat /\ 1 <= created[o] /\ height \in Nat /\ created[o] <= height
  BY SMTT(30) DEF ChainInv
<1>2. (height - created[o]) \div TIMEOUT \in Nat
  BY <1>1, GatewayAssumption, SMTT(30)
<1>3. ASSUME NEW k \in Nat PROVE k * TIMEOUT \in Nat
  BY GatewayAssumption, SMTT(30)
<1>4. ((height - created[o]) \div TIMEOUT) * TIMEOUT \in Nat
  BY <1>2, <1>3, Zenon
<1> QED BY <1>1, <1>4, SMTT(30) DEF TimeoutAt

LEMMA StartingKeepsInv == ASSUME GatewayInv, Starting PROVE GatewayInv' /\ Progress
<1>1. ASSUME NEW d \in DataId, NEW t \in Task, ScanPending(t, d) PROVE GatewayInv' /\ Progress
  <2>1. UNCHANGED <<chainVars, netVars, diskVars, commitVars, handlerVars, lock, timerVars, up, unrestored>>
    BY <1>1, Zenon DEF ScanPending
  <2>2. InfoOK(ds[d])
    BY <1>1, Zenon DEF ScanPending, GatewayInv, TimerInv, RecordInv
  <2>3. TaskInv'
    BY <1>1, <2>2, PushTask, Zenon DEF ScanPending, GatewayInv
  <2>4. TimerInv'
    BY <1>1, <2>1, SMTT(30) DEF ScanPending, GatewayInv, TimerInv, timerVars, diskVars
  <2> QED BY <2>1, <2>3, <2>4, TimerStep, Zenon
<1>2. ASSUME NEW d \in DataId, ScanComplete(d) PROVE GatewayInv' /\ Progress
  <2>1. UNCHANGED <<chainVars, netVars, diskVars, commitVars, taskVars, handlerVars, lock, timerVars, up, unrestored>>
    BY <1>2, Zenon DEF ScanComplete
  <2>2. TimerInv'
    BY <1>2, <2>1, SMTT(30) DEF ScanComplete, GatewayInv, TimerInv, timerVars, diskVars
  <2> QED BY <2>1, <2>2, TimerStep, TaskFrame, Zenon DEF GatewayInv
<1>3. ASSUME NEW d \in DataId, NEW o \in Order, RestoreTimeout(d, o) PROVE GatewayInv' /\ Progress
  <2>1. /\ UNCHANGED <<chainVars, netVars, diskVars, commitVars, taskVars, handlerVars, lock,
                       latestHeight, due, up, unscanned>>
        /\ unrestored' = unrestored \ {d} /\ d \in unrestored
    BY <1>3, Zenon DEF RestoreTimeout
  <2>2. ds[d].cid \in Order
    BY <2>1, InfoFacts, Zenon DEF GatewayInv, TimerInv, RecordInv
  <2>3. PICK at \in {TimeoutAt(o)} \cup (IF QueryFails THEN {Never} ELSE {}) :
            timeoutMap' = timeoutMap \cup {[at |-> at, order |-> o, cid |-> ds[d].cid, expire |-> at + TIMEOUT]}
    BY <1>3, Zenon DEF RestoreTimeout
  <2>4. at \in Nat /\ at + TIMEOUT \in Nat
    <3>1. TimeoutAt(o) \in Nat
      BY <1>3, TimeoutAtFacts, Zenon DEF RestoreTimeout, MetaOrder, GatewayInv
    <3> QED BY <3>1, GatewayAssumption, SMTT(30) DEF Never
  <2>5. TimerInv'
    BY <2>1, <2>2, <2>3, <2>4, SMTT(30) DEF GatewayInv, TimerInv, Entry, diskVars
  <2> QED BY <2>1, <2>5, TimerStep, TaskFrame, Zenon DEF GatewayInv
<1>4. ASSUME NEW d \in DataId, RestoreNothing(d) PROVE GatewayInv' /\ Progress
  <2>1. UNCHANGED <<chainVars, netVars, diskVars, commitVars, taskVars, handlerVars, lock, timerVars, up, unscanned>>
    BY <1>4, Zenon DEF RestoreNothing
  <2>2. TimerInv'
    BY <1>4, <2>1, SMTT(30) DEF RestoreNothing, GatewayInv, TimerInv, timerVars, diskVars
  <2> QED BY <2>1, <2>2, TimerStep, TaskFrame, Zenon DEF GatewayInv
<1> QED BY <1>1, <1>2, <1>3, <1>4, Zenon DEF Starting

LEMMA NextGatewayInv ==
    ASSUME OwnModel, GatewayInv, [Next]_vars PROVE GatewayInv' /\ Progress
<1>1. ASSUME NEW o \in Order, CommitModel(o) PROVE GatewayInv' /\ Progress
  BY <1>1, StageShardKeepsInv, SendOrderKeepsInv, SaveReadyKeepsInv, PushOrderKeepsInv, WatchTimeoutKeepsInv, Zenon
  DEF CommitModel
<1>2. CASE UNCHANGED vars
  <2>1. UNCHANGED <<chainVars, netVars, diskVars, commitVars, taskVars, handlerVars, lock, timerVars, startVars>>
    BY <1>2, Zenon DEF vars
  <2> QED BY <2>1, TimerStep, TaskFrame, TimerFrame, Zenon DEF GatewayInv, startVars, diskVars
<1> QED BY <1>1, <1>2, ChainKeepsInv, ProcessKeepsInv, HandlersKeepInv, checkTimeoutKeepsInv,
           CrashKeepsInv, RestartKeepsInv, StartingKeepsInv, Zenon DEF Next

-----------------------------------------------------------------------------
LEMMA GatewayInvariance == ASSUME OwnModel PROVE Spec => []GatewayInv
<1>1. GatewayInv /\ [Next]_vars => GatewayInv'
  BY NextGatewayInv, Zenon
<1> QED BY <1>1, InitGatewayInv, PTL DEF Spec

(* The variables of Gateway stay in their types; in particular no task     *)
(* counts more than MAX_RETRIES attempts.                                  *)
THEOREM GatewayTypeCorrect == ASSUME OwnModel PROVE Spec => []TypeOK
<1>1. GatewayInv => TypeOK
  BY Zenon DEF GatewayInv, ChainInv, NetInv, StageInv, RecordInv, CommitInv, TaskInv, HandlerInv,
     LockInv, TimerInv, TypeOK
<1> QED BY <1>1, GatewayInvariance, PTL

(* Whatever fails, is lost or is restarted, the staged content of an order *)
(* on chain stays until its last shard is completed (UnstageShard).        *)
THEOREM ContentAlwaysStaged == ASSUME OwnModel PROVE Spec => []ContentStaged
<1>1. GatewayInv => ContentStaged
  BY Zenon DEF GatewayInv, StageInv
<1> QED BY <1>1, GatewayInvariance, PTL

(* A record says Complete only when the chain does, although process() and *)
(* HandleShardComplete save copies they read before.                       *)
THEOREM CompleteAlwaysOnChain == ASSUME OwnModel PROVE Spec => []CompleteIsOnChain
<1>1. GatewayInv => CompleteIsOnChain
  BY Zenon DEF GatewayInv, RecordInv, OnChain, CompleteIsOnChain
<1> QED BY <1>1, GatewayInvariance, PTL

-----------------------------------------------------------------------------
(* When the chain answers, the deadline of every order that is not         *)
(* complete lies ahead of checkTimeout.  A transaction that seems to fail  *)
(* leaves an order nobody watches until the next start, and so does a      *)
(* query that fails in CommitModel or checkTimeout.                        *)
Answers == ~TxFails /\ ~QueryFails

(* checkTimeout has not passed the chain, and starts over when started.    *)
TickInv ==
    /\ \A e \in timeoutMap \cup due : e.at <= e.expire
    /\ \A e \in due : e.at = latestHeight
    /\ latestHeight <= height
    /\ ~up \/ unrestored # {} => latestHeight = 0

(* CommitModel registers a deadline that is still ahead.                   *)
PromptInv ==
    \A o \in Order :
        /\ commit[o] \in {"ready", "push", "watch"} => height < created[o] + TIMEOUT
        /\ commit[o] \in {"push", "watch"} => info[o].expire = created[o] + TIMEOUT

WatchedOK(o) ==
    created[o] # None /\ up /\ DataOf[o] \notin unrestored =>
        allShardsCompleted(o) \/ commit[o] # "returned" \/ Watched(o)

WatchInv == TickInv /\ PromptInv /\ \A o \in Order : WatchedOK(o)

LEMMA InitWatchInv == Init => WatchInv
  BY GatewayAssumption, SMTT(30) DEF Init, WatchInv, TickInv, PromptInv, WatchedOK

LEMMA Heights ==
    ASSUME GatewayInv
    PROVE  /\ height \in Nat /\ height # None /\ latestHeight \in Nat
           /\ \A o \in Order : created[o] # None =>
                 created[o] \in Nat /\ 1 <= created[o] /\ created[o] <= height
<1>1. ChainInv /\ TimerInv
  BY Zenon DEF GatewayInv
<1>2. height \in Nat /\ latestHeight \in Nat
  BY <1>1, SMTT(30) DEF ChainInv, TimerInv
<1> QED BY <1>1, <1>2, GatewayAssumption, SMTT(30) DEF ChainInv

LEMMA TickFrame ==
    ASSUME TickInv, UNCHANGED <<height, timerVars, up, unrestored>> PROVE TickInv'
  BY Zenon DEF TickInv, timerVars

LEMMA PromptFrame ==
    ASSUME PromptInv, UNCHANGED <<height, created, commitVars>> PROVE PromptInv'
  BY Zenon DEF PromptInv, commitVars

LEMMA WatchedFrame ==
    ASSUME NEW o \in Order, WatchedOK(o), Progress, created'[o] = created[o],
           UNCHANGED <<timerVars, up, unrestored>>,
           commit'[o] = "returned" => commit[o] = "returned"
    PROVE  WatchedOK(o)'
  BY Zenon DEF WatchedOK, Progress, OnChain, Watched, timerVars

LEMMA ChainKeepsWatch ==
    ASSUME GatewayInv, WatchInv, Progress, Chain \/ Nodes PROVE WatchInv'
<1>1. UNCHANGED <<created, commitVars, timerVars, startVars>>
  BY Zenon DEF Chain, Nodes, NewBlock, Reassign, DropTimedOut, NodeCompletes, NodeGivesUp, LoseNotice,
     chainVars
<1>2. \A o \in Order : WatchedOK(o)'
  BY <1>1, WatchedFrame, Zenon DEF WatchInv, startVars, commitVars
<1>3. CASE UNCHANGED height
  BY <1>1, <1>2, <1>3, TickFrame, PromptFrame, Zenon DEF WatchInv, startVars
<1>4. CASE NewBlock
  <2>1. height' = height + 1 /\ height \in Nat /\ latestHeight \in Nat /\ CommitIsPrompt
    BY <1>4, Heights, Zenon DEF NewBlock
  <2>2. TickInv'
    BY <1>1, <2>1, SMTT(30) DEF WatchInv, TickInv, timerVars, startVars
  <2>3. PromptInv'
    <3>1. \A o \in Order : commit[o] \in {"ready", "push", "watch"} => up
      BY Zenon DEF GatewayInv, CommitInv, Committing
    <3> QED BY <1>1, <2>1, <3>1, Zenon DEF WatchInv, PromptInv, CommitIsPrompt, commitVars
  <2> QED BY <1>2, <2>2, <2>3, Zenon DEF WatchInv
<1> QED BY <1>3, <1>4, Zenon
        DEF Chain, Nodes, Reassign, DropTimedOut, NodeCompletes, NodeGivesUp, LoseNotice, chainVars

LEMMA CommitKeepsWatch ==
    ASSUME Answers, GatewayInv, WatchInv, Progress, NEW o \in Order, CommitModel(o) PROVE WatchInv'
<1>1. UNCHANGED <<height, latestHeight, due, startVars>>
  BY Zenon DEF CommitModel, StageShard, SendOrder, SaveReady, PushOrder, WatchTimeout, chainVars, timerVars
<1>2. /\ height \in Nat /\ height # None /\ TIMEOUT \in Nat \ {0} /\ latestHeight \in Nat
      /\ \A q \in Order : created[q] # None => created[q] \in Nat
  BY Heights, GatewayAssumption, Zenon
<1>3. PICK c \in {"send", "ready", "push", "watch", "returned"} : commit' = [commit EXCEPT ![o] = c]
  BY Zenon DEF CommitModel, StageShard, SendOrder, SaveReady, PushOrder, WatchTimeout
<1>4. \A q \in Order : commit'[q] = IF q = o THEN c ELSE commit[q]
  BY <1>3, Zenon DEF GatewayInv, ChainInv
<1>5. \A q \in Order \ {o} : created'[q] = created[q] /\ info'[q] = info[q]
  <2>1. /\ created \in [Order -> (1 .. MaxHeight) \cup {None}]
        /\ info \in [Order -> OrderInfo \cup {None}]
    BY Zenon DEF GatewayInv, ChainInv, CommitInv
  <2>2. \A q \in Order \ {o} : created'[q] = created[q]
    BY <2>1, Zenon DEF CommitModel, StageShard, SendOrder, SaveReady, PushOrder, WatchTimeout,
       ChainStores, chainVars
  <2>3. ASSUME NEW q \in Order \ {o} PROVE info'[q] = info[q]
    BY <2>1, SMTT(30) DEF CommitModel, StageShard, SendOrder, SaveReady, PushOrder, WatchTimeout
  <2> QED BY <2>2, <2>3, Zenon
<1>6. CASE WatchTimeout(o)
  <2>1. /\ commit[o] = "watch" /\ UNCHANGED <<created, shard>>
        /\ timeoutMap' = timeoutMap \cup
             {[at |-> info[o].expire, order |-> o, cid |-> o, expire |-> info[o].expire]}
    BY <1>6, Zenon DEF WatchTimeout, chainVars
  <2>2. c = "returned"
    BY <1>4, <1>6, Zenon DEF WatchTimeout, GatewayInv, ChainInv
  <2>3. info[o].expire \in Nat /\ latestHeight < info[o].expire /\ latestHeight \in Nat
    <3>1. created[o] # None
      BY <2>1, Zenon DEF GatewayInv, ChainInv
    <3>2. info[o].expire = created[o] + TIMEOUT /\ height < created[o] + TIMEOUT
      BY <2>1, Zenon DEF WatchInv, PromptInv
    <3>3. latestHeight <= height
      BY Zenon DEF WatchInv, TickInv
    <3> QED BY <1>2, <3>1, <3>2, <3>3, SMTT(30)
  <2>4. TickInv'
    BY <1>1, <2>1, <2>3, SMTT(30) DEF WatchInv, TickInv, startVars
  <2>5. PromptInv'
    BY <1>1, <1>4, <1>5, <2>1, <2>2, Zenon DEF WatchInv, PromptInv
  <2>6. ASSUME NEW q \in Order PROVE WatchedOK(q)'
    <3>1. CASE q = o
      <4>1. Watched(o)'
        <5> PICK e : e = [at |-> info[o].expire, order |-> o, cid |-> o, expire |-> info[o].expire]
          BY Zenon
        <5>1. e \in timeoutMap' /\ e.order = o /\ e.at = info[o].expire
          BY <2>1, Zenon
        <5> QED BY <1>1, <2>3, <5>1, Zenon DEF Watched
      <4> QED BY <3>1, <4>1, Zenon DEF WatchedOK
    <3>2. CASE q # o
      <4>1. Watched(q) => Watched(q)'
        BY <1>1, <2>1, Zenon DEF Watched
      <4> QED BY <1>1, <1>4, <2>1, <3>2, <4>1, Zenon DEF WatchInv, WatchedOK, startVars, allShardsCompleted, Providers
    <3> QED BY <3>1, <3>2, Zenon
  <2> QED BY <2>4, <2>5, <2>6, Zenon DEF WatchInv
<1>7. CASE StageShard(o) \/ (\E chosen \in SUBSET Sp : SendOrder(o, chosen)) \/ SaveReady(o)
             \/ \E t \in Task : PushOrder(t, o)
  <2>1. UNCHANGED timerVars
    BY <1>7, Zenon DEF StageShard, SendOrder, SaveReady, PushOrder
  <2>2. TickInv'
    BY <1>1, <2>1, TickFrame, Zenon DEF WatchInv, startVars
  <2>3. \/ commit[o] = "new" /\ c = "send" /\ UNCHANGED created
        \/ commit[o] = "send" /\ c = "ready" /\ created'[o] = height
        \/ /\ commit[o] = "ready" /\ c = "push" /\ UNCHANGED created
           /\ info'[o].expire = created[o] + TIMEOUT
        \/ commit[o] = "push" /\ c = "watch" /\ UNCHANGED <<created, info>>
    <3>1. CASE StageShard(o)
      <4>1. commit[o] = "new" /\ commit'[o] = "send" /\ UNCHANGED created
        BY <1>4, <3>1, Zenon DEF StageShard, chainVars, GatewayInv, ChainInv
      <4> QED BY <1>4, <4>1, Zenon
    <3>2. ASSUME NEW chosen \in SUBSET Sp, SendOrder(o, chosen)
          PROVE  commit[o] = "send" /\ c = "ready" /\ created'[o] = height
      <4>1. commit[o] = "send" /\ ChainStores(o, chosen) /\ commit' = [commit EXCEPT ![o] = "ready"]
        BY <3>2, Zenon DEF SendOrder, Answers
      <4>2. commit'[o] = "ready" /\ created'[o] = height
        BY <4>1, Zenon DEF ChainStores, GatewayInv, ChainInv
      <4> QED BY <1>4, <4>1, <4>2, Zenon
    <3>3. CASE SaveReady(o)
      <4>1. commit[o] = "ready" /\ commit'[o] = "push" /\ UNCHANGED created
        BY <3>3, Zenon DEF SaveReady, chainVars, GatewayInv, ChainInv
      <4>2. info \in [Order -> OrderInfo \cup {None}] /\ info[o] \in OrderInfo
        BY <4>1, Zenon DEF GatewayInv, CommitInv, Committing, InfoOK
      <4>3. info' = [info EXCEPT ![o].state = "ready", ![o].expire = created[o] + TIMEOUT]
        BY <3>3, Zenon DEF SaveReady, Answers
      <4>4. info'[o].expire = created[o] + TIMEOUT
        BY <4>2, <4>3, Zenon DEF OrderInfo
      <4> QED BY <1>4, <4>1, <4>4, Zenon
    <3>4. ASSUME NEW t \in Task, PushOrder(t, o)
          PROVE  commit[o] = "push" /\ c = "watch" /\ UNCHANGED <<created, info>>
      <4>1. commit[o] = "push" /\ commit'[o] = "watch" /\ UNCHANGED <<created, info>>
        BY <3>4, Zenon DEF PushOrder, chainVars, GatewayInv, ChainInv
      <4> QED BY <1>4, <4>1, Zenon
    <3> QED BY <1>7, <3>1, <3>2, <3>3, <3>4, Zenon
  <2>4. PromptInv'
    <3> DEFINE Prompt(q) == /\ commit[q] \in {"ready", "push", "watch"} => height < created[q] + TIMEOUT
                            /\ commit[q] \in {"push", "watch"} => info[q].expire = created[q] + TIMEOUT
    <3>1. \A q \in Order : Prompt(q)
      BY Zenon DEF WatchInv, PromptInv
    <3>2. ASSUME NEW q \in Order, q # o PROVE Prompt(q)'
      <4>1. commit'[q] = commit[q] /\ created'[q] = created[q] /\ info'[q] = info[q] /\ height' = height
        BY <1>1, <1>4, <1>5, <3>2, Zenon
      <4> QED BY <3>1, <4>1, Zenon
    <3>3. Prompt(o)'
      <4>1. Prompt(o) /\ commit'[o] = c /\ height' = height
        BY <1>1, <1>4, <3>1, Zenon
      <4>2. CASE c = "ready" /\ created'[o] = height
        <5>1. height < created'[o] + TIMEOUT
          BY <1>2, <4>2, SMTT(30)
        <5> QED BY <4>1, <4>2, <5>1, Zenon
      <4>3. CASE /\ commit[o] = "ready" /\ c = "push" /\ UNCHANGED created
                 /\ info'[o].expire = created[o] + TIMEOUT
        BY <4>1, <4>3, Zenon
      <4>4. CASE commit[o] = "push" /\ c = "watch" /\ UNCHANGED <<created, info>>
        BY <4>1, <4>4, Zenon
      <4>5. CASE c = "send"
        BY <4>1, <4>5, Zenon
      <4> QED BY <2>3, <4>2, <4>3, <4>4, <4>5, Zenon
    <3>4. \A q \in Order : Prompt(q)'
      BY <3>2, <3>3, Zenon
    <3> QED BY <3>4, Zenon DEF PromptInv
  <2>5. \A q \in Order : WatchedOK(q)'
    BY <1>1, <1>4, <1>5, <2>1, <2>3, WatchedFrame, Zenon DEF WatchInv, WatchedOK, startVars
  <2> QED BY <2>2, <2>4, <2>5, Zenon DEF WatchInv
<1> QED BY <1>6, <1>7, Zenon DEF CommitModel

LEMMA checkTimeoutKeepsWatch ==
    ASSUME Answers, GatewayInv, WatchInv, Progress, checkTimeout PROVE WatchInv'
<1>1. UNCHANGED <<chainVars, commitVars, startVars>> /\ up
  BY Zenon DEF checkTimeout, NextHeight, SkipDue, Reschedule
<1>2. PromptInv'
  BY <1>1, PromptFrame, Zenon DEF WatchInv, chainVars
<1>3. latestHeight \in Nat /\ height \in Nat /\ timeoutMap \subseteq Entry /\ due \subseteq Entry
  BY Heights, Zenon DEF GatewayInv, TimerInv
<1>4. \A o \in Order : (allShardsCompleted(o)' <=> allShardsCompleted(o))
  BY <1>1, Zenon DEF chainVars, allShardsCompleted, Providers
<1>5. CASE NextHeight
  <2>1. /\ unrestored = {} /\ due = {} /\ latestHeight < height /\ latestHeight' = latestHeight + 1
        /\ due' = {e \in timeoutMap : e.at = latestHeight + 1}
        /\ timeoutMap' = {e \in timeoutMap : e.at > latestHeight + 1}
    BY <1>5, Zenon DEF NextHeight
  <2>2. TickInv'
    BY <1>1, <1>3, <2>1, SMTT(30) DEF WatchInv, TickInv, startVars, chainVars
  <2>3. ASSUME NEW o \in Order, Watched(o) PROVE Watched(o)'
    <3>1. PICK e \in timeoutMap : e.order = o /\ e.at > latestHeight
      BY <2>1, <2>3, Zenon DEF Watched
    <3>2. e.at \in Nat
      BY <1>3, Zenon DEF Entry
    <3>3. e \in due' \/ (e \in timeoutMap' /\ e.at > latestHeight')
      BY <1>3, <2>1, <3>1, <3>2, SMTT(30)
    <3> QED BY <3>1, <3>3, Zenon DEF Watched
  <2> QED BY <1>1, <1>2, <1>4, <2>2, <2>3, Zenon DEF WatchInv, WatchedOK, commitVars, chainVars, startVars
<1>6. ASSUME NEW e \in due, SkipDue(e) PROVE WatchInv'
  <2>1. /\ allShardsCompleted(e.order) /\ due' = due \ {e} /\ UNCHANGED <<timeoutMap, latestHeight>>
    BY <1>6, Zenon DEF SkipDue, Answers
  <2>2. TickInv'
    BY <1>1, <2>1, Zenon DEF WatchInv, TickInv, startVars, chainVars
  <2>3. ASSUME NEW o \in Order, Watched(o) PROVE Watched(o)' \/ allShardsCompleted(o)
    BY <2>1, <2>3, Zenon DEF Watched
  <2> QED BY <1>1, <1>2, <1>4, <2>2, <2>3, Zenon DEF WatchInv, WatchedOK, commitVars, chainVars, startVars
<1>7. ASSUME NEW e \in due, NEW t \in Task, Reschedule(t, e) PROVE WatchInv'
  <2> PICK n : n = [at |-> e.expire + TIMEOUT, order |-> e.order, cid |-> e.cid, expire |-> e.expire + TIMEOUT]
    BY Zenon
  <2>1. due' = due \ {e} /\ timeoutMap' = timeoutMap \cup {n} /\ UNCHANGED latestHeight
    BY <1>7, Zenon DEF Reschedule
  <2>2. n.order = e.order /\ n.at = n.expire /\ n.at \in Nat /\ n.at > latestHeight
    <3>1. e.at = latestHeight /\ e.at <= e.expire /\ e.expire \in Nat
      BY <1>3, Zenon DEF WatchInv, TickInv, Entry
    <3> QED BY <1>3, <3>1, GatewayAssumption, SMTT(30)
  <2>3. TickInv'
    BY <1>1, <2>1, <2>2, SMTT(30) DEF WatchInv, TickInv, startVars, chainVars
  <2>4. ASSUME NEW o \in Order, Watched(o) PROVE Watched(o)'
    <3>1. CASE e.order = o
      BY <2>1, <2>2, <3>1, Zenon DEF Watched
    <3>2. CASE e.order # o
      BY <2>1, <2>4, <3>2, Zenon DEF Watched
    <3> QED BY <3>1, <3>2, Zenon
  <2> QED BY <1>1, <1>2, <1>4, <2>3, <2>4, Zenon DEF WatchInv, WatchedOK, commitVars, chainVars, startVars
<1> QED BY <1>5, <1>6, <1>7, Zenon DEF checkTimeout

LEMMA StartKeepsWatch ==
    ASSUME Answers, OwnModel, GatewayInv, WatchInv, Progress, Crash \/ Restart \/ Starting PROVE WatchInv'
<1>1. UNCHANGED chainVars /\ latestHeight \in Nat /\ height \in Nat
  <2>1. UNCHANGED chainVars
    BY Zenon DEF Crash, Restart, Starting, ScanPending, ScanComplete, RestoreTimeout, RestoreNothing
  <2> QED BY <2>1, Heights, Zenon
<1>2. CASE Crash
  <2>1. /\ up' = FALSE /\ timeoutMap' = {} /\ latestHeight' = 0 /\ due' = {}
        /\ \A o \in Order : commit'[o] \in {"new", "returned"}
    BY <1>2, Zenon DEF Crash
  <2>2. TickInv'
    BY <1>1, <2>1, SMTT(30) DEF TickInv, chainVars
  <2> QED BY <2>1, <2>2, Zenon DEF WatchInv, PromptInv, WatchedOK
<1>3. CASE Restart
  <2>1. /\ ~up /\ up' /\ unrestored' = {d \in DataId : ds[d] # None} /\ UNCHANGED <<commitVars, timerVars>>
    BY <1>3, Zenon DEF Restart
  <2>2. TickInv' /\ PromptInv'
    BY <1>1, <2>1, PromptFrame, Zenon DEF WatchInv, TickInv, timerVars, chainVars
  <2>3. \A o \in Order : created[o] # None => DataOf[o] \in unrestored'
    BY <2>1, GatewayAssumption, Zenon DEF GatewayInv, ChainInv, RecordInv
  <2> QED BY <1>1, <2>2, <2>3, Zenon DEF WatchInv, WatchedOK, chainVars
<1>4. ASSUME NEW d \in DataId, (\E t \in Task : ScanPending(t, d)) \/ ScanComplete(d) PROVE WatchInv'
  <2>1. UNCHANGED <<commitVars, timerVars, up, unrestored>>
    BY <1>4, Zenon DEF ScanPending, ScanComplete
  <2> QED BY <1>1, <2>1, TickFrame, PromptFrame, WatchedFrame, Zenon DEF WatchInv, chainVars, commitVars
<1>5. \A o \in Order : (allShardsCompleted(o)' <=> allShardsCompleted(o))
  BY <1>1, Zenon DEF chainVars, allShardsCompleted, Providers
<1>6. ASSUME NEW d \in DataId, NEW o \in Order, RestoreTimeout(d, o) PROVE WatchInv'
  <2> PICK n : n = [at |-> TimeoutAt(o), order |-> o, cid |-> ds[d].cid, expire |-> TimeoutAt(o) + TIMEOUT]
    BY Zenon
  <2>1. /\ d \in unrestored /\ o \in MetaOrder(d) /\ timeoutMap' = timeoutMap \cup {n}
        /\ unrestored' = unrestored \ {d} /\ UNCHANGED <<commitVars, latestHeight, due, up>>
    BY <1>6, Zenon DEF RestoreTimeout, Answers
  <2>2. TimeoutAt(o) \in Nat /\ 1 <= TimeoutAt(o) /\ DataOf[o] = d
    <3>1. created[o] # None /\ DataOf[o] = d
      BY <2>1, Zenon DEF MetaOrder
    <3> QED BY <3>1, TimeoutAtFacts, Zenon DEF GatewayInv
  <2>3. n.order = o /\ n.at > latestHeight /\ n.at <= n.expire
    <3>1. latestHeight = 0
      BY <2>1, Zenon DEF WatchInv, TickInv
    <3> QED BY <2>2, <3>1, GatewayAssumption, SMTT(30)
  <2>4. TickInv' /\ PromptInv'
    BY <1>1, <2>1, <2>3, PromptFrame, Zenon DEF WatchInv, TickInv, chainVars
  <2>5. ASSUME NEW q \in Order PROVE WatchedOK(q)'
    <3>1. CASE q = o
      <4>1. Watched(o)'
        BY <2>1, <2>3, Zenon DEF Watched
      <4> QED BY <3>1, <4>1, Zenon DEF WatchedOK
    <3>2. CASE q # o
      <4>1. Watched(q) => Watched(q)'
        BY <2>1, Zenon DEF Watched
      <4>2. DataOf[q] # d
        BY <2>2, <3>2, Zenon DEF OwnModel
      <4> QED BY <1>1, <1>5, <2>1, <4>1, <4>2, Zenon DEF WatchInv, WatchedOK, chainVars, commitVars
    <3> QED BY <3>1, <3>2, Zenon
  <2> QED BY <2>4, <2>5, Zenon DEF WatchInv
<1>7. ASSUME NEW d \in DataId, RestoreNothing(d) PROVE WatchInv'
  <2>1. /\ \A o \in MetaOrder(d) : allShardsCompleted(o)
        /\ unrestored' = unrestored \ {d} /\ UNCHANGED <<commitVars, timerVars, up>>
    BY <1>7, Zenon DEF RestoreNothing, Answers
  <2>2. TickInv' /\ PromptInv'
    BY <1>1, <2>1, PromptFrame, Zenon DEF WatchInv, TickInv, timerVars, chainVars
  <2>3. ASSUME NEW q \in Order PROVE WatchedOK(q)'
    <3>1. CASE DataOf[q] = d /\ created[q] # None
      <4>1. created[q] <= created[q]
        BY <3>1, SMTT(30) DEF GatewayInv, ChainInv
      <4>2. q \in MetaOrder(d)
        BY <3>1, <4>1, Zenon DEF OwnModel, MetaOrder
      <4> QED BY <1>5, <2>1, <4>2, Zenon DEF WatchedOK
    <3>2. CASE ~(DataOf[q] = d /\ created[q] # None)
      <4>1. Watched(q) => Watched(q)'
        BY <2>1, Zenon DEF Watched, timerVars
      <4> QED BY <1>1, <1>5, <2>1, <3>2, <4>1, Zenon DEF WatchInv, WatchedOK, chainVars, commitVars
    <3> QED BY <3>1, <3>2, Zenon
  <2> QED BY <2>2, <2>3, Zenon DEF WatchInv
<1> QED BY <1>2, <1>3, <1>4, <1>6, <1>7, Zenon DEF Starting

LEMMA NextWatchInv ==
    ASSUME Answers, OwnModel, GatewayInv, WatchInv, [Next]_vars PROVE WatchInv'
<1>1. Progress
  BY NextGatewayInv, Zenon
<1>2. CASE UNCHANGED <<chainVars, commitVars, timerVars, up, unrestored>>
  BY <1>1, <1>2, TickFrame, PromptFrame, WatchedFrame, Zenon DEF WatchInv, chainVars, commitVars
<1>3. ASSUME NEW t \in Task, Process(t) PROVE UNCHANGED <<chainVars, commitVars, timerVars, startVars>>
  BY <1>3, Zenon DEF Process, Drop, Terminate, HeightUnknown, Expire, AssignShards, SaveAssigned
<1>4. ASSUME NEW o \in Order, NEW p \in Sp, CheckComplete(o, p) \/ HandleShardComplete(o, p)
      PROVE  UNCHANGED <<chainVars, commitVars, timerVars, startVars>>
  BY <1>4, Zenon DEF CheckComplete, HandleShardComplete, ReadOrder, SaveComplete, UnstageShard
<1> QED BY <1>1, <1>2, <1>3, <1>4, ChainKeepsWatch, CommitKeepsWatch, checkTimeoutKeepsWatch,
           StartKeepsWatch, Zenon DEF Next, vars, startVars

(* No order is forgotten: until the chain has all its shards, its deadline *)
(* lies ahead of checkTimeout, through crashes, restarts and exhausted     *)
(* tasks.                                                                  *)
THEOREM NeverForgotten == ASSUME OwnModel, Answers PROVE Spec => []NotForgotten
<1>1. Init => GatewayInv /\ WatchInv
  BY InitGatewayInv, InitWatchInv, Zenon
<1>2. GatewayInv /\ WatchInv /\ [Next]_vars => (GatewayInv /\ WatchInv)'
  BY NextGatewayInv, NextWatchInv, Zenon
<1>3. WatchInv => NotForgotten
  BY Zenon DEF WatchInv, WatchedOK, NotForgotten, MetaOrder
<1> QED BY <1>1, <1>2, <1>3, PTL DEF Spec
=============================================================================
