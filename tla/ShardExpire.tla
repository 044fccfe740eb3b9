---------------------------- MODULE ShardExpire ----------------------------
(***************************************************************************)
(* How a storage node gets rid of content (storage_service.go lines        *)
(* 112-210, 849-865; utils/state_utils.go lines 33-156).  A goroutine that *)
(* has completed a shard registers it in ShardExpireIndex.  processExpire, *)
(* once a day, lists the node's shards on chain, and removes the content   *)
(* of every registered shard that is not listed, unless a listed shard has *)
(* the same content.  The list is read once, the index is read, modified   *)
(* and written back without a lock, and the goroutines of process() go on  *)
(* meanwhile.  No crashes here; they are in module Storage.                *)
(***************************************************************************)
EXTENDS Naturals, FiniteSets

CONSTANTS
    Shard,       \* shard ids of the chain
    Cid, CidOf,  \* contents, and the content of each shard
    Limit,       \* page size of ListShards, line 197
    Quiet,       \* TRUE: no shard is assigned while processExpire works
    OneWriter,   \* TRUE: updates of the index never overlap
    None

ASSUME ExpireAssumption ==
    /\ CidOf \in [Shard -> Cid]
    /\ Limit \in Nat
    /\ Quiet \in BOOLEAN /\ OneWriter \in BOOLEAN
    /\ None \notin Shard

VARIABLES
    chain,     \* chain: status of each shard
    store,     \* contents in the backends
    saved,     \* state of the ShardInfo record
    infos,     \* shards with a ShardExpireInfo record
    index,     \* ShardExpireIndex
    pc,        \* of each shard: the next step of its process()
    read,      \* ... the index AddShardExpireIndex read
    epc,       \* the next step of processExpire
    listed,    \* myShards
    todo,      \* keys of the index it read, still to be checked
    current,   \* the key it works on
    eread      \* the index RemoveShardExpireIndex read

taskVars == <<saved, infos, pc, read>>
loopVars == <<epc, listed, todo, current, eread>>
vars == <<chain, store, index, taskVars, loopVars>>

TypeOK ==
    /\ chain \in [Shard -> {"none", "waiting", "completed", "gone"}]
    /\ store \subseteq Cid
    /\ saved \in [Shard -> {"none", "completed", "expired"}]
    /\ infos \subseteq Shard
    /\ index \subseteq Shard
    /\ pc \in [Shard -> {"fetch", "tx", "save", "info", "read", "write", "done"}]
    /\ read \in [Shard -> SUBSET Shard]
    /\ epc \in {"tick", "index", "key", "read", "write", "mark"}
    /\ listed \subseteq Shard
    /\ todo \subseteq Shard
    /\ current \in Shard \cup {None}
    /\ eread \subseteq Shard

Init ==
    /\ chain = [s \in Shard |-> "none"]
    /\ store = {}
    /\ saved = [s \in Shard |-> "none"]
    /\ infos = {} /\ index = {}
    /\ pc = [s \in Shard |-> "fetch"]
    /\ read = [s \in Shard |-> {}]
    /\ epc = "tick" /\ listed = {} /\ todo = {} /\ current = None /\ eread = {}

-----------------------------------------------------------------------------
(* The chain (external): orders name this node, and end.                   *)
OnChain == {s \in Shard : chain[s] \in {"waiting", "completed"}}

Assign(s) ==
    /\ chain[s] = "none"
    /\ Quiet => epc = "tick"
    /\ chain' = [chain EXCEPT ![s] = "waiting"]
    /\ UNCHANGED <<store, index, taskVars, loopVars>>

End(s) ==
    /\ s \in OnChain
    /\ chain' = [chain EXCEPT ![s] = "gone"]
    /\ UNCHANGED <<store, index, taskVars, loopVars>>

-----------------------------------------------------------------------------
(* process(), seen from the store and the index                            *)

Goto(s, step) == pc' = [pc EXCEPT ![s] = step]

Store(s) ==
    /\ pc[s] = "fetch"
    /\ chain[s] = "waiting"
    /\ store' = store \cup {CidOf[s]}
    /\ Goto(s, "tx")
    /\ UNCHANGED <<chain, index, saved, infos, read, loopVars>>

CompleteOrder(s) ==
    /\ pc[s] = "tx"
    /\ chain[s] = "waiting"
    /\ chain' = [chain EXCEPT ![s] = "completed"]
    /\ Goto(s, "save")
    /\ UNCHANGED <<store, index, saved, infos, read, loopVars>>

SaveCompleted(s) ==
    /\ pc[s] = "save"
    /\ saved' = [saved EXCEPT ![s] = "completed"]
    /\ Goto(s, "info")
    /\ UNCHANGED <<chain, store, index, infos, read, loopVars>>

(* SaveShardExpire up to AddShardExpireIndex                               *)
SaveShardExpire(s) ==
    /\ pc[s] = "info"
    /\ infos' = infos \cup {s}
    /\ Goto(s, "read")
    /\ UNCHANGED <<chain, store, index, saved, read, loopVars>>

NobodyWrites == epc # "write" /\ \A q \in Shard : pc[q] # "write"

ReadIndex(s) ==
    /\ pc[s] = "read"
    /\ OneWriter => NobodyWrites
    /\ read' = [read EXCEPT ![s] = index]
    /\ Goto(s, "write")
    /\ UNCHANGED <<chain, store, index, saved, infos, loopVars>>

(* Mutant of AddShardExpireIndex: the new key replaces the others.         *)
AddShardExpireIndexAlone(s) ==
    /\ pc[s] = "write"
    /\ index' = {s}
    /\ read' = [read EXCEPT ![s] = {}]
    /\ Goto(s, "done")
    /\ UNCHANGED <<chain, store, saved, infos, loopVars>>

AddShardExpireIndex(s) ==
    /\ pc[s] = "write"
    /\ index' = read[s] \cup {s}
    /\ read' = [read EXCEPT ![s] = {}]
    /\ Goto(s, "done")
    /\ UNCHANGED <<chain, store, saved, infos, loopVars>>

Process(s) ==
    \/ Store(s) \/ CompleteOrder(s) \/ SaveCompleted(s) \/ SaveShardExpire(s)
    \/ ReadIndex(s) \/ AddShardExpireIndex(s)

-----------------------------------------------------------------------------
(* GetAllShards: offset stays 0, so that the loop ends only when the first *)
(* page holds everything; otherwise it asks for the same page again.       *)
GetAllShards ==
    /\ epc = "tick"
    /\ Cardinality(OnChain) <= Limit
    /\ listed' = OnChain
    /\ epc' = "index"
    /\ UNCHANGED <<chain, store, index, taskVars, todo, current, eread>>

GetShardExpireIndex ==
    /\ epc = "index"
    /\ todo' = index
    /\ epc' = "key"
    /\ UNCHANGED <<chain, store, index, taskVars, listed, current, eread>>

KeepListed(s) ==
    /\ epc = "key" /\ s \in todo
    /\ s \in listed
    /\ todo' = todo \ {s}
    /\ UNCHANGED <<chain, store, index, taskVars, epc, listed, current, eread>>

(* Mutant of Needed: the contents of listed shards are not looked at.      *)
NeededNever(c) == FALSE

(* cidList, lines 126-128 and 151                                          *)
Needed(c) == \E s \in listed : CidOf[s] = c

(* Mutant of RemoveContent: listed shards are not spared.                  *)
RemoveContentListed(s) ==
    /\ epc = "key" /\ s \in todo
    /\ store' = IF Needed(CidOf[s]) THEN store ELSE store \ {CidOf[s]}
    /\ current' = s
    /\ epc' = "read"
    /\ UNCHANGED <<chain, index, taskVars, listed, todo, eread>>

RemoveContent(s) ==
    /\ epc = "key" /\ s \in todo
    /\ s \notin listed
    /\ store' = IF Needed(CidOf[s]) THEN store ELSE store \ {CidOf[s]}
    /\ current' = s
    /\ epc' = "read"
    /\ UNCHANGED <<chain, index, taskVars, listed, todo, eread>>

(* storeManager.Remove fails: the key stays for the next day.              *)
RemoveFails(s) ==
    /\ epc = "key" /\ s \in todo
    /\ s \notin listed /\ ~Needed(CidOf[s])
    /\ todo' = todo \ {s}
    /\ UNCHANGED <<chain, store, index, taskVars, epc, listed, current, eread>>

ReadIndexToRemove ==
    /\ epc = "read"
    /\ OneWriter => NobodyWrites
    /\ eread' = index
    /\ epc' = "write"
    /\ UNCHANGED <<chain, store, index, taskVars, listed, todo, current>>

RemoveShardExpireIndex ==
    /\ epc = "write"
    /\ index' = eread \ {current}
    /\ eread' = {}
    /\ epc' = "mark"
    /\ UNCHANGED <<chain, store, taskVars, listed, todo, current>>

(* Lines 173-186                                                           *)
MarkExpired ==
    /\ epc = "mark"
    /\ saved' = [saved EXCEPT ![current] = "expired"]
    /\ todo' = todo \ {current}
    /\ current' = None
    /\ epc' = "key"
    /\ UNCHANGED <<chain, store, index, infos, pc, read, listed, eread>>

EndOfRound ==
    /\ epc = "key" /\ todo = {}
    /\ epc' = "tick"
    /\ listed' = {}
    /\ UNCHANGED <<chain, store, index, taskVars, todo, current, eread>>

processExpire ==
    \/ GetAllShards \/ GetShardExpireIndex
    \/ \E s \in Shard : KeepListed(s) \/ RemoveContent(s) \/ RemoveFails(s)
    \/ ReadIndexToRemove \/ RemoveShardExpireIndex \/ MarkExpired \/ EndOfRound

Next ==
    \/ \E s \in Shard : Assign(s) \/ End(s) \/ Process(s)
    \/ processExpire

Spec == Init /\ [][Next]_vars

(* Goroutines run and the ticker ticks; a backend that failed to remove a  *)
(* content does not do so on every following day.                          *)
Fairness ==
    /\ \A s \in Shard : WF_vars(SaveCompleted(s) \/ SaveShardExpire(s) \/ AddShardExpireIndex(s))
    /\ \A s \in Shard : SF_vars(ReadIndex(s)) /\ SF_vars(RemoveContent(s))
    /\ WF_vars(processExpire)
    /\ SF_vars(ReadIndexToRemove)

FairSpec == Spec /\ Fairness

-----------------------------------------------------------------------------
(* A shard the chain counts as completed by this node has its content in   *)
(* the backends: processExpire never removes what a live order pays for    *)
(* (the cidList test at line 151), although shards share contents.         *)
CompletedIsStored ==
    \A s \in Shard : chain[s] = "completed" => CidOf[s] \in store

(* A record marked expired belongs to a shard the chain has ended.         *)
ExpiredHasEnded ==
    \A s \in Shard : saved[s] = "expired" => chain[s] = "gone"

(* When every shard of a content was completed and has ended on chain, the *)
(* content is removed from the backends.                                   *)
ExpiredIsRemoved ==
    \A c \in Cid :
        (\A s \in Shard : CidOf[s] = c => chain[s] = "gone" /\ pc[s] = "done") ~> c \notin store
=============================================================================
