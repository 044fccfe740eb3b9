------------------------- MODULE ShardExpireProofs -------------------------
(***************************************************************************)
(* What processExpire may remove, for any number of shards, any sharing of *)
(* contents and any page size, as long as no shard is assigned while it    *)
(* works (Quiet).  Updates of the index may be lost: neither theorem needs *)
(* OneWriter.                                                              *)
(***************************************************************************)
EXTENDS ShardExpire, TLAPS

(* The chain has counted the shard as completed.                           *)
Completed(s) == pc[s] \in {"save", "info", "read", "write", "done"}

(* The task of a shard and the chain agree on how far it is, and what is   *)
(* still on chain keeps its content from the moment it is stored.          *)
TaskInv ==
    /\ \A s \in Shard : chain[s] = "none" => pc[s] = "fetch"
    /\ \A s \in Shard : Completed(s) => chain[s] \in {"completed", "gone"}
    /\ \A s \in Shard : chain[s] = "completed" => Completed(s)
    /\ \A s \in OnChain : pc[s] # "fetch" => CidOf[s] \in store

(* Wherever a key of the index has got to, its task is over.               *)
Registered == {s \in Shard : pc[s] = "done"}

IndexInv ==
    /\ index \subseteq Registered
    /\ \A s \in Shard : read[s] \subseteq Registered
    /\ todo \subseteq Registered
    /\ eread \subseteq Registered

(* The list of the round holds all that is on chain, until the round ends; *)
(* the key being removed is not in it.                                     *)
RoundInv ==
    /\ epc # "tick" => OnChain \subseteq listed
    /\ epc \in {"read", "write", "mark"} => current \in Registered \ listed

ExpireInv == TypeOK /\ TaskInv /\ IndexInv /\ RoundInv /\ ExpiredHasEnded

LEMMA InitExpireInv == Init => ExpireInv
  BY SMTT(30) DEF Init, ExpireInv, TypeOK, TaskInv, IndexInv, RoundInv, ExpiredHasEnded,
         Completed, Registered, OnChain

(* A key processExpire removes is one the chain has ended.                 *)
LEMMA UnlistedHasEnded ==
    ASSUME ExpireInv, epc # "tick", NEW s \in Registered \ listed
    PROVE  chain[s] = "gone"
  BY Zenon DEF ExpireInv, TaskInv, RoundInv, Completed, Registered, OnChain

(* The chain moves a shard; it assigns none in the middle of a round.      *)
LEMMA ChainStep ==
    ASSUME ExpireInv, Quiet, NEW s \in Shard, Assign(s) \/ End(s)
    PROVE  ExpireInv'
<1> USE DEF ExpireInv
<1>1. UNCHANGED <<store, index, saved, infos, pc, read, epc, listed, todo, current, eread>>
  BY Zenon DEF Assign, End, taskVars, loopVars
<1>2. CASE Assign(s)
  <2>1. chain[s] = "none" /\ chain' = [chain EXCEPT ![s] = "waiting"] /\ epc = "tick"
    BY <1>2, Zenon DEF Assign
  <2>2. pc[s] = "fetch"
    BY <2>1, Zenon DEF TaskInv
  <2>3. TypeOK' /\ IndexInv' /\ RoundInv'
    BY <1>1, <2>1, Zenon DEF TypeOK, IndexInv, Registered, RoundInv
  <2>4. TaskInv' /\ ExpiredHasEnded'
    BY <1>1, <2>1, <2>2, SMTT(30) DEF TypeOK, TaskInv, ExpiredHasEnded, Completed, OnChain
  <2> QED BY <2>3, <2>4, Zenon
<1>3. CASE End(s)
  <2>1. chain' = [chain EXCEPT ![s] = "gone"] /\ s \in OnChain
    BY <1>3, Zenon DEF End
  <2>2. TypeOK' /\ IndexInv'
    BY <1>1, <2>1, Zenon DEF TypeOK, IndexInv, Registered
  <2>3. OnChain' \subseteq OnChain
    BY <2>1, Zenon DEF OnChain, TypeOK
  <2>4. TaskInv' /\ ExpiredHasEnded'
    BY <1>1, <2>1, <2>3, SMTT(30) DEF TypeOK, TaskInv, ExpiredHasEnded, Completed, OnChain
  <2>5. RoundInv'
    BY <1>1, <2>3, Zenon DEF RoundInv, Registered
  <2> QED BY <2>2, <2>4, <2>5, Zenon
<1> QED BY <1>2, <1>3, Zenon

(* A task makes a step.                                                    *)
LEMMA ProcessStep ==
    ASSUME ExpireInv, NEW s \in Shard, Process(s)
    PROVE  ExpireInv'
<1> USE DEF ExpireInv
<1>1. UNCHANGED <<epc, listed, todo, current, eread>>
  BY Zenon DEF Process, Store, CompleteOrder, SaveCompleted, SaveShardExpire, ReadIndex,
         AddShardExpireIndex, loopVars
<1>2. CASE Store(s)
  <2>1. /\ pc[s] = "fetch" /\ chain[s] = "waiting" /\ pc' = [pc EXCEPT ![s] = "tx"]
        /\ store' = store \cup {CidOf[s]} /\ UNCHANGED <<chain, index, saved, infos, read>>
    BY <1>2, Zenon DEF Store, Goto
  <2>2. TypeOK'
    <3>1. CidOf[s] \in Cid
      BY ExpireAssumption, Zenon
    <3> QED BY <1>1, <2>1, <3>1, Zenon DEF TypeOK
  <2>3. Registered' = Registered
    BY <2>1, Zenon DEF TypeOK, Registered
  <2>4. TaskInv'
    BY <2>1, Zenon DEF TypeOK, TaskInv, Completed, OnChain
  <2>5. IndexInv' /\ RoundInv' /\ ExpiredHasEnded'
    BY <1>1, <2>1, <2>3, Zenon DEF IndexInv, RoundInv, ExpiredHasEnded, OnChain
  <2> QED BY <2>2, <2>4, <2>5, Zenon
<1>3. CASE CompleteOrder(s)
  <2>1. /\ pc[s] = "tx" /\ chain[s] = "waiting" /\ pc' = [pc EXCEPT ![s] = "save"]
        /\ chain' = [chain EXCEPT ![s] = "completed"]
        /\ UNCHANGED <<store, index, saved, infos, read>>
    BY <1>3, Zenon DEF CompleteOrder, Goto
  <2>2. TypeOK'
    BY <1>1, <2>1, Zenon DEF TypeOK
  <2>3. Registered' = Registered /\ OnChain' = OnChain
    BY <2>1, Zenon DEF TypeOK, Registered, OnChain
  <2>4. TaskInv'
    BY <2>1, <2>3, SMTT(30) DEF TypeOK, TaskInv, Completed, OnChain
  <2>5. IndexInv' /\ RoundInv' /\ ExpiredHasEnded'
    BY <1>1, <2>1, <2>3, Zenon DEF TypeOK, IndexInv, RoundInv, ExpiredHasEnded
  <2> QED BY <2>2, <2>4, <2>5, Zenon
<1>4. CASE SaveCompleted(s)
  <2>1. /\ pc[s] = "save" /\ pc' = [pc EXCEPT ![s] = "info"]
        /\ saved' = [saved EXCEPT ![s] = "completed"]
        /\ UNCHANGED <<chain, store, index, infos, read>>
    BY <1>4, Zenon DEF SaveCompleted, Goto
  <2>2. TypeOK'
    BY <1>1, <2>1, Zenon DEF TypeOK
  <2>3. Registered' = Registered /\ OnChain' = OnChain
    BY <2>1, Zenon DEF TypeOK, Registered, OnChain
  <2>4. TaskInv'
    BY <2>1, <2>3, SMTT(30) DEF TypeOK, TaskInv, Completed
  <2>5. IndexInv' /\ RoundInv' /\ ExpiredHasEnded'
    BY <1>1, <2>1, <2>3, Zenon DEF TypeOK, IndexInv, RoundInv, ExpiredHasEnded
  <2> QED BY <2>2, <2>4, <2>5, Zenon
<1>5. CASE SaveShardExpire(s) \/ ReadIndex(s)
  <2>1. /\ pc[s] \in {"info", "read"} /\ UNCHANGED <<chain, store, index, saved>>
        /\ \E to \in {"read", "write"} : pc' = [pc EXCEPT ![s] = to]
    BY <1>5, Zenon DEF SaveShardExpire, ReadIndex, Goto
  <2>2. /\ infos' \subseteq Shard
        /\ read' = read \/ read' = [read EXCEPT ![s] = index]
    BY <1>5, Zenon DEF SaveShardExpire, ReadIndex, TypeOK
  <2>3. TypeOK'
    BY <1>1, <2>1, <2>2, SMTT(30) DEF TypeOK
  <2>4. Registered' = Registered /\ OnChain' = OnChain
    BY <2>1, SMTT(30) DEF TypeOK, Registered, OnChain
  <2>5. TaskInv'
    BY <2>1, <2>4, SMTT(30) DEF TypeOK, TaskInv, Completed
  <2>6. IndexInv' /\ RoundInv' /\ ExpiredHasEnded'
    BY <1>1, <2>1, <2>2, <2>4, SMTT(30) DEF TypeOK, IndexInv, RoundInv, ExpiredHasEnded
  <2> QED BY <2>3, <2>5, <2>6, Zenon
<1>6. CASE AddShardExpireIndex(s)
  <2>1. /\ pc[s] = "write" /\ pc' = [pc EXCEPT ![s] = "done"]
        /\ index' = read[s] \cup {s} /\ read' = [read EXCEPT ![s] = {}]
        /\ UNCHANGED <<chain, store, saved, infos>>
    BY <1>6, Zenon DEF AddShardExpireIndex, Goto
  <2>2. TypeOK'
    BY <1>1, <2>1, Zenon DEF TypeOK
  <2>3. Registered' = Registered \cup {s} /\ OnChain' = OnChain
    BY <2>1, Zenon DEF TypeOK, Registered, OnChain
  <2>4. TaskInv'
    BY <2>1, <2>3, SMTT(30) DEF TypeOK, TaskInv, Completed
  <2>5. IndexInv' /\ RoundInv' /\ ExpiredHasEnded'
    BY <1>1, <2>1, <2>3, Zenon DEF TypeOK, IndexInv, RoundInv, ExpiredHasEnded
  <2> QED BY <2>2, <2>4, <2>5, Zenon
<1> QED BY <1>2, <1>3, <1>4, <1>5, <1>6, Zenon DEF Process

(* processExpire makes a step.                                             *)
LEMMA ExpireStep ==
    ASSUME ExpireInv, processExpire
    PROVE  ExpireInv'
<1> USE DEF ExpireInv
<1>1. UNCHANGED <<chain, infos, pc, read>> /\ Registered' = Registered /\ OnChain' = OnChain
  BY Zenon DEF processExpire, GetAllShards, GetShardExpireIndex, KeepListed, RemoveContent,
         RemoveFails, ReadIndexToRemove, RemoveShardExpireIndex, MarkExpired, EndOfRound,
         taskVars, Registered, OnChain
<1>2. CASE GetAllShards \/ GetShardExpireIndex \/ EndOfRound
  <2>1. UNCHANGED <<store, index, saved, current, eread>>
    BY <1>2, Zenon DEF GetAllShards, GetShardExpireIndex, EndOfRound, taskVars
  <2>2. /\ epc' \in {"index", "key", "tick"}
        /\ listed' = listed \/ listed' = OnChain \/ (listed' = {} /\ epc' = "tick")
        /\ epc' # "tick" => OnChain \subseteq listed'
        /\ todo' = todo \/ todo' = index
    BY <1>2, Zenon DEF GetAllShards, GetShardExpireIndex, EndOfRound, RoundInv
  <2>3. TypeOK'
    BY <1>1, <2>1, <2>2, Zenon DEF TypeOK, OnChain
  <2>4. TaskInv' /\ ExpiredHasEnded'
    BY <1>1, <2>1, Zenon DEF TaskInv, ExpiredHasEnded, Completed
  <2>5. IndexInv' /\ RoundInv'
    BY <1>1, <2>1, <2>2, Zenon DEF IndexInv, RoundInv
  <2> QED BY <2>3, <2>4, <2>5, Zenon
<1>3. ASSUME NEW s \in Shard, KeepListed(s) \/ RemoveFails(s) PROVE ExpireInv'
  <2>1. UNCHANGED <<store, index, saved, epc, listed, current, eread>> /\ todo' = todo \ {s}
    BY <1>3, Zenon DEF KeepListed, RemoveFails, taskVars
  <2>2. TypeOK' /\ TaskInv' /\ ExpiredHasEnded'
    BY <1>1, <2>1, Zenon DEF TypeOK, TaskInv, ExpiredHasEnded, Completed
  <2>3. IndexInv' /\ RoundInv'
    BY <1>1, <2>1, Zenon DEF IndexInv, RoundInv
  <2> QED BY <2>2, <2>3, Zenon
<1>4. ASSUME NEW s \in Shard, RemoveContent(s) PROVE ExpireInv'
  <2>1. /\ UNCHANGED <<index, saved, listed, todo, eread>>
        /\ epc = "key" /\ epc' = "read" /\ s \in todo \ listed /\ current' = s
        /\ store' = IF Needed(CidOf[s]) THEN store ELSE store \ {CidOf[s]}
    BY <1>4, Zenon DEF RemoveContent, taskVars
  <2>2. \A t \in OnChain : CidOf[t] \in store => CidOf[t] \in store'
    BY <2>1, Zenon DEF RoundInv, Needed
  <2>3. TypeOK'
    BY <1>1, <2>1, Zenon DEF TypeOK
  <2>4. TaskInv' /\ ExpiredHasEnded'
    BY <1>1, <2>1, <2>2, Zenon DEF TaskInv, ExpiredHasEnded, Completed
  <2>5. IndexInv' /\ RoundInv'
    BY <1>1, <2>1, Zenon DEF IndexInv, RoundInv
  <2> QED BY <2>3, <2>4, <2>5, Zenon
<1>5. CASE ReadIndexToRemove \/ RemoveShardExpireIndex
  <2>1. /\ UNCHANGED <<store, saved, listed, todo, current>>
        /\ epc \in {"read", "write"} /\ epc' \in {"write", "mark"}
        /\ index' \subseteq index \cup eread /\ eread' \subseteq index
    BY <1>5, Zenon DEF ReadIndexToRemove, RemoveShardExpireIndex, taskVars
  <2>2. TypeOK' /\ TaskInv' /\ ExpiredHasEnded'
    BY <1>1, <2>1, Zenon DEF TypeOK, TaskInv, ExpiredHasEnded, Completed
  <2>3. IndexInv' /\ RoundInv'
    BY <1>1, <2>1, Zenon DEF IndexInv, RoundInv
  <2> QED BY <2>2, <2>3, Zenon
<1>6. CASE MarkExpired
  <2>1. /\ UNCHANGED <<store, index, listed, eread>>
        /\ epc = "mark" /\ epc' = "key" /\ saved' = [saved EXCEPT ![current] = "expired"]
        /\ todo' = todo \ {current} /\ current' = None
    BY <1>6, Zenon DEF MarkExpired
  <2>2. current \in Shard /\ chain[current] = "gone"
    BY <2>1, UnlistedHasEnded, Zenon DEF RoundInv, Registered
  <2>3. TypeOK'
    BY <1>1, <2>1, <2>2, Zenon DEF TypeOK
  <2>4. TaskInv' /\ ExpiredHasEnded'
    BY <1>1, <2>1, <2>2, Zenon DEF TypeOK, TaskInv, ExpiredHasEnded, Completed
  <2>5. IndexInv' /\ RoundInv'
    BY <1>1, <2>1, Zenon DEF IndexInv, RoundInv
  <2> QED BY <2>3, <2>4, <2>5, Zenon
<1> QED BY <1>2, <1>3, <1>4, <1>5, <1>6, Zenon DEF processExpire

LEMMA NextExpireInv ==
    ASSUME Quiet PROVE ExpireInv /\ [Next]_vars => ExpireInv'
<1> SUFFICES ASSUME ExpireInv, [Next]_vars PROVE ExpireInv'
  BY Zenon
<1>1. CASE UNCHANGED vars
  BY <1>1, Zenon DEF vars, taskVars, loopVars, ExpireInv, TypeOK, TaskInv, IndexInv, RoundInv,
              ExpiredHasEnded, Completed, Registered, OnChain
<1> QED BY <1>1, ChainStep, ProcessStep, ExpireStep, Zenon DEF Next

(* While the chain counts a shard as completed by this node, its content   *)
(* is in the backends, whichever shards share contents and whatever        *)
(* updates of ShardExpireIndex are lost (processExpire, the cidList test). *)
THEOREM CompletedAlwaysStored == ASSUME Quiet PROVE Spec => []CompletedIsStored
<1>1. ExpireInv => CompletedIsStored
  BY Zenon DEF ExpireInv, TaskInv, Completed, OnChain, CompletedIsStored
<1> QED BY <1>1, InitExpireInv, NextExpireInv, PTL DEF Spec

(* Only a shard the chain has ended is marked expired.                     *)
THEOREM ExpiredAlwaysEnded == ASSUME Quiet PROVE Spec => []ExpiredHasEnded
<1>1. ExpireInv => ExpiredHasEnded
  BY Zenon DEF ExpireInv
<1> QED BY <1>1, InitExpireInv, NextExpireInv, PTL DEF Spec

(* The state of processExpire and of the tasks keeps its type.             *)
THEOREM ExpireTypeCorrect == ASSUME Quiet PROVE Spec => []TypeOK
<1>1. ExpireInv => TypeOK
  BY Zenon DEF ExpireInv
<1> QED BY <1>1, InitExpireInv, NextExpireInv, PTL DEF Spec
=============================================================================
