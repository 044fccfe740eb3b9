----------------------------- MODULE StateStore -----------------------------
(***************************************************************************)
(* The records of utils/state_utils.go and their indexes, in a datastore   *)
(* without transactions.  Saving a record that is not there yet takes four *)
(* accesses (Has, Put of the record, Get and Put of the index), and no     *)
(* lock is held over them: saves of different records of one kind share    *)
(* the index.  The process may stop between any two accesses, and an       *)
(* access may fail.                                                        *)
(***************************************************************************)
EXTENDS Integers, FiniteSets, Sequences, Functions

CONSTANTS
    Key,           \* data ids, shard ids, ...: what identifies a record
    Val,           \* contents of records
    Goroutine,     \* the callers
    IndexLimit,    \* cbg.MaxLength: MarshalCBOR refuses longer lists
    MaxFaults,     \* bound: crashes and accesses that fail
    None

ASSUME StateStoreAssumption ==
    IndexLimit \in Nat /\ MaxFaults \in Nat /\ None \notin Val

Kind == {"shardexpire", "order", "migrate", "shard"}

VARIABLES
    record,    \* record[k][key]: the record of kind k, or None
    index,     \* index[k]: the keys of kind k
    save,      \* save[g]: where goroutine g is in a Save or Remove
    lost,      \* lost[k]: keys that a stale index overwrote, that were taken
               \* out, or whose Save broke off between record and index
    faults     \* crashes and failed accesses so far

storeVars == <<record, index, save, lost, faults>>

Idle == [pc |-> "idle", kind |-> None, key |-> None, val |-> None,
         exists |-> FALSE, copy |-> <<>>]

StoreInit ==
    /\ record = [k \in Kind |-> [key \in Key |-> None]]
    /\ index = [k \in Kind |-> <<>>]
    /\ save = [g \in Goroutine |-> Idle]
    /\ lost = [k \in Kind |-> {}]
    /\ faults = 0

Fault == faults < MaxFaults /\ faults' = faults + 1

-----------------------------------------------------------------------------
(* Save: ds.Has, then Put of the record, then, if it was not there, the    *)
(* index.                                                                  *)

SaveBegin(g, k, key, v) ==
    /\ save[g].pc = "idle"
    /\ save' = [save EXCEPT ![g] =
                   [Idle EXCEPT !.pc = "put", !.kind = k, !.key = key,
                                !.val = v, !.exists = record[k][key] # None]]
    /\ UNCHANGED <<record, index, lost, faults>>

SaveShardExpire(g, key, v) == SaveBegin(g, "shardexpire", key, v)
SaveOrder(g, key, v) == SaveBegin(g, "order", key, v)
SaveMigrate(g, key, v) == SaveBegin(g, "migrate", key, v)
SaveShard(g, key, v) == SaveBegin(g, "shard", key, v)

(* Mutant of SavePut: the record is not written.                           *)
SavePutForgotten(g) ==
    /\ save[g].pc = "put"
    /\ save' = [save EXCEPT ![g].pc = IF save[g].exists THEN "ok" ELSE "index"]
    /\ UNCHANGED <<record, index, lost, faults>>
SavePut(g) ==
    LET s == save[g] IN
    /\ s.pc = "put"
    /\ record' = [record EXCEPT ![s.kind][s.key] = s.val]
    /\ save' = [save EXCEPT ![g].pc = IF s.exists THEN "ok" ELSE "index"]
    /\ UNCHANGED <<index, lost, faults>>

(* AddShardExpireIndex and the three Update...Index: Get, append, Put.     *)
IndexGet(g, k) ==
    /\ save[g].pc = "index" /\ save[g].kind = k
    /\ save' = [save EXCEPT ![g].pc = "append", ![g].copy = index[k]]
    /\ UNCHANGED <<record, index, lost, faults>>

AddShardExpireIndex(g) == IndexGet(g, "shardexpire")
UpdateOrderIndex(g) == IndexGet(g, "order")
UpdateMigrateIndex(g) == IndexGet(g, "migrate")
UpdateShardIndex(g) == IndexGet(g, "shard")

(* What the Put of a new list drops because another goroutine wrote the    *)
(* index after it was read.                                                *)
Overwritten(k, copy, new) ==
    IF index[k] = copy THEN {} ELSE Range(index[k]) \ Range(new)

PutIndex(g, new) ==
    LET s == save[g] IN
    /\ s.pc = "append"
    /\ index' = [index EXCEPT ![s.kind] = new]
    /\ lost' = [lost EXCEPT ![s.kind] = @ \cup Overwritten(s.kind, s.copy, new)]
    /\ save' = [save EXCEPT ![g].pc = "ok"]
    /\ UNCHANGED <<record, faults>>

(* Mutant of IndexPut: the key replaces the list.                          *)
IndexPutOnly(g) == PutIndex(g, <<save[g].key>>)
IndexPut(g) ==
    /\ Len(save[g].copy) + 1 <= IndexLimit
    /\ PutIndex(g, Append(save[g].copy, save[g].key))

(* RemoveShardExpireIndex: Get, cut out the first occurrence, Put.         *)
RemoveBegin(g, key) ==
    /\ save[g].pc = "idle"
    /\ save' = [save EXCEPT ![g] =
                   [Idle EXCEPT !.pc = "remove", !.kind = "shardexpire",
                                !.key = key, !.copy = index["shardexpire"]]]
    /\ UNCHANGED <<record, index, lost, faults>>

CutOut(q, i) == SubSeq(q, 1, i - 1) \o SubSeq(q, i + 1, Len(q))

Without(q, key, new) ==
    \/ key \notin Range(q) /\ new = q
    \/ \E i \in DOMAIN q :
           /\ q[i] = key /\ \A j \in 1..(i - 1) : q[j] # key
           /\ new = CutOut(q, i)

RemoveShardExpireIndex(g) ==
    LET s == save[g] IN
    /\ s.pc = "remove"
    /\ \E new \in {s.copy} \cup {CutOut(s.copy, i) : i \in DOMAIN s.copy} :
           /\ Without(s.copy, s.key, new)
           /\ index' = [index EXCEPT ![s.kind] = new]
           /\ lost' = [lost EXCEPT ![s.kind] =
                          @ \cup (Range(index[s.kind]) \ Range(new))]
    /\ save' = [save EXCEPT ![g].pc = "ok"]
    /\ UNCHANGED <<record, faults>>

(* The key of a record that is written and not yet in the index. *)
Indexing(g, k) ==
    IF save[g].pc \in {"index", "append"} /\ save[g].kind = k
    THEN {save[g].key} ELSE {}

(* An access fails: the caller gets an error, and what was written stays.  *)
SaveFails(g) ==
    /\ Fault
    /\ save[g].pc \in {"put", "index", "append", "remove"}
    /\ save' = [save EXCEPT ![g].pc = "err"]
    /\ lost' = [k \in Kind |-> lost[k] \cup Indexing(g, k)]
    /\ UNCHANGED <<record, index>>

(* MarshalCBOR refuses the list. *)
IndexFull(g) ==
    /\ save[g].pc = "append" /\ Len(save[g].copy) + 1 > IndexLimit
    /\ save' = [save EXCEPT ![g].pc = "err"]
    /\ lost' = [k \in Kind |-> lost[k] \cup Indexing(g, k)]
    /\ UNCHANGED <<record, index, faults>>

SaveReturns(g) ==
    /\ save[g].pc \in {"ok", "err"}
    /\ save' = [save EXCEPT ![g] = Idle]
    /\ UNCHANGED <<record, index, lost, faults>>

(* GetShardExpire, GetOrder, GetMigrate, GetShard: the record, or a zero   *)
(* one.                                                                    *)
Get(k, key, zero) == IF record[k][key] = None THEN zero ELSE record[k][key]

StoreCrash ==
    /\ Fault
    /\ save' = [g \in Goroutine |-> Idle]
    /\ lost' = [k \in Kind |-> lost[k] \cup UNION {Indexing(g, k) : g \in Goroutine}]
    /\ UNCHANGED <<record, index>>

(* The accesses of a Save or Remove that is under way. *)
StoreStep(g) ==
    \/ SavePut(g) \/ IndexPut(g) \/ IndexFull(g) \/ RemoveShardExpireIndex(g)
    \/ AddShardExpireIndex(g) \/ UpdateOrderIndex(g)
    \/ UpdateMigrateIndex(g) \/ UpdateShardIndex(g)

(* Any callers: what the storage and gateway services do to the records. *)
StoreCall(g) ==
    \E key \in Key :
        \/ \E v \in Val :
               \/ SaveShardExpire(g, key, v) \/ SaveOrder(g, key, v)
               \/ SaveMigrate(g, key, v) \/ SaveShard(g, key, v)
        \/ RemoveBegin(g, key)

StoreNext ==
    \/ \E g \in Goroutine : StoreCall(g) \/ StoreStep(g) \/ SaveFails(g)
                            \/ SaveReturns(g)
    \/ StoreCrash

StoreSpec == StoreInit /\ [][StoreNext]_storeVars

-----------------------------------------------------------------------------
(* A goroutine in a Save or a Remove, or in neither. *)
SaveState ==
    [pc : {"idle", "put", "index", "append", "remove", "ok", "err"},
     kind : Kind \cup {None}, key : Key \cup {None}, val : Val \cup {None},
     exists : BOOLEAN, copy : Seq(Key)]

(* Records, indexes and goroutines have the shape of state_utils.go.       *)
StoreTypeOK ==
    /\ record \in [Kind -> [Key -> Val \cup {None}]]
    /\ index \in [Kind -> Seq(Key)]
    /\ save \in [Goroutine -> SaveState]
    /\ lost \in [Kind -> SUBSET Key]
    /\ faults \in 0..MaxFaults

(* Every key of an index has its record, whatever failed or crashed and    *)
(* however the saves interleaved: ShardList, OrderList and the restart     *)
(* never meet a key for which GetShard or GetOrder returns a zero record.  *)
IndexedHasRecord ==
    \A k \in Kind : \A key \in Range(index[k]) : record[k][key] # None

(* An index never grows beyond what UnmarshalCBOR accepts, so it can       *)
(* always be read again.                                                   *)
IndexIsReadable == \A k \in Kind : Len(index[k]) <= IndexLimit

(* A record that was written is in the index once its Save is over, and    *)
(* later saves of it leave the index alone: a key is missing only when an  *)
(* update of the index wrote back a list that was read before another      *)
(* update, when RemoveShardExpireIndex took it out, or when its first Save *)
(* failed or was cut off before the index (no later Save repairs that).    *)
SavedIsIndexed ==
    \A k \in Kind : \A key \in Key :
        record[k][key] # None =>
            \/ key \in Range(index[k]) \cup lost[k]
            \/ \E g \in Goroutine : key \in Indexing(g, k)
=============================================================================
