--------------------------- MODULE MigrateProofs ---------------------------
(***************************************************************************)
(* StateStore and Migrate for any goroutines, keys, data, orders, calls,   *)
(* crashes and failures, and any limit of MarshalCBOR.  First: what holds  *)
(* of the indexes of StateStore.  Then: a shard that the chain counts as   *)
(* moved is stored, since the transaction is sent only by a handler that   *)
(* has stored the content.  Last: every step of Migrate is a step of       *)
(* StateStore or leaves the records alone, so what holds of the indexes    *)
(* holds of Migrate, and the records say no more than what happened on     *)
(* chain.                                                                  *)
(***************************************************************************)
EXTENDS Migrate, TLAPS

-----------------------------------------------------------------------------
(* The indexes of StateStore.                                              *)


(* What a goroutine holds while it is in a Save or a Remove. *)
Underway(g) ==
    LET s == save[g] IN
    /\ s.pc # "idle" => s.kind \in Kind /\ s.key \in Key
    /\ s.pc = "put" => /\ s.val \in Val
                       /\ s.exists => record[s.kind][s.key] # None
    /\ s.pc \in {"index", "append"} => record[s.kind][s.key] # None
    /\ s.pc \in {"append", "remove"} =>
          /\ Len(s.copy) <= IndexLimit
          /\ \A key \in Range(s.copy) : record[s.kind][key] # None

(* The inductive invariant: a copy of an index that is about to be written *)
(* back is as good as the index itself.                                    *)
StoreInv ==
    /\ StoreTypeOK
    /\ \A g \in Goroutine : Underway(g)
    /\ IndexedHasRecord /\ IndexIsReadable /\ SavedIsIndexed

-----------------------------------------------------------------------------
(* Lists of keys. *)

(* Appending a key to a list adds just that key.                           *)
LEMMA AppendRange ==
    ASSUME NEW S, NEW q \in Seq(S), NEW e \in S
    PROVE  /\ Append(q, e) \in Seq(S) /\ Len(Append(q, e)) = Len(q) + 1
           /\ Range(Append(q, e)) = Range(q) \cup {e}
<1>1. Append(q, e) \in Seq(S) /\ Len(Append(q, e)) = Len(q) + 1
  BY SMTT(30)
<1>2. \A x \in Range(q) : x \in Range(Append(q, e))
  BY SMTT(30) DEF Range
<1>3. e \in Range(Append(q, e))
  <2>1. Append(q, e)[Len(q) + 1] = e /\ Len(q) + 1 \in DOMAIN Append(q, e)
    BY SMTT(30)
  <2> QED BY <2>1, Zenon DEF Range
<1>4. \A x \in Range(Append(q, e)) : x \in Range(q) \cup {e}
  BY SMTT(30) DEF Range
<1> QED BY <1>1, <1>2, <1>3, <1>4, Zenon

(* Cutting out an entry, as RemoveShardExpireIndex does, adds nothing.     *)
LEMMA CutOutRange ==
    ASSUME NEW S, NEW q \in Seq(S), NEW i \in DOMAIN q
    PROVE  /\ CutOut(q, i) \in Seq(S) /\ Len(CutOut(q, i)) <= Len(q)
           /\ Range(CutOut(q, i)) \subseteq Range(q)
<1> DEFINE a == SubSeq(q, 1, i - 1)
           b == SubSeq(q, i + 1, Len(q))
<1>1. a \in Seq(S) /\ Len(a) = i - 1 /\ \A j \in 1..(i - 1) : a[j] = q[j]
  BY SMTT(30)
<1>2. /\ b \in Seq(S) /\ Len(b) = Len(q) - i
      /\ \A j \in 1..(Len(q) - i) : b[j] = q[i + j]
  BY SMTT(30)
<1>3. CutOut(q, i) = a \o b
  BY Zenon DEF CutOut
<1> HIDE DEF a, b
<1>4. a \o b \in Seq(S) /\ Len(a \o b) = Len(q) - 1
  BY <1>1, <1>2, SMTT(30)
<1>5. ASSUME NEW j \in DOMAIN (a \o b) PROVE (a \o b)[j] \in Range(q)
  <2>1. j \in 1..(Len(q) - 1)
    BY <1>4, SMTT(30)
  <2>2. CASE j <= i - 1
    <3>1. (a \o b)[j] = q[j] /\ j \in DOMAIN q
      BY <2>1, <2>2, <1>1, <1>2, SMTT(30)
    <3> QED BY <3>1, Zenon DEF Range
  <2>3. CASE j > i - 1
    <3>1. (a \o b)[j] = b[j - (i - 1)]
      BY <2>1, <2>3, <1>1, <1>2, SMTT(30)
    <3>2. j - (i - 1) \in 1..(Len(q) - i)
      BY <2>1, <2>3, <1>1, <1>2, SMTT(30)
    <3>3. (a \o b)[j] = q[j + 1] /\ j + 1 \in DOMAIN q
      BY <3>1, <3>2, <2>1, <1>2, SMTT(30)
    <3> QED BY <3>3, Zenon DEF Range
  <2> QED BY <2>1, <2>2, <2>3, SMTT(30)
<1> QED BY <1>3, <1>4, <1>5, SMTT(30) DEF Range

-----------------------------------------------------------------------------
(* Nothing is saved at the start.                                          *)
LEMMA StoreInitInv == StoreInit => StoreInv
<1> SUFFICES ASSUME StoreInit PROVE StoreInv
  BY Zenon
<1>1. StoreTypeOK
  BY StateStoreAssumption, SMTT(30) DEF StoreInit, StoreTypeOK, Idle, SaveState
<1>2. \A g \in Goroutine : Underway(g)
  BY Zenon DEF StoreInit, Underway, Idle
<1>3. IndexedHasRecord /\ IndexIsReadable /\ SavedIsIndexed
  BY StateStoreAssumption, SMTT(30)
  DEF StoreInit, IndexedHasRecord, IndexIsReadable, SavedIsIndexed, Range
<1> QED BY <1>1, <1>2, <1>3, Zenon DEF StoreInv

(* A goroutine that changes only its own place keeps the others' facts.    *)
LEMMA PlaceInv ==
    ASSUME StoreInv, NEW g \in Goroutine, NEW s \in SaveState,
           save' = [save EXCEPT ![g] = s],
           UNCHANGED <<record, index>>,
           lost' \in [Kind -> SUBSET Key], faults' \in 0..MaxFaults,
           Underway(g)',
           \A k \in Kind : lost[k] \cup Indexing(g, k)
                               \subseteq lost'[k] \cup Indexing(g, k)'
    PROVE  StoreInv'
<1> USE DEF StoreInv
<1>1. StoreTypeOK'
  BY Zenon DEF StoreTypeOK
<1>2. ASSUME NEW h \in Goroutine PROVE Underway(h)'
  BY Zenon DEF StoreTypeOK, Underway
<1>3. IndexedHasRecord' /\ IndexIsReadable'
  BY Zenon DEF IndexedHasRecord, IndexIsReadable
<1>4. ASSUME NEW k \in Kind, NEW h \in Goroutine, h # g
      PROVE  Indexing(h, k)' = Indexing(h, k)
  BY <1>4, Zenon DEF Indexing, StoreTypeOK
<1>5. SavedIsIndexed'
  <2> SUFFICES ASSUME NEW k \in Kind, NEW key \in Key, record[k][key] # None
               PROVE  \/ key \in Range(index[k]) \cup lost'[k]
                      \/ \E h \in Goroutine : key \in Indexing(h, k)'
    BY Zenon DEF SavedIsIndexed
  <2>1. CASE key \in Range(index[k]) \cup lost[k]
    BY <2>1, Zenon
  <2>2. CASE \E h \in Goroutine : key \in Indexing(h, k)
    BY <2>2, <1>4, Zenon
  <2> QED BY <2>1, <2>2, Zenon DEF SavedIsIndexed
<1> QED BY <1>1, <1>2, <1>3, <1>5, Zenon

(* Save begins: what ds.Has answered stays true, since no record is ever   *)
(* deleted.                                                                *)
LEMMA SaveBeginInv ==
    ASSUME StoreInv, NEW g \in Goroutine, NEW k \in Kind, NEW key \in Key,
           NEW v \in Val, SaveBegin(g, k, key, v)
    PROVE  StoreInv'
<1> DEFINE e == record[k][key] # None
           s == [Idle EXCEPT !.pc = "put", !.kind = k, !.key = key,
                             !.val = v, !.exists = e]
<1>1. save' = [save EXCEPT ![g] = s] /\ UNCHANGED <<record, index, lost, faults>>
  BY Zenon DEF SaveBegin
<1>2. e \in BOOLEAN
  BY Zenon
<1> HIDE DEF e
<1>3. /\ s \in SaveState /\ s.pc = "put" /\ s.kind = k /\ s.key = key
      /\ s.val = v /\ s.exists = e
  <2>1. Idle \in SaveState
    BY SMTT(30) DEF Idle, SaveState
  <2> QED BY <1>2, <2>1, Zenon DEF SaveState
<1> HIDE DEF s
<1>4. Underway(g)'
  <2>1. save'[g] = s
    BY <1>1, Zenon DEF StoreInv, StoreTypeOK
  <2> QED BY <1>1, <1>3, <2>1, Zenon DEF Underway, e
<1>5. \A j \in Kind : Indexing(g, j) = {}
  BY Zenon DEF SaveBegin, Indexing
<1> QED BY <1>1, <1>3, <1>4, <1>5, PlaceInv, Zenon DEF StoreInv, StoreTypeOK

(* RemoveShardExpireIndex begins. *)
LEMMA RemoveBeginInv ==
    ASSUME StoreInv, NEW g \in Goroutine, NEW key \in Key, RemoveBegin(g, key)
    PROVE  StoreInv'
<1> DEFINE k == "shardexpire"
           s == [Idle EXCEPT !.pc = "remove", !.kind = k, !.key = key,
                             !.copy = index[k]]
<1>1. save' = [save EXCEPT ![g] = s] /\ UNCHANGED <<record, index, lost, faults>>
  BY Zenon DEF RemoveBegin
<1>2. k \in Kind
  BY Zenon DEF Kind
<1>3. index[k] \in Seq(Key)
  BY <1>2, Zenon DEF StoreInv, StoreTypeOK
<1>4. /\ s \in SaveState /\ s.pc = "remove" /\ s.kind = k /\ s.key = key
      /\ s.copy = index[k]
  BY <1>2, <1>3, Zenon DEF SaveState, Idle
<1> HIDE DEF s
<1>5. Underway(g)'
  <2>1. save'[g] = s
    BY <1>1, Zenon DEF StoreInv, StoreTypeOK
  <2>2. Len(index[k]) <= IndexLimit
    BY <1>2, Zenon DEF StoreInv, IndexIsReadable
  <2>3. \A e \in Range(index[k]) : record[k][e] # None
    BY <1>2, Zenon DEF StoreInv, IndexedHasRecord
  <2> QED BY <1>1, <1>2, <1>4, <2>1, <2>2, <2>3, Zenon DEF Underway
<1>6. \A j \in Kind : Indexing(g, j) = {}
  BY Zenon DEF RemoveBegin, Indexing
<1> QED BY <1>1, <1>4, <1>5, <1>6, PlaceInv, Zenon DEF StoreInv, StoreTypeOK

(* The index is read: the copy is as good as the index at that moment.     *)
LEMMA IndexGetInv ==
    ASSUME StoreInv, NEW g \in Goroutine, NEW k \in Kind, IndexGet(g, k)
    PROVE  StoreInv'
<1> DEFINE s == [save[g] EXCEPT !.pc = "append", !.copy = index[k]]
<1>1. save' = [save EXCEPT ![g] = s] /\ UNCHANGED <<record, index, lost, faults>>
  BY Zenon DEF IndexGet, StoreInv, StoreTypeOK
<1>2. save[g] \in SaveState /\ index[k] \in Seq(Key)
  BY Zenon DEF StoreInv, StoreTypeOK
<1>3. /\ s \in SaveState /\ s.pc = "append" /\ s.kind = k
      /\ s.key = save[g].key /\ s.copy = index[k]
  BY <1>2, Zenon DEF SaveState, IndexGet
<1> HIDE DEF s
<1>4. save'[g] = s
  BY <1>1, Zenon DEF StoreInv, StoreTypeOK
<1>5. Underway(g)'
  <2>1. save[g].key \in Key /\ record[k][save[g].key] # None
    BY Zenon DEF StoreInv, Underway, IndexGet
  <2>2. Len(index[k]) <= IndexLimit
    BY Zenon DEF StoreInv, IndexIsReadable
  <2>3. \A e \in Range(index[k]) : record[k][e] # None
    BY Zenon DEF StoreInv, IndexedHasRecord
  <2> QED BY <1>1, <1>3, <1>4, <2>1, <2>2, <2>3, Zenon DEF Underway
<1>6. \A j \in Kind : Indexing(g, j)' = Indexing(g, j)
  BY <1>3, <1>4, Zenon DEF Indexing, IndexGet
<1> QED BY <1>1, <1>3, <1>5, <1>6, PlaceInv, Zenon DEF StoreInv, StoreTypeOK

(* The record is put: its key is in the index already, or the goroutine    *)
(* goes on to the index.                                                   *)
LEMMA SavePutInv ==
    ASSUME StoreInv, NEW g \in Goroutine, SavePut(g)
    PROVE  StoreInv'
<1> USE DEF StoreInv, SavePut
<1> DEFINE s == save[g]
<1>1. s.kind \in Kind /\ s.key \in Key /\ s.val \in Val
  BY Zenon DEF Underway
<1>2. StoreTypeOK'
  <2>1. record' \in [Kind -> [Key -> Val \cup {None}]]
    BY <1>1, Zenon DEF StoreTypeOK
  <2>2. s \in SaveState
    BY Zenon DEF StoreTypeOK
  <2>3. [s EXCEPT !.pc = IF s.exists THEN "ok" ELSE "index"] \in SaveState
    BY <2>2, Zenon DEF SaveState
  <2>4. save' \in [Goroutine -> SaveState]
    BY <2>3, Zenon DEF StoreTypeOK
  <2> QED BY <2>1, <2>4, Zenon DEF StoreTypeOK
<1>3. \A k \in Kind, key \in Key :
          record'[k][key] = IF k = s.kind /\ key = s.key THEN s.val ELSE record[k][key]
  BY <1>1, Zenon DEF StoreTypeOK
<1>4. \A k \in Kind, key \in Key : record[k][key] # None => record'[k][key] # None
  BY <1>1, <1>3, StateStoreAssumption, SMTT(30)
<1>5. record'[s.kind][s.key] # None
  BY <1>1, <1>3, StateStoreAssumption, SMTT(30)
<1>6. ASSUME NEW h \in Goroutine PROVE Underway(h)'
  <2>1. save[h].copy \in Seq(Key)
    BY Zenon DEF StoreTypeOK, SaveState
  <2>2. Range(save[h].copy) \subseteq Key
    BY <2>1, SMTT(30) DEF Range
  <2>3. CASE h = g
    <3>1. save'[g].pc \in {"ok", "index"} /\ save'[g].kind = s.kind /\ save'[g].key = s.key
      BY Zenon DEF StoreTypeOK, SaveState
    <3> HIDE DEF s, SavePut
    <3> QED BY <1>1, <1>5, <2>3, <3>1, Zenon DEF Underway
  <2>4. CASE h # g
    <3>1. save'[h] = save[h] /\ Underway(h)
      BY <2>4, Zenon DEF StoreTypeOK
    <3>2. save[h].pc # "idle" => save[h].kind \in Kind /\ save[h].key \in Key
      BY <3>1, Zenon DEF Underway
    <3> QED BY <1>4, <2>2, <3>1, <3>2, Zenon DEF Underway
  <2> QED BY <2>3, <2>4, Zenon
<1>7. IndexedHasRecord' /\ IndexIsReadable'
  <2>1. \A k \in Kind : Range(index[k]) \subseteq Key
    BY SMTT(30) DEF StoreTypeOK, Range
  <2> QED BY <2>1, <1>4, Zenon DEF IndexedHasRecord, IndexIsReadable
<1>8. ASSUME NEW k \in Kind, NEW key \in Key, record'[k][key] # None
      PROVE  \/ key \in Range(index[k]) \cup lost[k]
             \/ \E h \in Goroutine : key \in Indexing(h, k)'
  <2>1. CASE record[k][key] = None
    <3>1. k = s.kind /\ key = s.key /\ ~ s.exists
      <4>1. k = s.kind /\ key = s.key
        <5> HIDE DEF s, SavePut, StoreInv
        <5>1. ~(k = s.kind /\ key = s.key) => record'[k][key] = record[k][key]
          BY <1>3, Zenon
        <5> QED BY <2>1, <1>8, <5>1, Zenon
      <4> QED BY <2>1, <4>1, Zenon DEF Underway
    <3>2. save'[g].pc = "index" /\ save'[g].kind = k /\ save'[g].key = key
      BY <3>1, Zenon DEF StoreTypeOK, SaveState
    <3>3. key \in Indexing(g, k)'
      <4> HIDE DEF SavePut, StoreInv
      <4> QED BY <3>2, SMTT(30) DEF Indexing
    <3> QED BY <3>3, Zenon
  <2>2. CASE record[k][key] # None
    <3>1. \A h \in Goroutine : Indexing(h, k) \subseteq Indexing(h, k)'
      BY Zenon DEF Indexing, StoreTypeOK, SaveState
    <3> QED BY <3>1, <2>2, Zenon DEF SavedIsIndexed
  <2> QED BY <2>1, <2>2, Zenon
<1> QED BY <1>2, <1>6, <1>7, <1>8, Zenon DEF SavedIsIndexed

(* PutIndex writes back the copy with the key: every key that the index    *)
(* had is in the new list or recorded as lost.                             *)
LEMMA IndexPutInv ==
    ASSUME StoreInv, NEW g \in Goroutine, IndexPut(g)
    PROVE  StoreInv'
<1> DEFINE s == save[g]
           new == Append(s.copy, s.key)
           dropped == Overwritten(s.kind, s.copy, new)
           t == [s EXCEPT !.pc = "ok"]
<1>1. /\ s.pc = "append" /\ Len(s.copy) + 1 <= IndexLimit
      /\ index' = [index EXCEPT ![s.kind] = new]
      /\ lost' = [lost EXCEPT ![s.kind] = @ \cup dropped]
      /\ save' = [save EXCEPT ![g] = t]
      /\ UNCHANGED <<record, faults>>
  BY Zenon DEF IndexPut, PutIndex
<1>2. s \in SaveState /\ s.copy \in Seq(Key)
  BY Zenon DEF StoreInv, StoreTypeOK, SaveState
<1>3. s.kind \in Kind /\ s.key \in Key
  BY <1>1, Zenon DEF StoreInv, Underway
<1>4. /\ new \in Seq(Key) /\ Len(new) = Len(s.copy) + 1
      /\ Range(new) = Range(s.copy) \cup {s.key}
  BY <1>2, <1>3, AppendRange, SMTT(30)
<1>5. t \in SaveState /\ t.pc = "ok" /\ t.kind = s.kind /\ t.key = s.key
  BY <1>2, Zenon DEF SaveState
<1>6. \A e \in Range(new) : record[s.kind][e] # None
  BY <1>1, <1>4, Zenon DEF StoreInv, Underway
<1>7. Range(index[s.kind]) \subseteq Range(new) \cup dropped
  BY <1>4, Zenon DEF Overwritten
<1>8. dropped \subseteq Key
  <2>1. dropped \subseteq Range(index[s.kind])
    BY Zenon DEF Overwritten
  <2>2. index[s.kind] \in Seq(Key)
    BY <1>3, Zenon DEF StoreInv, StoreTypeOK
  <2>3. \A i \in DOMAIN index[s.kind] : index[s.kind][i] \in Key
    <3> HIDE DEF s
    <3> QED BY <2>2, SMTT(30)
  <2> QED BY <2>1, <2>3, Zenon DEF Range
<1> HIDE DEF s, new, dropped, t
<1>9. StoreTypeOK'
  BY <1>1, <1>3, <1>4, <1>5, <1>8, Zenon DEF StoreInv, StoreTypeOK
<1>10. ASSUME NEW h \in Goroutine PROVE Underway(h)'
  <2>1. CASE h = g
    BY <2>1, <1>1, <1>3, <1>5, Zenon DEF StoreInv, StoreTypeOK, Underway
  <2>2. CASE h # g
    BY <2>2, <1>1, Zenon DEF StoreInv, StoreTypeOK, Underway
  <2> QED BY <2>1, <2>2, Zenon
<1>11. IndexedHasRecord'
  BY <1>1, <1>3, <1>6, Zenon DEF StoreInv, StoreTypeOK, IndexedHasRecord
<1>12. IndexIsReadable'
  BY <1>1, <1>3, <1>4, Zenon DEF StoreInv, StoreTypeOK, IndexIsReadable
<1>13. SavedIsIndexed'
  <2> SUFFICES ASSUME NEW k \in Kind, NEW key \in Key, record[k][key] # None
               PROVE  \/ key \in Range(index'[k]) \cup lost'[k]
                      \/ \E h \in Goroutine : key \in Indexing(h, k)'
    BY <1>1, Zenon DEF SavedIsIndexed
  <2>1. Range(index[k]) \cup lost[k] \subseteq Range(index'[k]) \cup lost'[k]
    BY <1>1, <1>3, <1>7, Zenon DEF StoreInv, StoreTypeOK
  <2>2. Indexing(g, k) \subseteq Range(index'[k])
    BY <1>1, <1>3, <1>4, Zenon DEF Indexing, StoreInv, StoreTypeOK, s
  <2>3. \A h \in Goroutine \ {g} : Indexing(h, k)' = Indexing(h, k)
    BY <1>1, Zenon DEF Indexing, StoreInv, StoreTypeOK
  <2> QED BY <2>1, <2>2, <2>3, Zenon DEF StoreInv, SavedIsIndexed
<1> QED BY <1>9, <1>10, <1>11, <1>12, <1>13, Zenon DEF StoreInv

(* RemoveShardExpireIndex writes back the copy without the key.            *)
LEMMA RemoveInv ==
    ASSUME StoreInv, NEW g \in Goroutine, RemoveShardExpireIndex(g)
    PROVE  StoreInv'
<1> DEFINE s == save[g]
           t == [s EXCEPT !.pc = "ok"]
<1>1. s.pc = "remove" /\ save' = [save EXCEPT ![g] = t] /\ UNCHANGED <<record, faults>>
  BY Zenon DEF RemoveShardExpireIndex
<1>2. PICK new \in {s.copy} \cup {CutOut(s.copy, i) : i \in DOMAIN s.copy} :
          /\ index' = [index EXCEPT ![s.kind] = new]
          /\ lost' = [lost EXCEPT ![s.kind] =
                         @ \cup (Range(index[s.kind]) \ Range(new))]
  BY Zenon DEF RemoveShardExpireIndex
<1>3. s \in SaveState /\ s.copy \in Seq(Key)
  BY Zenon DEF StoreInv, StoreTypeOK, SaveState
<1>4. s.kind \in Kind /\ s.key \in Key
  BY <1>1, Zenon DEF StoreInv, Underway
<1>5. /\ new \in Seq(Key) /\ Len(new) <= Len(s.copy)
      /\ Range(new) \subseteq Range(s.copy)
  BY <1>2, <1>3, CutOutRange, SMTT(30)
<1>6. t \in SaveState /\ t.pc = "ok" /\ t.kind = s.kind /\ t.key = s.key
  BY <1>3, Zenon DEF SaveState
<1>7. \A e \in Range(new) : record[s.kind][e] # None
  BY <1>1, <1>5, Zenon DEF StoreInv, Underway
<1>8. Len(s.copy) <= IndexLimit
  BY <1>1, Zenon DEF StoreInv, Underway
<1>9. Range(index[s.kind]) \subseteq Key
  BY <1>4, SMTT(30) DEF Range, StoreInv, StoreTypeOK
<1> HIDE DEF s, t
<1>10. StoreTypeOK'
  BY <1>1, <1>2, <1>4, <1>5, <1>6, <1>9, Zenon DEF StoreInv, StoreTypeOK
<1>11. ASSUME NEW h \in Goroutine PROVE Underway(h)'
  <2>1. CASE h = g
    BY <2>1, <1>1, <1>4, <1>6, Zenon DEF StoreInv, StoreTypeOK, Underway
  <2>2. CASE h # g
    BY <2>2, <1>1, Zenon DEF StoreInv, StoreTypeOK, Underway
  <2> QED BY <2>1, <2>2, Zenon
<1>12. IndexedHasRecord'
  BY <1>1, <1>2, <1>4, <1>7, Zenon DEF StoreInv, StoreTypeOK, IndexedHasRecord
<1>13. IndexIsReadable'
  <2>1. Len(new) <= IndexLimit
    BY <1>3, <1>5, <1>8, StateStoreAssumption, SMTT(30) DEF s
  <2> QED BY <2>1, <1>2, <1>4, Zenon DEF StoreInv, StoreTypeOK, IndexIsReadable
<1>14. SavedIsIndexed'
  <2> SUFFICES ASSUME NEW k \in Kind, NEW key \in Key, record[k][key] # None
               PROVE  \/ key \in Range(index'[k]) \cup lost'[k]
                      \/ \E h \in Goroutine : key \in Indexing(h, k)'
    BY <1>1, Zenon DEF SavedIsIndexed
  <2>1. Range(index[k]) \cup lost[k] \subseteq Range(index'[k]) \cup lost'[k]
    BY <1>2, <1>4, Zenon DEF StoreInv, StoreTypeOK
  <2>2. Indexing(g, k) = {}
    BY <1>1, Zenon DEF Indexing, s
  <2>3. \A h \in Goroutine \ {g} : Indexing(h, k)' = Indexing(h, k)
    BY <1>1, Zenon DEF Indexing, StoreInv, StoreTypeOK
  <2> QED BY <2>1, <2>2, <2>3, Zenon DEF StoreInv, SavedIsIndexed
<1> QED BY <1>10, <1>11, <1>12, <1>13, <1>14, Zenon DEF StoreInv

(* A Save or Remove ends with an error, and its key counts as lost.        *)
LEMMA BreakOffInv ==
    ASSUME StoreInv, NEW g \in Goroutine, save[g].pc # "idle",
           save' = [save EXCEPT ![g].pc = "err"],
           lost' = [k \in Kind |-> lost[k] \cup Indexing(g, k)],
           UNCHANGED <<record, index>>, faults' \in 0..MaxFaults
    PROVE  StoreInv'
<1> DEFINE s == save[g]
           t == [s EXCEPT !.pc = "err"]
<1>1. s \in SaveState
  BY Zenon DEF StoreInv, StoreTypeOK
<1>2. t \in SaveState /\ t.pc = "err" /\ t.kind = s.kind /\ t.key = s.key
  BY <1>1, Zenon DEF SaveState
<1>3. save' = [save EXCEPT ![g] = t]
  BY Zenon
<1>4. s.kind \in Kind /\ s.key \in Key
  BY Zenon DEF StoreInv, Underway
<1>5. \A k \in Kind : Indexing(g, k) \subseteq Key
  BY <1>4, Zenon DEF Indexing
<1> HIDE DEF t
<1>6. Underway(g)'
  BY <1>2, <1>3, <1>4, Zenon DEF Underway, StoreInv, StoreTypeOK
<1>7. lost' \in [Kind -> SUBSET Key]
  BY <1>5, Zenon DEF StoreInv, StoreTypeOK
<1> QED BY <1>2, <1>3, <1>6, <1>7, PlaceInv, Zenon

(* The caller has its answer. *)
LEMMA SaveReturnsInv ==
    ASSUME StoreInv, NEW g \in Goroutine, SaveReturns(g)
    PROVE  StoreInv'
<1>1. Idle \in SaveState /\ Idle.pc = "idle"
  BY SMTT(30) DEF Idle, SaveState
<1>2. Underway(g)'
  BY <1>1, Zenon DEF SaveReturns, Underway, StoreInv, StoreTypeOK
<1>3. \A k \in Kind : Indexing(g, k) = {}
  BY Zenon DEF Indexing, SaveReturns
<1> QED BY <1>1, <1>2, <1>3, PlaceInv, Zenon DEF SaveReturns, StoreInv, StoreTypeOK

(* The process stops: the records whose index was not written yet stay     *)
(* without.                                                                *)
LEMMA StoreCrashInv ==
    ASSUME StoreInv, StoreCrash
    PROVE  StoreInv'
<1> DEFINE cut(k) == UNION {Indexing(g, k) : g \in Goroutine}
<1>1. Idle \in SaveState /\ Idle.pc = "idle"
  BY SMTT(30) DEF Idle, SaveState
<1>2. \A k \in Kind : cut(k) \subseteq Key
  <2>1. \A k \in Kind, g \in Goroutine : Indexing(g, k) \subseteq Key
    BY Zenon DEF Indexing, StoreInv, Underway
  <2> QED BY <2>1, Zenon
<1>3. \A k \in Kind : lost'[k] = lost[k] \cup cut(k)
  BY Zenon DEF StoreCrash
<1>4. StoreTypeOK'
  <2>1. faults' \in 0..MaxFaults
    BY StateStoreAssumption, SMTT(30) DEF StoreCrash, Fault, StoreInv, StoreTypeOK
  <2>2. lost' \in [Kind -> SUBSET Key]
    BY <1>2, Zenon DEF StoreCrash, StoreInv, StoreTypeOK
  <2> QED BY <1>1, <2>1, <2>2, Zenon DEF StoreCrash, StoreInv, StoreTypeOK
<1>5. \A g \in Goroutine : Underway(g)'
  BY <1>1, Zenon DEF StoreCrash, Underway
<1>6. IndexedHasRecord' /\ IndexIsReadable'
  BY Zenon DEF StoreCrash, StoreInv, IndexedHasRecord, IndexIsReadable
<1>7. SavedIsIndexed'
  BY <1>3, Zenon DEF StoreCrash, StoreInv, SavedIsIndexed
<1> QED BY <1>4, <1>5, <1>6, <1>7, Zenon DEF StoreInv

-----------------------------------------------------------------------------
(* Every step keeps the invariant.                                         *)
LEMMA StoreNextInv == StoreInv /\ [StoreNext]_storeVars => StoreInv'
<1> SUFFICES ASSUME StoreInv, [StoreNext]_storeVars PROVE StoreInv'
  BY Zenon
<1>1. ASSUME NEW g \in Goroutine, StoreCall(g) PROVE StoreInv'
  <2>1. PICK key \in Key :
            \/ \E v \in Val, k \in Kind : SaveBegin(g, k, key, v)
            \/ RemoveBegin(g, key)
    BY <1>1, Zenon DEF StoreCall, SaveShardExpire, SaveOrder, SaveMigrate, SaveShard, Kind
  <2> QED BY <2>1, SaveBeginInv, RemoveBeginInv, Zenon
<1>2. ASSUME NEW g \in Goroutine, StoreStep(g) PROVE StoreInv'
  <2>1. CASE SavePut(g)
    BY <2>1, SavePutInv, Zenon
  <2>2. CASE IndexPut(g)
    BY <2>2, IndexPutInv, Zenon
  <2>3. CASE IndexFull(g)
    <3>1. faults' \in 0..MaxFaults
      BY <2>3, Zenon DEF IndexFull, StoreInv, StoreTypeOK
    <3> QED BY <2>3, <3>1, BreakOffInv, Zenon DEF IndexFull
  <2>4. CASE RemoveShardExpireIndex(g)
    BY <2>4, RemoveInv, Zenon
  <2>5. CASE \E k \in Kind : IndexGet(g, k)
    BY <2>5, IndexGetInv, Zenon
  <2> QED
    BY <1>2, <2>1, <2>2, <2>3, <2>4, <2>5, Zenon
    DEF StoreStep, AddShardExpireIndex, UpdateOrderIndex, UpdateMigrateIndex,
        UpdateShardIndex, Kind
<1>3. ASSUME NEW g \in Goroutine, SaveFails(g) PROVE StoreInv'
  <2>1. faults' \in 0..MaxFaults
    BY <1>3, StateStoreAssumption, SMTT(30) DEF SaveFails, Fault, StoreInv, StoreTypeOK
  <2> QED BY <1>3, <2>1, BreakOffInv, Zenon DEF SaveFails
<1>4. CASE UNCHANGED storeVars
  <2>1. StoreTypeOK'
    BY <1>4, Zenon DEF storeVars, StoreInv, StoreTypeOK
  <2>2. ASSUME NEW g \in Goroutine PROVE Underway(g)'
    <3>1. save' = save /\ record' = record
      BY <1>4, Zenon DEF storeVars
    <3>2. Underway(g)
      BY Zenon DEF StoreInv
    <3> QED BY <3>1, <3>2, Zenon DEF Underway
  <2>3. IndexedHasRecord' /\ IndexIsReadable'
    BY <1>4, Zenon DEF storeVars, StoreInv, IndexedHasRecord, IndexIsReadable
  <2>4. SavedIsIndexed'
    <3>1. \A g \in Goroutine, k \in Kind : Indexing(g, k)' = Indexing(g, k)
      BY <1>4, Zenon DEF storeVars, Indexing
    <3> QED BY <1>4, <3>1, Zenon DEF storeVars, StoreInv, SavedIsIndexed
  <2> QED BY <2>1, <2>2, <2>3, <2>4, Zenon DEF StoreInv
<1> QED BY <1>1, <1>2, <1>3, <1>4, SaveReturnsInv, StoreCrashInv, Zenon DEF StoreNext

(* The invariant holds in every reachable state.                           *)
LEMMA StoreInvariance == StoreSpec => []StoreInv
<1> QED BY StoreInitInv, StoreNextInv, PTL DEF StoreSpec

(* However saves, removals, failures and crashes interleave, every key of  *)
(* an index of state_utils.go has its record.                              *)
THEOREM IndexedAlwaysHasRecord == StoreSpec => []IndexedHasRecord
<1>1. StoreInv => IndexedHasRecord
  BY Zenon DEF StoreInv
<1> QED BY <1>1, StoreInvariance, PTL

(* An index never grows beyond what UnmarshalCBOR reads.                   *)
THEOREM IndexAlwaysReadable == StoreSpec => []IndexIsReadable
<1>1. StoreInv => IndexIsReadable
  BY Zenon DEF StoreInv
<1> QED BY <1>1, StoreInvariance, PTL

(* A record outside the index is being indexed, was overwritten by a stale *)
(* index, was removed, or had its first Save broken off.                   *)
THEOREM SavedAlwaysIndexed == StoreSpec => []SavedIsIndexed
<1>1. StoreInv => SavedIsIndexed
  BY Zenon DEF StoreInv
<1> QED BY <1>1, StoreInvariance, PTL

-----------------------------------------------------------------------------
(* Shards that move.                                                       *)

(* The inductive invariant of the moves of shards. *)
MovedInv ==
    /\ DOMAIN shard = Order /\ DOMAIN handler = Order
    /\ \A o \in Order : handler[o] = "complete" => o \in content
    /\ MigratedIsStored

(* No shard has been moved at the start.                                   *)
LEMMA InitMovedInv == Init => MovedInv
  BY Zenon DEF Init, MovedInv, MigratedIsStored

(* A step outside the new provider moves no shard to "completed" and has   *)
(* no handler at "complete" that was not there.                            *)
LEMMA KeepMovedInv ==
    ASSUME MovedInv, UNCHANGED content,
           DOMAIN shard' = Order, DOMAIN handler' = Order,
           \A o \in Order : shard'[o] = "completed" => shard[o] = "completed",
           \A o \in Order : handler'[o] = "complete" => handler[o] = "complete"
    PROVE  MovedInv'
  BY Zenon DEF MovedInv, MigratedIsStored

(* HandleShardMigrate checks, stores, and only then completes.             *)
LEMMA HandlerMovedInv ==
    ASSUME MovedInv, NEW o \in Order, HandlerStep(o) PROVE MovedInv'
<1>1. CASE CheckRequest(o)
  BY <1>1, KeepMovedInv, Zenon DEF CheckRequest, MovedInv
<1>2. CASE StoreContent(o)
  BY <1>2, Zenon DEF StoreContent, MovedInv, MigratedIsStored
<1>3. CASE CompleteOrder(o)
  <2>1. handler[o] = "complete" /\ UNCHANGED content
    BY <1>3, Zenon DEF CompleteOrder, At
  <2>2. shard' = [shard EXCEPT ![o] = "completed"]
    BY <1>3, Zenon DEF CompleteOrder
  <2>3. PICK pc \in {"done", "failed"} : handler' = [handler EXCEPT ![o] = pc]
    BY <1>3, Zenon DEF CompleteOrder
  <2> QED BY <2>1, <2>2, <2>3, Zenon DEF MovedInv, MigratedIsStored
<1>4. CASE HandlerFails(o)
  BY <1>4, KeepMovedInv, Zenon DEF HandlerFails, MovedInv
<1> QED BY <1>1, <1>2, <1>3, <1>4, Zenon DEF HandlerStep

(* Every step keeps the invariant.                                         *)
LEMMA NextMovedInv == MovedInv /\ [Next]_vars => MovedInv'
<1> SUFFICES ASSUME MovedInv, [Next]_vars PROVE MovedInv'
  BY Zenon
<1>1. CASE UNCHANGED <<shard, handler, content>>
  BY <1>1, Zenon DEF MovedInv, MigratedIsStored
<1>2. ASSUME NEW r \in Rpc, NEW ds, SendMigrateTx(r, ds) PROVE MovedInv'
  BY <1>2, KeepMovedInv, Zenon DEF SendMigrateTx, MovedInv
<1>3. ASSUME NEW r \in Rpc, RpcStep(r) PROVE MovedInv'
  BY <1>1, <1>3, Zenon
  DEF RpcStep, NextData, JobSaved, GetMeta, SkipOrder, NextOrder, OrderSaved,
      SendRequest, DataDone, MigrateReturns, notRpc, migrateVars
<1>4. CASE LoopStep
  <2>1. CASE RequestShardMigrate
    BY <2>1, KeepMovedInv, Zenon DEF RequestShardMigrate, notLoop, MovedInv
  <2>2. CASE ~RequestShardMigrate
    BY <1>1, <1>4, <2>2, Zenon
    DEF LoopStep, Fetch, Response, CompleteMigrate, MigrateSaved, ProcessFails,
        notLoop, migrateVars
  <2> QED BY <2>1, <2>2, Zenon
<1>5. ASSUME NEW r \in Rpc, MigrateTxFails(r) \/ MigratePanics(r) PROVE MovedInv'
  BY <1>1, <1>5, Zenon DEF MigrateTxFails, MigratePanics, notRpc
<1>6. CASE StopLoop \/ Crash \/ UNCHANGED migrateVars
  BY <1>1, <1>6, Zenon DEF StopLoop, Crash, notLoop, migrateVars
<1> QED
  BY <1>2, <1>3, <1>4, <1>5, <1>6, HandlerMovedInv, Zenon DEF Next, vars, migrateVars

(* A shard the chain counts as moved is stored by its new provider.        *)
THEOREM MigratedAlwaysStored == Spec => []MigratedIsStored
<1>1. MovedInv => MigratedIsStored
  BY Zenon DEF MovedInv
<1> QED BY <1>1, InitMovedInv, NextMovedInv, PTL DEF Spec

-----------------------------------------------------------------------------
(* Where the calls and the loop are; the store is not mentioned. *)
CallInv ==
    /\ MigrateTypeOK
    /\ \A r \in Rpc :
          /\ rpc[r].pc \in {"savejob", "meta", "order", "saveorder", "send"} =>
                rpc[r].data \in DataId
          /\ rpc[r].pc \in {"saveorder", "send"} => rpc[r].orders # <<>>
    /\ loop.pc \in {"fetch", "request", "wait", "check"} => loop.order \in Order

(* Every order belongs to a data id, and a data id has a list of orders.   *)
LEMMA DataOfOrder ==
    ASSUME orders \in Layout
    PROVE  /\ \A o \in Order : DataOf(o) \in DataId /\ o \in Range(orders[DataOf(o)])
           /\ \A d \in DataId : orders[d] \in Seq(Order)
<1>1. ASSUME NEW o \in Order
      PROVE  DataOf(o) \in DataId /\ o \in Range(orders[DataOf(o)])
  <2>1. \E d \in DataId : o \in Range(orders[d])
    BY MigrateAssumption, SMTT(30)
  <2> QED BY <2>1, Zenon DEF DataOf
<1>2. orders \in [DataId -> Seq(Order)]
  BY MigrateAssumption, SMTT(30)
<1> QED BY <1>1, <1>2, Zenon

(* No call has been made at the start.                                     *)
LEMMA InitCallInv == Init => CallInv
  BY SMTT(30) DEF Init, CallInv, MigrateTypeOK, CallState, LoopState, NoCall, Receiving

(* A call of Migrate that moves on keeps what is known of the others.      *)
LEMMA MoveCall ==
    ASSUME CallInv, NEW r \in Rpc, NEW c \in CallState,
           c.pc \in {"savejob", "meta", "order", "saveorder", "send"} =>
               c.data \in DataId,
           c.pc \in {"saveorder", "send"} => c.orders # <<>>,
           rpc' = [rpc EXCEPT ![r] = c],
           shard' \in [Order -> {"held", "migrating", "completed"}],
           loop' = loop \/ (loop' \in LoopState /\ loop'.order \in Order),
           UNCHANGED <<orders, handler, content>>
    PROVE  CallInv'
  BY Zenon DEF CallInv, MigrateTypeOK

(* The loop moves on.                                                      *)
LEMMA MoveLoop ==
    ASSUME CallInv, UNCHANGED <<orders, shard, rpc, content>>,
           loop' \in LoopState,
           loop'.pc \in {"fetch", "request", "wait", "check"} => loop'.order \in Order,
           handler' \in [Order -> {"none", "check", "store", "complete", "done",
                                  "failed"}]
    PROVE  CallInv'
  BY Zenon DEF CallInv, MigrateTypeOK

(* The steps of a call of Migrate.                                         *)
LEMMA RpcCallInv ==
    ASSUME CallInv, NEW r \in Rpc,
           \/ \E ds \in SUBSET DataId : SendMigrateTx(r, ds)
           \/ MigrateTxFails(r) \/ MigratePanics(r) \/ RpcStep(r)
    PROVE  CallInv'
<1> DEFINE c == rpc[r]
<1>1. c \in CallState /\ orders \in Layout
  BY Zenon DEF CallInv, MigrateTypeOK
<1>2. ASSUME NEW ds, SendMigrateTx(r, ds) PROVE CallInv'
  <2> DEFINE moved == {o \in Order : shard[o] = "held" /\ DataOf(o) \in ds}
             todo == {DataOf(o) : o \in moved}
             n == [NoCall EXCEPT !.pc = "next", !.todo = todo]
  <2>1. todo \subseteq DataId
    BY <1>1, DataOfOrder, Zenon
  <2>2. /\ rpc' = [rpc EXCEPT ![r] = n]
        /\ shard' = [o \in Order |-> IF o \in moved THEN "migrating" ELSE shard[o]]
        /\ UNCHANGED <<orders, loop, handler, content>>
    BY <1>2, Zenon DEF SendMigrateTx
  <2> HIDE DEF todo, moved
  <2>3. NoCall \in CallState
    BY SMTT(30) DEF NoCall, CallState
  <2>4. n \in CallState /\ n.pc = "next"
    BY <2>1, <2>3, Zenon DEF CallState
  <2> HIDE DEF n
  <2>5. shard' \in [Order -> {"held", "migrating", "completed"}]
    BY <2>2, Zenon DEF CallInv, MigrateTypeOK
  <2>6. loop' = loop /\ UNCHANGED <<orders, handler, content>>
    BY <2>2, Zenon
  <2>7. rpc' = [rpc EXCEPT ![r] = n]
    BY <2>2, Zenon
  <2> QED BY <2>4, <2>5, <2>6, <2>7, MoveCall, Zenon
<1>3. CASE MigrateTxFails(r) \/ MigrateReturns(r)
  <2> DEFINE n == [c EXCEPT !.pc = "returned"]
  <2>1. n \in CallState /\ n.pc = "returned"
    BY <1>1, Zenon DEF CallState
  <2>2. rpc' = [rpc EXCEPT ![r] = n]
    BY <1>3, Zenon DEF MigrateTxFails, MigrateReturns
  <2> QED
    BY <1>3, <2>1, <2>2, MoveCall, Zenon
    DEF MigrateTxFails, MigrateReturns, notRpc, CallInv, MigrateTypeOK
<1>4. CASE MigratePanics(r)
  <2> DEFINE n == [c EXCEPT !.pc = "panic"]
  <2>1. n \in CallState /\ n.pc = "panic"
    BY <1>1, Zenon DEF CallState
  <2>2. rpc' = [rpc EXCEPT ![r] = n]
    BY <1>4, Zenon DEF MigratePanics
  <2> QED BY <1>4, <2>1, <2>2, MoveCall, Zenon DEF MigratePanics, notRpc, CallInv, MigrateTypeOK
<1>5. ASSUME NEW d \in DataId, NextData(r, d) PROVE CallInv'
  <2> DEFINE n == [c EXCEPT !.pc = "savejob", !.data = d, !.todo = @ \ {d}]
  <2>1. n \in CallState /\ n.pc = "savejob" /\ n.data = d
    BY <1>1, Zenon DEF CallState
  <2>2. rpc' = [rpc EXCEPT ![r] = n]
    BY <1>5, Zenon DEF NextData
  <2> HIDE DEF n
  <2> QED BY <1>5, <2>1, <2>2, MoveCall, Zenon DEF NextData, notRpc, CallInv, MigrateTypeOK
<1>6. CASE JobSaved(r) \/ NextOrder(r) \/ OrderSaved(r) \/ DataDone(r)
  <2> DEFINE n(pc) == [c EXCEPT !.pc = pc]
  <2>1. \A pc \in {"meta", "saveorder", "send", "next"} :
            /\ n(pc) \in CallState /\ n(pc).pc = pc
            /\ n(pc).data = c.data /\ n(pc).orders = c.orders
    BY <1>1, Zenon DEF CallState
  <2>2. UNCHANGED <<orders, shard, loop, handler, content>>
    BY <1>6, Zenon DEF JobSaved, NextOrder, OrderSaved, DataDone, notRpc
  <2>3. PICK pc \in {"meta", "saveorder", "send", "next"} :
            /\ rpc' = [rpc EXCEPT ![r] = n(pc)]
            /\ pc # "next" => c.pc \in {"savejob", "order", "saveorder"}
            /\ pc \in {"saveorder", "send"} => c.pc = "saveorder" \/ c.orders # <<>>
    BY <1>6, Zenon DEF JobSaved, NextOrder, OrderSaved, DataDone
  <2>4. pc # "next" => c.data \in DataId
    BY <2>3, Zenon DEF CallInv
  <2>5. pc \in {"saveorder", "send"} => c.orders # <<>>
    BY <2>3, Zenon DEF CallInv
  <2> HIDE DEF n
  <2> QED BY <2>1, <2>2, <2>3, <2>4, <2>5, MoveCall, Zenon DEF CallInv, MigrateTypeOK
<1>7. CASE GetMeta(r)
  <2> DEFINE n == [c EXCEPT !.pc = "order", !.orders = orders[c.data]]
  <2>1. c.data \in DataId
    BY <1>7, Zenon DEF GetMeta, CallInv
  <2>2. orders[c.data] \in Seq(Order)
    BY <1>1, <2>1, DataOfOrder, Zenon
  <2>3. n \in CallState /\ n.pc = "order" /\ n.data = c.data
    BY <1>1, <2>2, Zenon DEF CallState
  <2>4. rpc' = [rpc EXCEPT ![r] = n]
    BY <1>7, Zenon DEF GetMeta
  <2>5. UNCHANGED <<orders, shard, loop, handler, content>>
    BY <1>7, Zenon DEF GetMeta, notRpc
  <2>6. n.pc # "saveorder" /\ n.pc # "send"
    BY <2>3, Zenon
  <2> HIDE DEF n
  <2> QED BY <2>1, <2>3, <2>4, <2>5, <2>6, MoveCall, Zenon DEF CallInv, MigrateTypeOK
<1>8. CASE SkipOrder(r) \/ SendRequest(r)
  <2> DEFINE n == [c EXCEPT !.pc = "order", !.orders = Tail(@)]
  <2>1. c.orders # <<>> /\ c.data \in DataId
    BY <1>8, Zenon DEF SkipOrder, SendRequest, CallInv
  <2>2. c.orders \in Seq(Order)
    BY <1>1, Zenon DEF CallState
  <2>3. Tail(c.orders) \in Seq(Order) /\ Head(c.orders) \in Order
    BY <2>1, <2>2, SMTT(30)
  <2>4. n \in CallState /\ n.pc = "order" /\ n.data = c.data
    BY <1>1, <2>3, Zenon DEF CallState
  <2>5. rpc' = [rpc EXCEPT ![r] = n]
    <3>1. CASE SendRequest(r)
      BY <3>1, Zenon DEF SendRequest
    <3>2. CASE SkipOrder(r)
      <4>1. c.pc = "order" /\ rpc' = [rpc EXCEPT ![r] = [c EXCEPT !.orders = Tail(@)]]
        BY <3>2, Zenon DEF SkipOrder
      <4>2. [c EXCEPT !.orders = Tail(@)] = n
        BY <4>1, <1>1, Zenon DEF CallState
      <4> QED BY <4>1, <4>2, Zenon
    <3> QED BY <1>8, <3>1, <3>2, Zenon
  <2>6. loop' = loop \/ loop' = [pc |-> "fetch", order |-> Head(c.orders)]
    BY <1>8, Zenon DEF SkipOrder, SendRequest, notRpc
  <2>7. UNCHANGED <<orders, shard, handler, content>>
    BY <1>8, Zenon DEF SkipOrder, SendRequest, notRpc
  <2>8. loop' = loop \/ (loop' \in LoopState /\ loop'.order \in Order)
    <3> DEFINE o == Head(c.orders)
    <3>1. o \in Order /\ (loop' = loop \/ loop' = [pc |-> "fetch", order |-> o])
      BY <2>3, <2>6, Zenon
    <3> HIDE DEF o
    <3>2. [pc |-> "fetch", order |-> o] \in LoopState
      BY <3>1, Zenon DEF LoopState
    <3> QED BY <3>1, <3>2, SMTT(30)
  <2> HIDE DEF n
  <2> QED BY <2>1, <2>4, <2>5, <2>7, <2>8, MoveCall, Zenon DEF CallInv, MigrateTypeOK
<1>9. CASE UNCHANGED migrateVars
  BY <1>9, Zenon DEF migrateVars, CallInv, MigrateTypeOK
<1> QED BY <1>2, <1>3, <1>4, <1>5, <1>6, <1>7, <1>8, <1>9, Zenon DEF RpcStep

(* The steps of processMigrate and of the new provider, and a crash.       *)
LEMMA OtherCallInv ==
    ASSUME CallInv,
           \/ LoopStep \/ StopLoop \/ Crash \/ UNCHANGED migrateVars
           \/ \E o \in Order : HandlerStep(o)
    PROVE  CallInv'
<1>1. loop \in LoopState
  BY Zenon DEF CallInv, MigrateTypeOK
<1>2. CASE Fetch \/ RequestShardMigrate \/ Response \/ CompleteMigrate \/ StopLoop
  <2>1. PICK pc \in {"request", "wait", "check", "save", "stopped"} :
            /\ loop' = [loop EXCEPT !.pc = pc]
            /\ pc \in {"request", "wait", "check"} =>
                  loop.pc \in {"fetch", "request", "wait"}
    BY <1>2, Zenon DEF Fetch, RequestShardMigrate, Response, CompleteMigrate, StopLoop
  <2>2. loop' \in LoopState /\ loop'.pc = pc /\ loop'.order = loop.order
    BY <1>1, <2>1, Zenon DEF LoopState
  <2>3. pc \in {"request", "wait", "check"} => loop.order \in Order
    BY <2>1, Zenon DEF CallInv
  <2>4. UNCHANGED notLoop
    BY <1>2, Zenon DEF Fetch, RequestShardMigrate, Response, CompleteMigrate, StopLoop
  <2>5. handler' = handler \/ handler' = [handler EXCEPT ![loop.order] = "check"]
    BY <1>2, Zenon DEF Fetch, RequestShardMigrate, Response, CompleteMigrate, StopLoop
  <2>6. handler' \in [Order -> {"none", "check", "store", "complete", "done",
                               "failed"}]
    BY <2>5, Zenon DEF CallInv, MigrateTypeOK
  <2> QED BY <2>1, <2>2, <2>3, <2>4, <2>6, MoveLoop, Zenon DEF notLoop
<1>3. CASE MigrateSaved \/ ProcessFails
  <2>1. loop' \in LoopState /\ loop'.pc = "recv"
    BY <1>3, SMTT(30) DEF MigrateSaved, ProcessFails, Receiving, LoopState
  <2> QED
    BY <1>3, <2>1, MoveLoop, Zenon
    DEF MigrateSaved, ProcessFails, notLoop, CallInv, MigrateTypeOK
<1>4. CASE Crash
  <2>1. NoCall \in CallState /\ NoCall.pc = "none"
    BY SMTT(30) DEF NoCall, CallState
  <2>2. Receiving \in LoopState /\ Receiving.pc = "recv"
    BY Zenon DEF Receiving, LoopState
  <2>3. (\A r \in Rpc : rpc'[r] = NoCall) /\ rpc' \in [Rpc -> CallState]
    BY <1>4, <2>1, Zenon DEF Crash
  <2>4. loop' = Receiving /\ UNCHANGED <<orders, shard, handler, content>>
    BY <1>4, Zenon DEF Crash
  <2>5. MigrateTypeOK'
    BY <2>2, <2>3, <2>4, Zenon DEF CallInv, MigrateTypeOK
  <2> QED BY <2>1, <2>2, <2>3, <2>4, <2>5, Zenon DEF CallInv
<1>5. ASSUME NEW o \in Order, HandlerStep(o) PROVE CallInv'
  <2>1. UNCHANGED <<orders, rpc, loop>>
    BY <1>5, Zenon DEF HandlerStep, CheckRequest, StoreContent, CompleteOrder, HandlerFails, At
  <2>2. \E pc \in {"store", "complete", "done", "failed"} : handler' = [handler EXCEPT ![o] = pc]
    BY <1>5, Zenon DEF HandlerStep, CheckRequest, StoreContent, CompleteOrder, HandlerFails
  <2>3. /\ shard' = shard \/ shard' = [shard EXCEPT ![o] = "completed"]
        /\ content' = content \/ content' = content \cup {o}
    BY <1>5, Zenon DEF HandlerStep, CheckRequest, StoreContent, CompleteOrder, HandlerFails
  <2>4. handler' \in [Order -> {"none", "check", "store", "complete", "done", "failed"}]
    BY <2>2, Zenon DEF CallInv, MigrateTypeOK
  <2>5. shard' \in [Order -> {"held", "migrating", "completed"}] /\ content' \subseteq Order
    BY <2>3, Zenon DEF CallInv, MigrateTypeOK
  <2> QED BY <2>1, <2>4, <2>5, Zenon DEF CallInv, MigrateTypeOK
<1>6. CASE UNCHANGED migrateVars
  BY <1>6, Zenon DEF migrateVars, CallInv, MigrateTypeOK
<1> QED BY <1>2, <1>3, <1>4, <1>5, <1>6, Zenon DEF LoopStep

(* Every step keeps it.                                                    *)
LEMMA NextCallInv == CallInv /\ [Next]_vars => CallInv'
<1> SUFFICES ASSUME CallInv, [Next]_vars PROVE CallInv'
  BY Zenon
<1>1. CASE UNCHANGED vars
  BY <1>1, OtherCallInv, Zenon DEF vars
<1>2. CASE Next
  BY <1>2, RpcCallInv, OtherCallInv, Zenon DEF Next
<1> QED BY <1>1, <1>2, Zenon

-----------------------------------------------------------------------------
(* The MigrateInfo records that are ever saved. *)
MigrateInfo == {[state |-> st, order |-> o] :
                   st \in {"txsent", "complete"}, o \in Order \cup {None}}

Moved(d) == \E o \in Range(orders[d]) : shard[o] = "completed"

(* Records are MigrateInfo, those about to be written too, and Complete is *)
(* true of both.                                                           *)
RecordInv ==
    /\ \A d \in Key : record["migrate"][d] \in MigrateInfo \cup {None}
    /\ \A g \in Goroutine :
          save[g].pc = "put" =>
              /\ save[g].kind = "migrate" /\ save[g].val \in MigrateInfo
              /\ (save[g].key \in DataId /\ save[g].val.state = "complete")
                    => Moved(save[g].key)
    /\ CompleteIsMigrated

(* What a step of Migrate may do to the store. *)
StoreAction ==
    \/ UNCHANGED storeVars
    \/ \E g \in Goroutine : StoreStep(g) \/ SaveFails(g) \/ SaveReturns(g)
    \/ \E g \in Goroutine, key \in Key, v \in MigrateInfo :
           /\ SaveMigrate(g, key, v)
           /\ (key \in DataId /\ v.state = "complete") => Moved(key)
    \/ StoreCrash

(* A MigrateInfo may be saved, and stays one when it is completed.         *)
LEMMA InfoFacts ==
    /\ MigrateInfo \subseteq Val /\ None \notin MigrateInfo
    /\ \A o \in Order \cup {None} :
          /\ Info("txsent", o) \in MigrateInfo /\ Info("txsent", o).state = "txsent"
          /\ [Info("", o) EXCEPT !.state = "complete"] \in MigrateInfo
    /\ \A v \in MigrateInfo : [v EXCEPT !.state = "complete"] \in MigrateInfo
<1>1. MigrateInfo \subseteq Val
  BY MigrateAssumption, SMTT(30) DEF MigrateInfo
<1>2. None \notin MigrateInfo
  BY <1>1, StateStoreAssumption, Zenon
<1>3. ASSUME NEW o \in Order \cup {None}
      PROVE  /\ Info("txsent", o) \in MigrateInfo /\ Info("txsent", o).state = "txsent"
             /\ [Info("", o) EXCEPT !.state = "complete"] \in MigrateInfo
  <2>1. ASSUME NEW st
        PROVE  [Info(st, o) EXCEPT !.state = "complete"]
                   = [state |-> "complete", order |-> o]
    <3>1. Info(st, o) = [state |-> st, order |-> o]
      BY Zenon DEF Info
    <3> QED BY <3>1, SMTT(30)
  <2>2. Info("txsent", o) = [state |-> "txsent", order |-> o]
    BY Zenon DEF Info
  <2>3. [Info("", o) EXCEPT !.state = "complete"] = [state |-> "complete", order |-> o]
    BY <2>1, Zenon
  <2>4. \A st \in {"txsent", "complete"} : [state |-> st, order |-> o] \in MigrateInfo
    BY SMTT(30) DEF MigrateInfo
  <2>5. Info("txsent", o) \in MigrateInfo
    BY <2>2, <2>4, Zenon
  <2>6. Info("txsent", o).state = "txsent"
    BY <2>2, SMTT(30)
  <2>7. [Info("", o) EXCEPT !.state = "complete"] \in MigrateInfo
    BY <2>3, <2>4, Zenon
  <2> QED BY <2>5, <2>6, <2>7, Zenon
<1>4. ASSUME NEW v \in MigrateInfo PROVE [v EXCEPT !.state = "complete"] \in MigrateInfo
  <2>1. PICK st \in {"txsent", "complete"}, o \in Order \cup {None} :
            v = [state |-> st, order |-> o]
    BY SMTT(30) DEF MigrateInfo
  <2>2. [v EXCEPT !.state = "complete"] = [state |-> "complete", order |-> o]
    BY <2>1, SMTT(30)
  <2> QED BY <2>2, SMTT(30) DEF MigrateInfo
<1> QED BY <1>1, <1>2, <1>3, <1>4, Zenon

(* No record is there at the start.                                        *)
LEMMA InitRecordInv == Init => RecordInv
  BY SMTT(30) DEF Init, StoreInit, Idle, Kind, RecordInv, CompleteIsMigrated, DataId

(* processMigrate completes a record only for data of which the chain has  *)
(* just been seen to have moved an order.                                  *)
LEMMA CompleteMigrateStores ==
    ASSUME CallInv, RecordInv, CompleteMigrate PROVE StoreAction
<1> DEFINE d == DataOf(loop.order)
           key == IF record["migrate"][d] = None THEN NoData ELSE d
           old == Get("migrate", d, Info("", None))
           v == [old EXCEPT !.state = "complete"]
<1>1. loop.order \in Order /\ shard[loop.order] = "completed"
  BY Zenon DEF CompleteMigrate, CheckMigrated, CallInv
<1>2. d \in DataId /\ loop.order \in Range(orders[d])
  BY <1>1, DataOfOrder, Zenon DEF CallInv, MigrateTypeOK
<1>3. Moved(d)
  BY <1>1, <1>2, Zenon DEF Moved
<1>4. d \in Key /\ key \in Key /\ (key \in DataId => key = d)
  BY <1>2, MigrateAssumption, SMTT(30) DEF DataId
<1>5. v \in MigrateInfo
  <2>1. CASE record["migrate"][d] = None
    BY <2>1, InfoFacts, Zenon DEF Get
  <2>2. CASE record["migrate"][d] # None
    BY <2>2, <1>4, InfoFacts, Zenon DEF Get, RecordInv
  <2> QED BY <2>1, <2>2, Zenon
<1>6. Loop \in Goroutine /\ SaveMigrate(Loop, key, v)
  BY MigrateAssumption, Zenon DEF CompleteMigrate
<1> HIDE DEF d, key, v
<1> QED BY <1>3, <1>4, <1>5, <1>6, Zenon DEF StoreAction

(* The steps of Migrate are steps of the store.                            *)
LEMMA MigrateStores ==
    ASSUME CallInv, RecordInv, [Next]_vars PROVE StoreAction
<1>1. CASE UNCHANGED storeVars
  BY <1>1, Zenon DEF StoreAction
<1>2. ASSUME NEW r \in Rpc,
             \/ \E ds \in SUBSET DataId : SendMigrateTx(r, ds)
             \/ MigrateTxFails(r) \/ MigratePanics(r) \/ RpcStep(r)
      PROVE  StoreAction
  <2>1. r \in Goroutine
    BY MigrateAssumption, Zenon
  <2>2. ASSUME NEW d \in DataId, NextData(r, d) PROVE StoreAction
    BY <2>1, <2>2, InfoFacts, Zenon DEF NextData, StoreAction, DataId
  <2>3. CASE NextOrder(r)
    <3> DEFINE o == Head(rpc[r].orders)
               d == rpc[r].data
    <3>1. d \in Key
      BY <2>3, Zenon DEF NextOrder, CallInv, DataId
    <3>2. rpc[r].orders \in Seq(Order) /\ rpc[r].orders # <<>>
      BY <2>3, Zenon DEF NextOrder, CallInv, MigrateTypeOK, CallState
    <3>3. o \in Order
      BY <3>2, SMTT(30)
    <3>4. SaveMigrate(r, d, Info("txsent", o))
      BY <2>3, Zenon DEF NextOrder
    <3> HIDE DEF o, d
    <3> QED BY <2>1, <3>1, <3>3, <3>4, InfoFacts, Zenon DEF StoreAction
  <2>4. CASE SaveReturns(r) \/ StoreStep(r)
    BY <2>1, <2>4, Zenon DEF StoreAction
  <2> QED
    BY <1>1, <1>2, <2>2, <2>3, <2>4, Zenon
    DEF RpcStep, SendMigrateTx, MigrateTxFails, MigratePanics, JobSaved, GetMeta,
        SkipOrder, OrderSaved, SendRequest, DataDone, MigrateReturns
<1>3. CASE LoopStep \/ StopLoop
  <2>1. Loop \in Goroutine
    BY MigrateAssumption, Zenon
  <2> QED
    BY <1>1, <1>3, <2>1, CompleteMigrateStores, Zenon
    DEF LoopStep, Fetch, RequestShardMigrate, Response, MigrateSaved, ProcessFails,
        StopLoop, StoreAction
<1>4. CASE \E g \in Goroutine : SaveFails(g)
  BY <1>4, Zenon DEF StoreAction
<1>5. ASSUME NEW o \in Order, HandlerStep(o) PROVE StoreAction
  BY <1>1, <1>5, Zenon
  DEF HandlerStep, CheckRequest, StoreContent, CompleteOrder, HandlerFails, At
<1>6. CASE Crash
  BY <1>6, Zenon DEF Crash, StoreAction
<1>7. CASE UNCHANGED vars
  BY <1>1, <1>7, Zenon DEF vars
<1> QED BY <1>2, <1>3, <1>4, <1>5, <1>6, <1>7, Zenon DEF Next

(* What StoreAction allows is a step of StateStore.                        *)
LEMMA StoreActionIsStep == StoreAction => [StoreNext]_storeVars
  BY InfoFacts, Zenon DEF StoreAction, StoreNext, StoreCall

(* Orders that were moved stay moved.                                      *)
LEMMA MovedStays ==
    ASSUME CallInv, [Next]_vars
    PROVE  UNCHANGED orders /\ \A d \in DataId : Moved(d) => Moved(d)'
<1>1. UNCHANGED orders
  <2>1. ASSUME NEW r \in Rpc, NEW ds, SendMigrateTx(r, ds) PROVE UNCHANGED orders
    BY <2>1, Zenon DEF SendMigrateTx
  <2>2. ASSUME NEW r \in Rpc, MigrateTxFails(r) \/ MigratePanics(r) PROVE UNCHANGED orders
    BY <2>2, Zenon DEF MigrateTxFails, MigratePanics, notRpc
  <2>3. ASSUME NEW r \in Rpc, RpcStep(r) PROVE UNCHANGED orders
    BY <2>3, Zenon DEF RpcStep, migrateVars, NextData, JobSaved, GetMeta, SkipOrder, NextOrder,
       OrderSaved, SendRequest, DataDone, MigrateReturns, notRpc
  <2>4. CASE LoopStep \/ StopLoop
    BY <2>4, Zenon DEF LoopStep, migrateVars, Fetch, RequestShardMigrate, Response,
       CompleteMigrate, MigrateSaved, ProcessFails, StopLoop, notLoop
  <2>5. ASSUME NEW o \in Order, HandlerStep(o) PROVE UNCHANGED orders
    BY <2>5, Zenon DEF HandlerStep, CheckRequest, StoreContent, CompleteOrder, HandlerFails, At
  <2>6. CASE Crash
    BY <2>6, Zenon DEF Crash
  <2>7. CASE UNCHANGED migrateVars
    BY <2>7, Zenon DEF migrateVars
  <2> QED BY <2>1, <2>2, <2>3, <2>4, <2>5, <2>6, <2>7, Zenon DEF Next, vars
<1>2. \A o \in Order : shard[o] = "completed" => shard'[o] = "completed"
  <2>1. \/ UNCHANGED shard
        \/ \E r \in Rpc, ds \in SUBSET DataId : SendMigrateTx(r, ds)
        \/ \E o \in Order : CompleteOrder(o)
    BY Zenon DEF Next, vars, migrateVars, MigrateTxFails, MigratePanics, RpcStep,
       NextData, JobSaved, GetMeta, SkipOrder, NextOrder, OrderSaved, SendRequest,
       DataDone, MigrateReturns, LoopStep, Fetch, RequestShardMigrate, Response,
       CompleteMigrate, MigrateSaved, ProcessFails, StopLoop, HandlerStep,
       CheckRequest, StoreContent, HandlerFails, Crash, notRpc, notLoop
  <2> QED BY <2>1, Zenon DEF SendMigrateTx, CompleteOrder, CallInv, MigrateTypeOK
<1>3. \A d \in DataId : Range(orders[d]) \subseteq Order
  <2>1. \A d \in DataId : orders[d] \in Seq(Order)
    BY DataOfOrder, Zenon DEF CallInv, MigrateTypeOK
  <2> QED BY <2>1, SMTT(30) DEF Range
<1> QED BY <1>1, <1>2, <1>3, Zenon DEF Moved

(* An access of the datastore, and the return, leave the other goroutines  *)
(* alone, and no Put is left to do for the one that moves.                 *)
LEMMA AccessMoves ==
    ASSUME save \in [Goroutine -> SaveState], NEW g \in Goroutine,
           StoreStep(g) \/ SaveFails(g) \/ SaveReturns(g)
    PROVE  (\A h \in Goroutine \ {g} : save'[h] = save[h]) /\ save'[g].pc # "put"
<1>1. ASSUME NEW p \in {"ok", "index", "err"}, save' = [save EXCEPT ![g].pc = p]
      PROVE  (\A h \in Goroutine \ {g} : save'[h] = save[h]) /\ save'[g].pc # "put"
  BY <1>1, Zenon DEF SaveState
<1>2. ASSUME NEW c, save' = [save EXCEPT ![g].pc = "append", ![g].copy = c]
      PROVE  (\A h \in Goroutine \ {g} : save'[h] = save[h]) /\ save'[g].pc # "put"
  BY <1>2, Zenon DEF SaveState
<1>3. CASE SavePut(g)
  <2>1. save' = [save EXCEPT ![g].pc = "ok"] \/ save' = [save EXCEPT ![g].pc = "index"]
    BY <1>3, Zenon DEF SavePut
  <2> QED BY <1>1, <2>1, Zenon
<1>4. CASE IndexPut(g) \/ IndexFull(g) \/ RemoveShardExpireIndex(g) \/ SaveFails(g)
  <2>1. save' = [save EXCEPT ![g].pc = "ok"] \/ save' = [save EXCEPT ![g].pc = "err"]
    BY <1>4, Zenon DEF IndexPut, PutIndex, IndexFull, RemoveShardExpireIndex, SaveFails
  <2> QED BY <1>1, <2>1, Zenon
<1>5. CASE SaveReturns(g)
  BY <1>5, Zenon DEF SaveReturns, Idle
<1>6. CASE \/ AddShardExpireIndex(g) \/ UpdateOrderIndex(g)
           \/ UpdateMigrateIndex(g) \/ UpdateShardIndex(g)
  BY <1>2, <1>6, Zenon DEF AddShardExpireIndex, UpdateOrderIndex, UpdateMigrateIndex,
     UpdateShardIndex, IndexGet
<1> QED BY <1>3, <1>4, <1>5, <1>6, Zenon DEF StoreStep

(* Every step keeps the records true.                                      *)
LEMMA NextRecordInv ==
    ASSUME StoreInv, CallInv, RecordInv, [Next]_vars PROVE RecordInv'
<1> USE DEF StoreInv, StoreTypeOK
<1>1. UNCHANGED orders /\ \A d \in DataId : Moved(d) => Moved(d)'
  BY MovedStays, Zenon
<1>2. "migrate" \in Kind /\ DataId \subseteq Key
  BY Zenon DEF Kind, DataId
<1>3. CompleteIsMigrated <=>
          \A d \in DataId :
              record["migrate"][d] # None /\ record["migrate"][d].state = "complete"
                  => Moved(d)
  BY Zenon DEF CompleteIsMigrated, Moved
<1>4. CompleteIsMigrated' <=>
          \A d \in DataId :
              record'["migrate"][d] # None /\ record'["migrate"][d].state = "complete"
                  => Moved(d)'
  BY Zenon DEF CompleteIsMigrated, Moved
<1>5. ASSUME UNCHANGED record,
             \A g \in Goroutine : save'[g].pc = "put" => save'[g] = save[g]
      PROVE  RecordInv'
  BY <1>1, <1>3, <1>4, <1>5, Zenon DEF RecordInv
<1>6. ASSUME NEW g \in Goroutine, SavePut(g) PROVE RecordInv'
  <2> DEFINE s == save[g]
  <2>1. s.kind = "migrate" /\ s.val \in MigrateInfo /\ s.key \in Key
    BY <1>6, Zenon DEF SavePut, RecordInv, Underway
  <2>2. \A d \in Key : record'["migrate"][d] =
                          IF d = s.key THEN s.val ELSE record["migrate"][d]
    BY <1>2, <1>6, <2>1, Zenon DEF SavePut
  <2>3. \A h \in Goroutine : save'[h].pc = "put" => save'[h] = save[h]
    BY <1>6, Zenon DEF SavePut, SaveState
  <2>4. s.pc = "put"
    BY <1>6, Zenon DEF SavePut
  <2>5. CompleteIsMigrated'
    BY <1>1, <1>2, <1>3, <1>4, <2>2, <2>4, Zenon DEF RecordInv
  <2> HIDE DEF s
  <2> QED BY <1>1, <2>1, <2>2, <2>3, <2>5, Zenon DEF RecordInv
<1>7. ASSUME NEW g \in Goroutine, NEW key \in Key, NEW v \in MigrateInfo,
             SaveMigrate(g, key, v),
             (key \in DataId /\ v.state = "complete") => Moved(key)
      PROVE  RecordInv'
  <2> DEFINE s == save'[g]
  <2>1. s.kind = "migrate" /\ s.key = key /\ s.val = v
    BY <1>7, Zenon DEF SaveMigrate, SaveBegin, Idle
  <2>2. UNCHANGED record /\ \A h \in Goroutine \ {g} : save'[h] = save[h]
    BY <1>7, Zenon DEF SaveMigrate, SaveBegin
  <2> HIDE DEF s
  <2> QED BY <1>1, <1>3, <1>4, <1>7, <2>1, <2>2, Zenon DEF RecordInv, s
<1>8. ASSUME NEW g \in Goroutine,
             (StoreStep(g) /\ ~ SavePut(g)) \/ SaveFails(g) \/ SaveReturns(g)
      PROVE  RecordInv'
  <2>1. UNCHANGED record
    BY <1>8, Zenon
    DEF StoreStep, IndexPut, PutIndex, IndexFull, RemoveShardExpireIndex,
        AddShardExpireIndex, UpdateOrderIndex, UpdateMigrateIndex,
        UpdateShardIndex, IndexGet, SaveFails, SaveReturns
  <2>2. (\A h \in Goroutine \ {g} : save'[h] = save[h]) /\ save'[g].pc # "put"
    BY <1>8, AccessMoves, Zenon
  <2> QED BY <1>5, <2>1, <2>2, Zenon
<1>9. CASE StoreCrash
  BY <1>5, <1>9, Zenon DEF StoreCrash, Idle
<1>10. CASE UNCHANGED storeVars
  BY <1>5, <1>10, Zenon DEF storeVars
<1> QED BY <1>6, <1>7, <1>8, <1>9, <1>10, MigrateStores, Zenon DEF StoreAction

-----------------------------------------------------------------------------
(* The three invariants together, in every reachable state.                *)
LEMMA MigrateInvariance == Spec => [](StoreInv /\ CallInv /\ RecordInv)
<1>1. Init => StoreInv /\ CallInv /\ RecordInv
  BY StoreInitInv, InitCallInv, InitRecordInv, Zenon DEF Init
<1>2. StoreInv /\ CallInv /\ RecordInv /\ [Next]_vars
          => (StoreInv /\ CallInv /\ RecordInv)'
  BY StoreNextInv, NextCallInv, NextRecordInv, MigrateStores, StoreActionIsStep, Zenon
<1> QED BY <1>1, <1>2, PTL DEF Spec

(* Migrate uses the records as StateStore describes: each of its steps is  *)
(* an access of a Save, or leaves the datastore alone.                     *)
THEOREM MigrateImplementsStore == Spec => StoreSpec
<1>1. Init => StoreInit
  BY Zenon DEF Init
<1>2. CallInv /\ RecordInv /\ [Next]_vars => [StoreNext]_storeVars
  BY MigrateStores, StoreActionIsStep, Zenon
<1> QED BY <1>1, <1>2, MigrateInvariance, PTL DEF Spec, StoreSpec

(* The variables of Migrate and of the store under it keep their types.    *)
THEOREM MigrateTypeCorrect == Spec => []TypeOK
<1>1. StoreInv /\ CallInv => TypeOK
  BY Zenon DEF StoreInv, CallInv, TypeOK
<1> QED BY <1>1, MigrateInvariance, PTL

(* However calls, failures and crashes interleave, a MigrateInfo says      *)
(* Complete only for data of which the chain has moved an order.           *)
THEOREM CompleteAlwaysMigrated == Spec => []CompleteIsMigrated
<1>1. RecordInv => CompleteIsMigrated
  BY Zenon DEF RecordInv
<1> QED BY <1>1, MigrateInvariance, PTL
-----------------------------------------------------------------------------
(* A record that says Complete is not set back.  A data id is handed out   *)
(* by the chain to one call of Migrate only, the one whose transaction     *)
(* found its shards held; that call saves no more for it once it has sent  *)
(* the last of its orders, and the loop completes the record later.        *)

(* A call of Migrate still has something to save for the data.             *)
Active(r, d) ==
    \/ d \in rpc[r].todo
    \/ rpc[r].data = d /\ rpc[r].pc \in {"savejob", "meta", "saveorder", "send"}
    \/ rpc[r].data = d /\ rpc[r].pc = "order" /\ rpc[r].orders # <<>>

InLoop(d) ==
    /\ loop.pc \in {"fetch", "request", "wait", "check", "save"}
    /\ loop.order \in Range(orders[d])

Held(d) == \E o \in Range(orders[d]) : shard[o] = "held"

SaysComplete(d) ==
    record["migrate"][d] # None /\ record["migrate"][d].state = "complete"

(* Calls have disjoint data; with one order, the call is done with it when *)
(* the loop has it.                                                        *)
TurnInv ==
    \A d \in DataId :
        /\ \A r \in Rpc : Active(r, d) => ~Held(d)
        /\ \A r, q \in Rpc : Active(r, d) /\ Active(q, d) => r = q
        /\ InLoop(d) => ~Held(d)
        /\ Len(orders[d]) = 1 /\ (InLoop(d) \/ SaysComplete(d)) =>
               \A r \in Rpc : ~Active(r, d)

Part(s, t) == Range(s) \subseteq Range(t) /\ Len(s) <= Len(t)

(* The orders a call has left are some of its data.                        *)
ListOK(r) ==
    /\ rpc[r].pc \in {"savejob", "meta", "order", "saveorder", "send"} =>
          rpc[r].data \notin rpc[r].todo
    /\ rpc[r].pc \in {"order", "saveorder", "send"} =>
          Part(rpc[r].orders, orders[rpc[r].data])

(* What is about to be written.                                            *)
PutOK(g) ==
    save[g].pc = "put" =>
        /\ g \in Rpc => /\ rpc[g].pc \in {"savejob", "saveorder"}
                        /\ save[g].key = rpc[g].data
                        /\ save[g].val.state = "txsent"
        /\ g = Loop => /\ loop.pc = "save"
                       /\ save[g].key \in DataId =>
                              loop.order \in Range(orders[save[g].key])
                       /\ save[g].val.state = "complete"

FinalInv ==
    /\ TurnInv
    /\ \A r \in Rpc : ListOK(r)
    /\ \A g \in Goroutine : PutOK(g)

(* Lists of orders: what a call has left after it sends the first.         *)
LEMMA ListFacts ==
    ASSUME NEW s \in Seq(Order), s # <<>>
    PROVE  /\ Tail(s) \in Seq(Order) /\ Range(Tail(s)) \subseteq Range(s)
           /\ Head(s) \in Order /\ Head(s) \in Range(s)
           /\ Len(Tail(s)) = Len(s) - 1 /\ Len(s) \in Nat
  BY SMTT(30) DEF Range

(* No list of a data id with one order has anything after the first.       *)
LEMMA ShortList ==
    ASSUME NEW s \in Seq(Order), s # <<>>, NEW t \in Seq(Order), Len(s) <= Len(t), Len(t) = 1
    PROVE  Tail(s) = <<>>
  BY SMTT(30)

LEMMA PartSelf == ASSUME NEW s \in Seq(Order) PROVE Part(s, s)
  BY SMTT(30) DEF Part

LEMMA PartTail ==
    ASSUME NEW s \in Seq(Order), NEW t \in Seq(Order), s # <<>>, Part(s, t)
    PROVE  Part(Tail(s), t)
<1>1. Len(Tail(s)) = Len(s) - 1 /\ Len(s) \in Nat /\ Len(t) \in Nat
  BY SMTT(30)
<1>2. Range(Tail(s)) \subseteq Range(s)
  BY SMTT(30) DEF Range
<1> QED BY <1>1, <1>2, SMTT(30) DEF Part

(* The goroutines are the calls of Migrate and the loop.                   *)
LEMMA Callers ==
    /\ \A r \in Rpc : r \in Goroutine /\ r # Loop
    /\ Loop \in Goroutine /\ Loop \notin Rpc
    /\ \A g \in Goroutine : g \in Rpc \/ g = Loop
  BY MigrateAssumption, SMTT(30)

LEMMA InitFinalInv == Init => FinalInv
<1> SUFFICES ASSUME Init PROVE FinalInv
  BY Zenon
<1>1. /\ \A r \in Rpc : rpc[r].pc = "none" /\ rpc[r].todo = {}
      /\ loop.pc = "recv" /\ \A g \in Goroutine : save[g].pc = "idle"
  BY Zenon DEF Init, StoreInit, Idle, NoCall, Receiving
<1>2. \A d \in DataId : ~InLoop(d) /\ \A r \in Rpc : ~Active(r, d)
  BY <1>1, Zenon DEF Active, InLoop
<1>3. TurnInv
  BY <1>2, Zenon DEF TurnInv
<1> QED BY <1>1, <1>3, Zenon DEF FinalInv, ListOK, PutOK

(* Nobody takes up new data, or gets at data the call has not given up.    *)
LEMMA KeepTurnInv ==
    ASSUME TurnInv, UNCHANGED orders,
           \A d \in DataId, r \in Rpc : Active(r, d)' => Active(r, d),
           \A d \in DataId : /\ Held(d)' => Held(d)
                             /\ InLoop(d)' => InLoop(d)
                             /\ SaysComplete(d)' => SaysComplete(d) \/ InLoop(d)
    PROVE  TurnInv'
<1> SUFFICES ASSUME NEW d \in DataId
             PROVE  /\ \A r \in Rpc : Active(r, d)' => ~Held(d)'
                    /\ \A r, q \in Rpc : Active(r, d)' /\ Active(q, d)' => r = q
                    /\ InLoop(d)' => ~Held(d)'
                    /\ Len(orders[d]) = 1 /\ (InLoop(d)' \/ SaysComplete(d)') =>
                           \A r \in Rpc : ~Active(r, d)'
  BY Zenon DEF TurnInv
<1> QED BY Zenon DEF TurnInv

(* A call moves on, and takes up nothing new.                              *)
LEMMA MoveFinalInv ==
    ASSUME FinalInv, UNCHANGED <<orders, shard, loop, record>>, NEW r \in Rpc,
           \A q \in Rpc \ {r} : rpc'[q] = rpc[q],
           \A g \in Goroutine \ {r} : save'[g] = save[g],
           \A d \in DataId : Active(r, d)' => Active(r, d),
           ListOK(r)', PutOK(r)'
    PROVE  FinalInv'
<1>1. \A d \in DataId, q \in Rpc : Active(q, d)' => Active(q, d)
  <2>1. ASSUME NEW d \in DataId, NEW q \in Rpc \ {r}
        PROVE  Active(q, d)' => Active(q, d)
    <3>1. rpc'[q] = rpc[q]
      BY Zenon
    <3> QED BY <3>1, Zenon DEF Active
  <2> QED BY <2>1, Zenon
<1>2. TurnInv'
  <2>1. \A d \in DataId : /\ Held(d)' => Held(d)
                          /\ InLoop(d)' => InLoop(d)
                          /\ SaysComplete(d)' => SaysComplete(d) \/ InLoop(d)
    BY Zenon DEF Held, InLoop, SaysComplete
  <2> QED BY <1>1, <2>1, KeepTurnInv, Zenon DEF FinalInv
<1>3. \A q \in Rpc : ListOK(q)'
  BY Zenon DEF FinalInv, ListOK
<1>4. ASSUME NEW g \in Goroutine PROVE PutOK(g)'
  <2>1. CASE g = r
    BY <2>1, Zenon
  <2>2. CASE g # r
    <3>1. PutOK(g) /\ save'[g] = save[g]
      BY <2>2, Zenon DEF FinalInv
    <3>2. CASE g \in Rpc
      <4>1. rpc'[g] = rpc[g]
        BY <2>2, <3>2, Zenon
      <4> QED BY <3>1, <4>1, Zenon DEF PutOK
    <3>3. CASE g \notin Rpc
      BY <3>1, <3>3, Zenon DEF PutOK
    <3> QED BY <3>2, <3>3, Zenon
  <2> QED BY <2>1, <2>2, Zenon
<1> QED BY <1>2, <1>3, <1>4, Zenon DEF FinalInv

(* A data id has its own orders.                                           *)
LEMMA OwnOrders ==
    ASSUME orders \in Layout, NEW o \in Order, NEW d \in DataId, NEW e \in DataId,
           o \in Range(orders[d]), o \in Range(orders[e])
    PROVE  d = e
<1>1. ASSUME NEW l \in Layout
      PROVE  \E a \in DataId : \A b \in DataId : o \in Range(l[b]) => a = b
  <2>1. \A p \in Order : \E a \in DataId : \A b \in DataId : p \in Range(l[b]) <=> a = b
    BY MigrateAssumption, SMTT(30)
  <2> QED BY <2>1, Zenon
<1>2. PICK a \in DataId : \A b \in DataId : o \in Range(orders[b]) => a = b
  BY <1>1, Zenon
<1> QED BY <1>2, Zenon

(* MigrateOrder hands out the data whose shards it found held: nobody had  *)
(* them, and nobody else will get them.                                    *)
LEMMA SendMigrateTxFinalInv ==
    ASSUME CallInv, RecordInv, FinalInv, NEW r \in Rpc, NEW ds \in SUBSET DataId,
           SendMigrateTx(r, ds)
    PROVE  FinalInv'
<1> DEFINE moved == {o \in Order : shard[o] = "held" /\ DataOf(o) \in ds}
           todo == {DataOf(o) : o \in moved}
<1>1. /\ rpc' = [rpc EXCEPT ![r] = [NoCall EXCEPT !.pc = "next", !.todo = todo]]
      /\ shard' = [o \in Order |-> IF o \in moved THEN "migrating" ELSE shard[o]]
      /\ UNCHANGED <<storeVars, orders, loop, handler, content>>
  BY Zenon DEF SendMigrateTx
<1>2. orders \in Layout /\ rpc[r] \in CallState /\ rpc[r].pc = "none"
  BY Zenon DEF CallInv, MigrateTypeOK, SendMigrateTx
<1>3. /\ rpc'[r].pc = "next" /\ rpc'[r].todo = todo
      /\ \A q \in Rpc \ {r} : rpc'[q] = rpc[q]
  BY <1>1, Zenon DEF CallInv, MigrateTypeOK, NoCall
<1>4. \A d \in DataId : Range(orders[d]) \subseteq Order
  <2>1. \A d \in DataId : orders[d] \in Seq(Order)
    BY <1>2, DataOfOrder, Zenon
  <2> QED BY <2>1, SMTT(30) DEF Range
<1>5. \A d \in DataId : Held(d)' => Held(d)
  BY <1>1, <1>4, Zenon DEF Held
<1>6. ASSUME NEW d \in DataId, d \in todo PROVE Held(d) /\ ~Held(d)'
  <2>1. PICK o \in moved : d = DataOf(o)
    BY <1>6, Zenon
  <2>2. o \in Range(orders[d]) /\ shard[o] = "held" /\ d \in ds
    BY <1>2, <2>1, DataOfOrder, Zenon
  <2>3. ASSUME NEW p \in Range(orders[d]), shard[p] = "held" PROVE p \in moved
    <3>1. p \in Order /\ DataOf(p) \in DataId /\ p \in Range(orders[DataOf(p)])
      BY <1>2, <1>4, DataOfOrder, Zenon
    <3>2. DataOf(p) = d
      BY <1>2, <3>1, OwnOrders, Zenon
    <3> QED BY <2>2, <2>3, <3>1, <3>2, Zenon
  <2>4. \A p \in Range(orders[d]) : shard'[p] # "held"
    <3>1. \A p \in Range(orders[d]) : p \in Order
      BY <1>4, Zenon
    <3> HIDE DEF moved
    <3> QED BY <1>1, <2>3, <3>1, Zenon
  <2> QED BY <1>1, <2>2, <2>4, Zenon DEF Held
<1>7. \A d \in DataId : (InLoop(d)' <=> InLoop(d)) /\ (SaysComplete(d)' <=> SaysComplete(d))
  BY <1>1, Zenon DEF InLoop, SaysComplete, storeVars
<1>8. \A d \in DataId : Active(r, d)' <=> d \in todo
  BY <1>3, Zenon DEF Active
<1>9. \A d \in DataId, q \in Rpc \ {r} : Active(q, d)' <=> Active(q, d)
  BY <1>3, Zenon DEF Active
<1>10. ASSUME NEW d \in DataId, Len(orders[d]) = 1, SaysComplete(d) PROVE ~Held(d)
  <2>1. Moved(d)
    BY <1>10, Zenon DEF RecordInv, CompleteIsMigrated, SaysComplete, Moved
  <2>2. PICK o \in Range(orders[d]) : shard[o] = "completed"
    BY <2>1, Zenon DEF Moved
  <2>3. orders[d] \in Seq(Order)
    BY <1>2, DataOfOrder, Zenon
  <2>4. \A p \in Range(orders[d]) : p = o
    BY <1>10, <2>3, SMTT(30) DEF Range
  <2> QED BY <2>2, <2>4, Zenon DEF Held
<1> HIDE DEF todo, moved
<1>11. TurnInv'
  <2> SUFFICES ASSUME NEW d \in DataId
               PROVE  /\ \A q \in Rpc : Active(q, d)' => ~Held(d)'
                      /\ \A p, q \in Rpc : Active(p, d)' /\ Active(q, d)' => p = q
                      /\ InLoop(d)' => ~Held(d)'
                      /\ Len(orders[d]) = 1 /\ (InLoop(d)' \/ SaysComplete(d)') =>
                             \A q \in Rpc : ~Active(q, d)'
    BY <1>1, Zenon DEF TurnInv
  <2>1. /\ \A q \in Rpc : Active(q, d) => ~Held(d)
        /\ \A p, q \in Rpc : Active(p, d) /\ Active(q, d) => p = q
        /\ InLoop(d) => ~Held(d)
        /\ Len(orders[d]) = 1 /\ (InLoop(d) \/ SaysComplete(d)) =>
               \A q \in Rpc : ~Active(q, d)
    BY Zenon DEF FinalInv, TurnInv
  <2> QED BY <1>5, <1>6, <1>7, <1>8, <1>9, <1>10, <2>1, Zenon
<1>12. \A q \in Rpc : ListOK(q)'
  BY <1>1, <1>3, Zenon DEF FinalInv, ListOK
<1>13. ASSUME NEW g \in Goroutine PROVE PutOK(g)'
  <2>1. PutOK(g) /\ save' = save
    BY <1>1, Zenon DEF FinalInv, storeVars
  <2> QED BY <1>1, <1>2, <1>3, <2>1, Zenon DEF PutOK
<1> QED BY <1>11, <1>12, <1>13, Zenon DEF FinalInv
(* The other steps of a call.                                              *)
LEMMA RpcFinalInv ==
    ASSUME StoreInv, CallInv, FinalInv, NEW r \in Rpc,
           \/ MigrateTxFails(r) \/ MigratePanics(r) \/ JobSaved(r) \/ GetMeta(r)
           \/ SkipOrder(r) \/ NextOrder(r) \/ OrderSaved(r) \/ SendRequest(r)
           \/ DataDone(r) \/ MigrateReturns(r) \/ \E d \in DataId : NextData(r, d)
    PROVE  FinalInv'
<1> DEFINE c == rpc[r]
<1>1. /\ c \in CallState /\ rpc \in [Rpc -> CallState] /\ orders \in Layout
      /\ save \in [Goroutine -> SaveState] /\ r \in Goroutine /\ r # Loop
  BY Callers, Zenon DEF CallInv, MigrateTypeOK, StoreInv, StoreTypeOK
<1>2. ListOK(r) /\ PutOK(r)
  BY <1>1, Zenon DEF FinalInv
<1>3. ASSUME MigrateTxFails(r) \/ MigratePanics(r) \/ GetMeta(r) \/ SkipOrder(r)
                \/ DataDone(r) \/ MigrateReturns(r)
      PROVE  FinalInv'
  <2>1. UNCHANGED <<orders, shard, loop, record, save>> /\ \A q \in Rpc \ {r} : rpc'[q] = rpc[q]
    BY <1>1, <1>3, Zenon
    DEF MigrateTxFails, MigratePanics, GetMeta, SkipOrder, DataDone, MigrateReturns,
        storeVars, notRpc
  <2>2. c.pc \notin {"savejob", "saveorder"} /\ save[r].pc # "put"
    <3>1. c.pc \notin {"savejob", "saveorder"}
      BY <1>3, Zenon DEF MigrateTxFails, MigratePanics, GetMeta, SkipOrder, DataDone, MigrateReturns
    <3> QED BY <1>2, <3>1, Zenon DEF PutOK
  <2>3. PutOK(r)'
    BY <2>1, <2>2, Zenon DEF PutOK
  <2>4. CASE MigrateTxFails(r) \/ MigratePanics(r) \/ DataDone(r) \/ MigrateReturns(r)
    <3>1. /\ rpc'[r].pc \in {"returned", "panic", "next"}
          /\ rpc'[r].todo = c.todo
      BY <1>1, <2>4, SMTT(30) DEF MigrateTxFails, MigratePanics, DataDone, MigrateReturns, CallState
    <3>2. ListOK(r)' /\ \A d \in DataId : Active(r, d)' => Active(r, d)
      BY <3>1, Zenon DEF ListOK, Active
    <3> QED BY <2>1, <2>3, <3>2, MoveFinalInv, Zenon
  <2>5. CASE GetMeta(r)
    <3>1. /\ c.pc = "meta" /\ rpc'[r].pc = "order" /\ rpc'[r].todo = c.todo
          /\ rpc'[r].data = c.data /\ rpc'[r].orders = orders[c.data]
      BY <1>1, <2>5, Zenon DEF GetMeta, CallState
    <3>2. c.data \in DataId
      BY <3>1, Zenon DEF CallInv
    <3>3. orders[c.data] \in Seq(Order)
      BY <1>1, <3>2, DataOfOrder, Zenon
    <3>4. ListOK(r)'
      <4>1. Part(orders[c.data], orders[c.data])
        BY <3>3, PartSelf, Zenon
      <4> QED BY <1>2, <2>1, <3>1, <4>1, Zenon DEF ListOK
    <3>5. \A d \in DataId : Active(r, d)' => Active(r, d)
      BY <3>1, Zenon DEF Active
    <3> QED BY <2>1, <2>3, <3>4, <3>5, MoveFinalInv, Zenon
  <2>6. CASE SkipOrder(r)
    <3>1. c.orders # <<>> /\ c.orders \in Seq(Order) /\ c.data \in DataId
      BY <1>1, <2>6, Zenon DEF SkipOrder, CallState, CallInv
    <3>2. /\ c.pc = "order" /\ rpc'[r].pc = "order" /\ rpc'[r].todo = c.todo
          /\ rpc'[r].data = c.data /\ rpc'[r].orders = Tail(c.orders)
      BY <1>1, <2>6, Zenon DEF SkipOrder, CallState
    <3>3. Part(c.orders, orders[c.data]) /\ c.data \notin c.todo
      BY <1>2, <3>2, Zenon DEF ListOK
    <3>4. Part(Tail(c.orders), orders[c.data])
      <4>1. orders[c.data] \in Seq(Order)
        BY <1>1, <3>1, DataOfOrder, Zenon
      <4> QED BY <3>1, <3>3, <4>1, PartTail, Zenon
    <3>5. ListOK(r)'
      BY <2>1, <3>2, <3>3, <3>4, Zenon DEF ListOK
    <3>6. \A d \in DataId : Active(r, d)' => Active(r, d)
      BY <3>1, <3>2, Zenon DEF Active
    <3> QED BY <2>1, <2>3, <3>5, <3>6, MoveFinalInv, Zenon
  <2> QED BY <1>3, <2>4, <2>5, <2>6, Zenon
<1>4. ASSUME NEW d \in DataId, NextData(r, d) PROVE FinalInv'
  <2>1. /\ UNCHANGED <<orders, shard, loop, record>>
        /\ \A q \in Rpc \ {r} : rpc'[q] = rpc[q]
        /\ \A g \in Goroutine \ {r} : save'[g] = save[g]
    BY <1>1, <1>4, Zenon DEF NextData, notRpc, SaveMigrate, SaveBegin
  <2>2. /\ d \in c.todo /\ rpc'[r].pc = "savejob" /\ rpc'[r].data = d
        /\ rpc'[r].todo = c.todo \ {d}
    BY <1>1, <1>4, Zenon DEF NextData, CallState
  <2>3. save'[r].key = d /\ save'[r].val = Info("txsent", None)
    BY <1>1, <1>4, Zenon DEF NextData, SaveMigrate, SaveBegin, Idle
  <2>4. PutOK(r)' /\ ListOK(r)'
    BY <1>1, <2>2, <2>3, InfoFacts, Zenon DEF PutOK, ListOK
  <2>5. \A e \in DataId : Active(r, e)' => Active(r, e)
    BY <2>2, Zenon DEF Active
  <2> QED BY <2>1, <2>4, <2>5, MoveFinalInv, Zenon
<1>5. ASSUME NextOrder(r) PROVE FinalInv'
  <2>1. /\ UNCHANGED <<orders, shard, loop, record>>
        /\ \A q \in Rpc \ {r} : rpc'[q] = rpc[q]
        /\ \A g \in Goroutine \ {r} : save'[g] = save[g]
    BY <1>1, <1>5, Zenon DEF NextOrder, notRpc, SaveMigrate, SaveBegin
  <2>2. /\ c.pc = "order" /\ c.orders # <<>> /\ rpc'[r].pc = "saveorder"
        /\ rpc'[r].data = c.data /\ rpc'[r].todo = c.todo /\ rpc'[r].orders = c.orders
    BY <1>1, <1>5, Zenon DEF NextOrder, CallState
  <2>3. save'[r].key = c.data /\ save'[r].val = Info("txsent", Head(c.orders))
    BY <1>1, <1>5, Zenon DEF NextOrder, SaveMigrate, SaveBegin, Idle
  <2>4. Head(c.orders) \in Order
    <3>1. c.orders \in Seq(Order)
      BY <1>1, Zenon DEF CallState
    <3> QED BY <2>2, <3>1, ListFacts, Zenon
  <2>5. Info("txsent", Head(c.orders)).state = "txsent"
    BY <2>4, InfoFacts, Zenon
  <2>6. PutOK(r)' /\ ListOK(r)'
    BY <1>1, <1>2, <2>1, <2>2, <2>3, <2>5, Zenon DEF PutOK, ListOK
  <2>7. \A d \in DataId : Active(r, d)' => Active(r, d)
    BY <2>2, Zenon DEF Active
  <2> QED BY <2>1, <2>6, <2>7, MoveFinalInv, Zenon
<1>6. ASSUME JobSaved(r) \/ OrderSaved(r) PROVE FinalInv'
  <2>1. /\ UNCHANGED <<orders, shard, loop, record>>
        /\ \A q \in Rpc \ {r} : rpc'[q] = rpc[q]
        /\ \A g \in Goroutine \ {r} : save'[g] = save[g]
        /\ save'[r].pc # "put"
    <3>1. save' = [save EXCEPT ![r] = Idle] /\ Idle.pc = "idle"
      BY <1>6, Zenon DEF JobSaved, OrderSaved, SaveReturns, Idle
    <3>2. /\ UNCHANGED <<orders, shard, loop, record>>
          /\ \A q \in Rpc \ {r} : rpc'[q] = rpc[q]
      BY <1>1, <1>6, Zenon DEF JobSaved, OrderSaved, notRpc, SaveReturns
    <3> HIDE DEF Idle
    <3> QED BY <1>1, <3>1, <3>2, Zenon
  <2>2. /\ \/ c.pc = "savejob" /\ rpc'[r].pc = "meta"
           \/ c.pc = "saveorder" /\ rpc'[r].pc = "send"
        /\ rpc'[r].data = c.data /\ rpc'[r].todo = c.todo /\ rpc'[r].orders = c.orders
    BY <1>1, <1>6, SMTT(30) DEF JobSaved, OrderSaved, CallState
  <2>3. PutOK(r)' /\ ListOK(r)'
    BY <1>2, <2>1, <2>2, Zenon DEF PutOK, ListOK
  <2>4. \A d \in DataId : Active(r, d)' => Active(r, d)
    BY <2>2, Zenon DEF Active
  <2> QED BY <2>1, <2>3, <2>4, MoveFinalInv, Zenon
<1>7. ASSUME SendRequest(r) PROVE FinalInv'
  <2>0. c.data \in DataId
    BY <1>7, Zenon DEF SendRequest, CallInv
  <2> PICK d \in DataId : d = c.data
    BY <2>0, Zenon
  <2> PICK o : o = Head(c.orders)
    BY Zenon
  <2>1. /\ c.pc = "send" /\ c.orders # <<>> /\ c.orders \in Seq(Order) /\ loop.pc = "recv"
    BY <1>1, <1>7, Zenon DEF SendRequest, CallState, CallInv
  <2>2. /\ UNCHANGED <<orders, shard, record, save>>
        /\ \A q \in Rpc \ {r} : rpc'[q] = rpc[q]
        /\ loop' = [pc |-> "fetch", order |-> o]
    BY <1>1, <1>7, Zenon DEF SendRequest, storeVars
  <2>3. /\ rpc'[r].pc = "order" /\ rpc'[r].todo = c.todo
        /\ rpc'[r].data = d /\ rpc'[r].orders = Tail(c.orders)
    BY <1>1, <1>7, Zenon DEF SendRequest, CallState
  <2>4. /\ Range(Tail(c.orders)) \subseteq Range(c.orders) /\ o \in Range(c.orders)
        /\ o \in Order
    BY <2>1, ListFacts, Zenon
  <2>5. /\ orders[d] \in Seq(Order) /\ o \in Range(orders[d])
        /\ Len(c.orders) <= Len(orders[d]) /\ d \notin c.todo /\ Part(Tail(c.orders), orders[d])
    <3>1. orders[d] \in Seq(Order)
      BY <1>1, DataOfOrder, Zenon
    <3>2. Part(c.orders, orders[d]) /\ d \notin c.todo
      BY <1>2, <2>1, Zenon DEF ListOK
    <3>3. Part(Tail(c.orders), orders[d])
      BY <2>1, <3>1, <3>2, PartTail, Zenon
    <3>4. o \in Range(orders[d]) /\ Len(c.orders) <= Len(orders[d])
      BY <2>4, <3>2, Zenon DEF Part
    <3> QED BY <3>1, <3>2, <3>3, <3>4, Zenon
  <2>6. \A q \in Rpc : ListOK(q)'
    <3>1. ListOK(r)'
      BY <2>2, <2>3, <2>5, Zenon DEF ListOK
    <3> QED BY <2>2, <3>1, Zenon DEF FinalInv, ListOK
  <2>7. ASSUME NEW g \in Goroutine PROVE PutOK(g)'
    <3>1. PutOK(g)
      BY Zenon DEF FinalInv
    <3>2. save'[g] = save[g]
      BY <2>2, Zenon
    <3>3. CASE g = r
      BY <2>1, <3>1, <3>2, <3>3, Zenon DEF PutOK
    <3>4. CASE g = Loop
      BY <2>1, <3>1, <3>2, <3>4, Zenon DEF PutOK
    <3>5. CASE g \in Rpc \ {r}
      BY <2>2, <3>1, <3>2, <3>5, Callers, Zenon DEF PutOK
    <3> QED BY <3>3, <3>4, <3>5, Callers, Zenon
  <2>8. \A e \in DataId : InLoop(e)' <=> e = d
    <3>1. \A e \in DataId : o \in Range(orders[e]) <=> e = d
      BY <1>1, <2>1, <2>4, <2>5, OwnOrders, Zenon
    <3>2. loop'.pc = "fetch" /\ loop'.order = o
      BY <2>2, Zenon
    <3> QED BY <2>2, <3>1, <3>2, Zenon DEF InLoop
  <2>9. \A e \in DataId, q \in Rpc : Active(q, e)' => Active(q, e)
    <3> SUFFICES ASSUME NEW e \in DataId, NEW q \in Rpc, Active(q, e)' PROVE Active(q, e)
      BY Zenon
    <3>1. CASE q = r
      BY <2>1, <2>3, <3>1, Zenon DEF Active
    <3>2. CASE q # r
      BY <2>2, <3>2, Zenon DEF Active
    <3> QED BY <3>1, <3>2, Zenon
  <2>10. Active(r, d)
    BY <2>1, Zenon DEF Active
  <2>11. Len(orders[d]) = 1 => ~Active(r, d)'
    <3>1. Len(orders[d]) = 1 => Tail(c.orders) = <<>>
      BY <2>1, <2>5, ShortList, Zenon
    <3> QED BY <2>3, <2>5, <3>1, Zenon DEF Active
  <2>12. \A e \in DataId : (Held(e)' <=> Held(e)) /\ (SaysComplete(e)' <=> SaysComplete(e))
    BY <2>2, Zenon DEF Held, SaysComplete
  <2>13. TurnInv'
    <3> SUFFICES ASSUME NEW e \in DataId
                 PROVE  /\ \A q \in Rpc : Active(q, e)' => ~Held(e)'
                        /\ \A p, q \in Rpc : Active(p, e)' /\ Active(q, e)' => p = q
                        /\ InLoop(e)' => ~Held(e)'
                        /\ Len(orders[e]) = 1 /\ (InLoop(e)' \/ SaysComplete(e)') =>
                               \A q \in Rpc : ~Active(q, e)'
      BY <2>2, Zenon DEF TurnInv
    <3>1. /\ \A q \in Rpc : Active(q, e) => ~Held(e)
          /\ \A p, q \in Rpc : Active(p, e) /\ Active(q, e) => p = q
          /\ Len(orders[e]) = 1 /\ (InLoop(e) \/ SaysComplete(e)) =>
                 \A q \in Rpc : ~Active(q, e)
      BY Zenon DEF FinalInv, TurnInv
    <3>2. CASE e = d
      <4>1. /\ Active(r, e) /\ (Len(orders[e]) = 1 => ~Active(r, e)')
        BY <2>10, <2>11, <3>2, Zenon
      <4>2. \A q \in Rpc : Active(q, e)' => q = r
        BY <2>9, <3>1, <4>1, Zenon
      <4>3. ~Held(e)'
        BY <2>12, <3>1, <4>1, Zenon
      <4>4. Len(orders[e]) = 1 => \A q \in Rpc : ~Active(q, e)'
        BY <4>1, <4>2, Zenon
      <4> QED BY <4>2, <4>3, <4>4, Zenon
    <3>3. CASE e # d
      BY <2>8, <2>9, <2>12, <3>1, <3>3, Zenon
    <3> QED BY <3>2, <3>3, Zenon
  <2> QED BY <2>6, <2>7, <2>13, Zenon DEF FinalInv
<1> QED BY <1>3, <1>4, <1>5, <1>6, <1>7, Zenon DEF RpcStep
(* The steps of the loop: it writes Complete for the data of its order.    *)
LEMMA LoopFinalInv ==
    ASSUME StoreInv, CallInv, RecordInv, FinalInv,
           \/ Fetch \/ RequestShardMigrate \/ Response \/ CompleteMigrate
           \/ MigrateSaved \/ ProcessFails \/ StopLoop
    PROVE  FinalInv'
<1>1. /\ loop \in LoopState /\ orders \in Layout /\ Loop \in Goroutine /\ Loop \notin Rpc
      /\ save \in [Goroutine -> SaveState]
  BY Callers, Zenon DEF CallInv, MigrateTypeOK, StoreInv, StoreTypeOK
<1>2. UNCHANGED <<orders, shard, rpc, record>> /\ \A g \in Goroutine \ {Loop} : save'[g] = save[g]
  <2>1. UNCHANGED notLoop
    BY Zenon DEF Fetch, RequestShardMigrate, Response, CompleteMigrate, MigrateSaved,
       ProcessFails, StopLoop
  <2>2. UNCHANGED storeVars \/ CompleteMigrate \/ SaveReturns(Loop)
    BY Zenon DEF Fetch, RequestShardMigrate, Response, MigrateSaved,
       ProcessFails, StopLoop
  <2>3. ASSUME CompleteMigrate
        PROVE  UNCHANGED record /\ \A g \in Goroutine \ {Loop} : save'[g] = save[g]
    <3>1. PICK key, v : SaveMigrate(Loop, key, v)
      BY <2>3, Zenon DEF CompleteMigrate
    <3> QED BY <1>1, <3>1, Zenon DEF SaveMigrate, SaveBegin
  <2> QED BY <1>1, <2>1, <2>2, <2>3, Zenon DEF notLoop, storeVars, SaveReturns
<1>3. \/ /\ loop.pc = "recv" /\ loop'.pc = "stopped"
      \/ loop'.pc = "recv"
      \/ /\ loop.pc \in {"fetch", "request", "wait", "check"}
         /\ loop'.pc \in {"request", "wait", "check", "save"}
         /\ loop'.order = loop.order
  <2>1. CASE Fetch \/ RequestShardMigrate \/ Response \/ CompleteMigrate \/ StopLoop
    <3>1. PICK pc \in {"request", "wait", "check", "save", "stopped"} :
              /\ loop' = [loop EXCEPT !.pc = pc]
              /\ pc # "stopped" => loop.pc \in {"fetch", "request", "wait", "check"}
              /\ pc = "stopped" => loop.pc = "recv"
      BY <2>1, Zenon DEF Fetch, RequestShardMigrate, Response, CompleteMigrate, StopLoop
    <3>2. loop'.pc = pc /\ loop'.order = loop.order
      BY <1>1, <3>1, Zenon DEF LoopState
    <3> QED BY <3>1, <3>2, Zenon
  <2>2. CASE MigrateSaved \/ ProcessFails
    BY <2>2, SMTT(30) DEF MigrateSaved, ProcessFails, Receiving
  <2> QED BY <2>1, <2>2, Zenon
<1>4. TurnInv'
  <2>1. \A d \in DataId, r \in Rpc : Active(r, d)' => Active(r, d)
    BY <1>2, Zenon DEF Active
  <2>2. \A d \in DataId : /\ Held(d)' => Held(d)
                          /\ InLoop(d)' => InLoop(d)
                          /\ SaysComplete(d)' => SaysComplete(d) \/ InLoop(d)
    BY <1>2, <1>3, Zenon DEF Held, InLoop, SaysComplete
  <2> QED BY <1>2, <2>1, <2>2, KeepTurnInv, Zenon DEF FinalInv
<1>5. \A r \in Rpc : ListOK(r)'
  BY <1>2, Zenon DEF FinalInv, ListOK
<1>6. \A g \in Goroutine \ {Loop} : PutOK(g)'
  BY <1>2, Callers, Zenon DEF FinalInv, PutOK
<1>7. PutOK(Loop)'
  <2>1. CASE CompleteMigrate
    <3> DEFINE d == DataOf(loop.order)
               key == IF record["migrate"][d] = None THEN NoData ELSE d
               old == Get("migrate", d, Info("", None))
               v == [old EXCEPT !.state = "complete"]
    <3>1. loop.order \in Order /\ loop' = [loop EXCEPT !.pc = "save"] /\ SaveMigrate(Loop, key, v)
      BY <2>1, Zenon DEF CompleteMigrate, CallInv
    <3>2. d \in DataId /\ loop.order \in Range(orders[d])
      BY <1>1, <3>1, DataOfOrder, Zenon
    <3>3. key \in DataId => key = d
      BY MigrateAssumption, Zenon DEF DataId
    <3>4. v.state = "complete"
      <4>1. d \in Key
        BY <3>2, Zenon DEF DataId
      <4>2. CASE record["migrate"][d] = None
        <5>1. old = Info("", None)
          BY <4>2, Zenon DEF Get
        <5>2. ASSUME NEW st PROVE [Info(st, None) EXCEPT !.state = "complete"].state = "complete"
          BY Zenon DEF Info
        <5> QED BY <5>1, <5>2, Zenon
      <4>3. CASE record["migrate"][d] # None
        <5>1. old \in MigrateInfo
          BY <4>1, <4>3, Zenon DEF Get, RecordInv
        <5>2. \A w \in MigrateInfo : [w EXCEPT !.state = "complete"].state = "complete"
          BY SMTT(30) DEF MigrateInfo
        <5> QED BY <5>1, <5>2, Zenon
      <4> QED BY <4>2, <4>3, Zenon
    <3> HIDE DEF key, v
    <3>5. save'[Loop].key = key /\ save'[Loop].val = v
      BY <1>1, <3>1, Zenon DEF SaveMigrate, SaveBegin, Idle
    <3>6. loop'.pc = "save" /\ loop'.order = loop.order
      BY <1>1, <3>1, Zenon DEF LoopState
    <3> QED BY <1>1, <1>2, <3>2, <3>3, <3>4, <3>5, <3>6, Zenon DEF PutOK
  <2>2. CASE MigrateSaved
    <3>1. save'[Loop].pc # "put"
      BY <1>1, <2>2, Zenon DEF MigrateSaved, SaveReturns, Idle
    <3> QED BY <3>1, Zenon DEF PutOK
  <2>3. CASE ~CompleteMigrate /\ ~MigrateSaved
    <3>1. save' = save /\ loop.pc # "save"
      BY <2>3, Zenon DEF Fetch, RequestShardMigrate, Response, ProcessFails, StopLoop, storeVars
    <3>2. save[Loop].pc # "put"
      BY <1>1, <3>1, Zenon DEF FinalInv, PutOK
    <3> QED BY <3>1, <3>2, Zenon DEF PutOK
  <2> QED BY <2>1, <2>2, <2>3, Zenon
<1> QED BY <1>4, <1>5, <1>6, <1>7, Zenon DEF FinalInv

(* Accesses of the datastore: a record becomes Complete only when the loop *)
(* writes it.                                                              *)
LEMMA StoreFinalInv ==
    ASSUME StoreInv, RecordInv, FinalInv, NEW g \in Goroutine, StoreStep(g) \/ SaveFails(g),
           UNCHANGED migrateVars
    PROVE  FinalInv'
<1>1. UNCHANGED <<orders, shard, rpc, loop>>
  BY Zenon DEF migrateVars
<1>2. /\ \A h \in Goroutine \ {g} : save'[h] = save[h]
      /\ save'[g].pc # "put"
  BY AccessMoves, Zenon DEF StoreInv, StoreTypeOK
<1>3. \A d \in DataId : SaysComplete(d)' => SaysComplete(d) \/ InLoop(d)
  <2>1. CASE SavePut(g)
    <3> DEFINE s == save[g]
    <3>1. s.pc = "put" /\ s.kind = "migrate" /\ s.key \in Key /\ "migrate" \in Kind /\ DataId \subseteq Key
      BY <2>1, Zenon DEF SavePut, RecordInv, Underway, Kind, DataId, StoreInv, StoreTypeOK
    <3>2. \A d \in Key : record'["migrate"][d] =
                            IF d = s.key THEN s.val ELSE record["migrate"][d]
      BY <2>1, <3>1, Zenon DEF SavePut, StoreInv, StoreTypeOK
    <3>3. ASSUME s.key \in DataId, s.val.state = "complete" PROVE InLoop(s.key)
      <4>1. PutOK(g)
        BY Zenon DEF FinalInv
      <4>2. g = Loop
        BY <3>1, <3>3, <4>1, Callers, Zenon DEF PutOK
      <4> QED BY <3>1, <3>3, <4>1, <4>2, Zenon DEF PutOK, InLoop
    <3> HIDE DEF s
    <3> QED BY <3>1, <3>2, <3>3, Zenon DEF SaysComplete
  <2>2. CASE ~SavePut(g)
    <3>1. UNCHANGED record
      BY <2>2, Zenon
      DEF StoreStep, IndexPut, PutIndex, IndexFull, RemoveShardExpireIndex,
          AddShardExpireIndex, UpdateOrderIndex, UpdateMigrateIndex,
          UpdateShardIndex, IndexGet, SaveFails
    <3> QED BY <3>1, Zenon DEF SaysComplete
  <2> QED BY <2>1, <2>2, Zenon
<1>4. TurnInv'
  <2>1. \A d \in DataId, r \in Rpc : Active(r, d)' => Active(r, d)
    BY <1>1, Zenon DEF Active
  <2>2. \A d \in DataId : (Held(d)' => Held(d)) /\ (InLoop(d)' => InLoop(d))
    BY <1>1, Zenon DEF Held, InLoop
  <2> QED BY <1>1, <1>3, <2>1, <2>2, KeepTurnInv, Zenon DEF FinalInv
<1>5. \A r \in Rpc : ListOK(r)'
  BY <1>1, Zenon DEF FinalInv, ListOK
<1>6. ASSUME NEW h \in Goroutine PROVE PutOK(h)'
  <2>1. CASE h = g
    BY <1>2, <2>1, Zenon DEF PutOK
  <2>2. CASE h # g
    BY <1>1, <1>2, <2>2, Zenon DEF FinalInv, PutOK
  <2> QED BY <2>1, <2>2, Zenon
<1> QED BY <1>4, <1>5, <1>6, Zenon DEF FinalInv

(* Every step keeps the invariant.                                         *)
LEMMA NextFinalInv ==
    ASSUME StoreInv, CallInv, RecordInv, FinalInv, [Next]_vars PROVE FinalInv'
<1>1. ASSUME UNCHANGED <<orders, rpc, loop, record, save>>,
             \A d \in DataId : Held(d)' => Held(d)
      PROVE  FinalInv'
  <2>1. \A d \in DataId, r \in Rpc : Active(r, d)' => Active(r, d)
    BY <1>1, Zenon DEF Active
  <2>2. \A d \in DataId : /\ InLoop(d)' => InLoop(d)
                          /\ SaysComplete(d)' => SaysComplete(d) \/ InLoop(d)
    BY <1>1, Zenon DEF InLoop, SaysComplete
  <2>3. TurnInv'
    BY <1>1, <2>1, <2>2, KeepTurnInv, Zenon DEF FinalInv
  <2> QED BY <1>1, <2>3, Zenon DEF FinalInv, ListOK, PutOK
<1>2. CASE UNCHANGED vars
  BY <1>1, <1>2, Zenon DEF vars, storeVars, migrateVars, Held
<1>3. ASSUME NEW o \in Order, HandlerStep(o) PROVE FinalInv'
  <2>1. UNCHANGED <<orders, rpc, loop, record, save>>
    BY <1>3, Zenon DEF HandlerStep, CheckRequest, StoreContent, CompleteOrder, HandlerFails, At, storeVars
  <2>2. shard' = shard \/ shard' = [shard EXCEPT ![o] = "completed"]
    BY <1>3, Zenon DEF HandlerStep, CheckRequest, StoreContent, CompleteOrder, HandlerFails
  <2>3. shard \in [Order -> {"held", "migrating", "completed"}]
    BY Zenon DEF CallInv, MigrateTypeOK
  <2>4. \A d \in DataId : Held(d)' => Held(d)
    <3>1. \A d \in DataId : Range(orders[d]) \subseteq Order
      <4>1. \A d \in DataId : orders[d] \in Seq(Order)
        BY DataOfOrder, Zenon DEF CallInv, MigrateTypeOK
      <4> QED BY <4>1, SMTT(30) DEF Range
    <3>2. \A p \in Order : shard'[p] = "held" => shard[p] = "held"
      BY <2>2, <2>3, Zenon
    <3> QED BY <2>1, <3>1, <3>2, Zenon DEF Held
  <2> QED BY <1>1, <2>1, <2>4, Zenon
<1>4. CASE Crash
  <2>1. /\ \A r \in Rpc : rpc'[r].pc = "none" /\ rpc'[r].todo = {}
        /\ loop'.pc = "recv" /\ \A g \in Goroutine : save'[g].pc = "idle"
    BY <1>4, Zenon DEF Crash, StoreCrash, Idle, NoCall, Receiving
  <2>2. \A d \in DataId : ~InLoop(d)' /\ \A r \in Rpc : ~Active(r, d)'
    BY <2>1, Zenon DEF Active, InLoop
  <2>3. TurnInv'
    BY <2>2, Zenon DEF TurnInv
  <2> QED BY <2>1, <2>3, Zenon DEF FinalInv, ListOK, PutOK
<1>5. ASSUME NEW r \in Rpc, RpcStep(r) \/ MigrateTxFails(r) \/ MigratePanics(r) PROVE FinalInv'
  <2>1. CASE StoreStep(r) /\ UNCHANGED migrateVars
    BY <2>1, StoreFinalInv, Callers, Zenon
  <2> QED BY <1>5, <2>1, RpcFinalInv, Zenon DEF RpcStep
<1>6. CASE LoopStep \/ StopLoop
  <2>1. CASE StoreStep(Loop) /\ UNCHANGED migrateVars
    BY <2>1, StoreFinalInv, Callers, Zenon
  <2> QED BY <1>6, <2>1, LoopFinalInv, Zenon DEF LoopStep
<1>7. ASSUME NEW g \in Goroutine, SaveFails(g), UNCHANGED migrateVars PROVE FinalInv'
  BY <1>7, StoreFinalInv, Zenon
<1>8. ASSUME NEW r \in Rpc, NEW ds \in SUBSET DataId, SendMigrateTx(r, ds) PROVE FinalInv'
  BY <1>8, SendMigrateTxFinalInv, Zenon
<1> QED BY <1>2, <1>3, <1>4, <1>5, <1>6, <1>7, <1>8, Zenon DEF Next

(* A step that writes a record which says Complete, of data with one       *)
(* order, is one of the loop.                                              *)
LEMMA FinalStep ==
    ASSUME StoreInv, CallInv, RecordInv, FinalInv, [Next]_vars,
           NEW d \in DataId, SaysComplete(d), Len(orders[d]) = 1
    PROVE  record'["migrate"][d].state = "complete"
<1> USE DEF StoreInv, StoreTypeOK
<1>1. CASE UNCHANGED record
  BY <1>1, Zenon DEF SaysComplete
<1>2. ASSUME NEW g \in Goroutine, SavePut(g) PROVE record'["migrate"][d].state = "complete"
  <2> DEFINE s == save[g]
  <2>1. s.pc = "put" /\ s.kind = "migrate" /\ s.key \in Key /\ "migrate" \in Kind /\ DataId \subseteq Key
    BY <1>2, Zenon DEF SavePut, RecordInv, Underway, Kind, DataId
  <2>2. record'["migrate"][d] = IF d = s.key THEN s.val ELSE record["migrate"][d]
    BY <1>2, <2>1, Zenon DEF SavePut
  <2>3. PutOK(g)
    BY Zenon DEF FinalInv
  <2>4. CASE g = Loop
    BY <2>1, <2>2, <2>3, <2>4, Zenon DEF PutOK, SaysComplete
  <2>5. CASE g \in Rpc
    <3>1. rpc[g].pc \in {"savejob", "saveorder"} /\ s.key = rpc[g].data
      BY <2>1, <2>3, <2>5, Zenon DEF PutOK
    <3>2. ~Active(g, d)
      BY <2>5, Zenon DEF FinalInv, TurnInv
    <3>3. s.key # d
      BY <3>1, <3>2, Zenon DEF Active
    <3> QED BY <2>2, <3>3, Zenon DEF SaysComplete
  <2> QED BY <2>4, <2>5, Callers, Zenon
<1>3. UNCHANGED record \/ \E g \in Goroutine : SavePut(g)
  BY MigrateStores, Zenon
  DEF StoreAction, StoreStep, IndexPut, PutIndex, IndexFull, RemoveShardExpireIndex,
      AddShardExpireIndex, UpdateOrderIndex, UpdateMigrateIndex, UpdateShardIndex, IndexGet,
      SaveFails, SaveReturns, SaveMigrate, SaveBegin, StoreCrash, storeVars
<1> QED BY <1>1, <1>2, <1>3, Zenon

(* However calls of Migrate interleave with the loop, fail or crash, the   *)
(* MigrateInfo of data with one order is not set back from Complete.       *)
THEOREM CompleteStaysComplete == Spec => CompleteIsFinal
<1> DEFINE Final == \A d \in DataId :
                        LET mi == record["migrate"][d] IN
                        mi # None /\ mi.state = "complete" /\ Len(orders[d]) = 1 =>
                            record'["migrate"][d].state = "complete"
<1>1. Init => FinalInv
  BY InitFinalInv, Zenon
<1>2. StoreInv /\ CallInv /\ RecordInv /\ FinalInv /\ [Next]_vars => FinalInv'
  BY NextFinalInv, Zenon
<1>3. StoreInv /\ CallInv /\ RecordInv /\ FinalInv /\ [Next]_vars => [Final]_vars
  BY FinalStep, Zenon DEF SaysComplete
<1>4. CompleteIsFinal <=> [][Final]_vars
  BY Zenon DEF CompleteIsFinal
<1> QED BY <1>1, <1>2, <1>3, <1>4, MigrateInvariance, PTL DEF Spec
=============================================================================
