------------------------------ MODULE LruCache ------------------------------
(***************************************************************************)
(* node/cache/lru_cache.go, pointer by pointer: a map from keys to the     *)
(* nodes of a doubly linked list, head used longest ago.  A removed node   *)
(* keeps its pointers, its old neighbours may keep theirs to it, and head  *)
(* is only reset when it is nil.  One operation runs at a time: the cache  *)
(* has no lock and leaves that to its callers.                             *)
(***************************************************************************)
EXTENDS Naturals, FiniteSets, Sequences

CONSTANTS
    Key, Value,
    Node,         \* nodes that may be allocated (bound); a subset of Nat
    Capacity,     \* 0: no limit
    EvictsLast,   \* TRUE: callers may evict the only entry
    Nil           \* a nil pointer or result

ASSUME CacheAssumption ==
    /\ Node \subseteq Nat /\ IsFiniteSet(Node)
    /\ Capacity \in Nat
    /\ EvictsLast \in BOOLEAN
    /\ Nil \notin Node \cup Key \cup Value

VARIABLES
    list,       \* the LruCache: Map, head, end and the fields of the nodes
    used,       \* nodes allocated so far
    ret,        \* what the last operation returned
    panicked    \* an operation dereferenced a nil pointer

vars == <<list, used, ret, panicked>>

Pointer == Node \cup {Nil}

List == [Map : [Key -> Pointer], head : Pointer, end : Pointer,
         key : [Node -> Key \cup {Nil}], value : [Node -> Value \cup {Nil}],
         pre : [Node -> Pointer], next : [Node -> Pointer]]

TypeOK ==
    /\ list \in List
    /\ used \subseteq Node
    /\ ret \in Value \cup {Nil}
    /\ panicked \in BOOLEAN

(* CreateLruCache                                                          *)
Init ==
    /\ list = [Map |-> [k \in Key |-> Nil], head |-> Nil, end |-> Nil,
               key |-> [n \in Node |-> Nil], value |-> [n \in Node |-> Nil],
               pre |-> [n \in Node |-> Nil], next |-> [n \in Node |-> Nil]]
    /\ used = {}
    /\ ret = Nil
    /\ panicked = FALSE

-----------------------------------------------------------------------------
(* Mutant of addNode: the list is linked in one direction only.            *)
addNodeOneWay(l, n) ==
    LET linked == IF l.end = Nil THEN l
                  ELSE [l EXCEPT !.next[l.end] = n, !.next[n] = Nil]
    IN  [linked EXCEPT !.end = n, !.head = IF @ = Nil THEN n ELSE @]

addNode(l, n) ==
    LET linked == IF l.end = Nil THEN l
                  ELSE [l EXCEPT !.next = [@ EXCEPT ![l.end] = n, ![n] = Nil], !.pre[n] = l.end]
    IN  [linked EXCEPT !.end = n, !.head = IF @ = Nil THEN n ELSE @]

(* removeNode(n) dereferences a nil pointer: l.end or l.head is nil with n,*)
(* or n, in the middle of the list, lacks a neighbour.                     *)
BadRemove(l, n) ==
    \/ n = Nil
    \/ n \notin {l.end, l.head} /\ Nil \in {l.pre[n], l.next[n]}

removeNode(l, n) ==
    IF n = l.end THEN [l EXCEPT !.end = l.pre[n]]
    ELSE IF n = l.head THEN [l EXCEPT !.head = l.next[n]]
    ELSE [l EXCEPT !.next[l.pre[n]] = l.next[n], !.pre[l.next[n]] = l.pre[n]]

BadRefresh(l, n) == n # l.end /\ BadRemove(l, n)

(* Mutant of refreshNode: a first-in first-out cache.                      *)
refreshNodeNot(l, n) == l

refreshNode(l, n) == IF n = l.end THEN l ELSE addNode(removeNode(l, n), n)

Size(l) == Cardinality({k \in Key : l.Map[k] # Nil})

(* The operation ends with list l2, or panics.                             *)
Finish(bad, l2) ==
    /\ ~panicked
    /\ panicked' = bad
    /\ list' = IF bad THEN list ELSE l2

-----------------------------------------------------------------------------
get(k) ==
    LET n == list.Map[k]
    IN  /\ IF n = Nil THEN Finish(FALSE, list) ELSE Finish(BadRefresh(list, n), refreshNode(list, n))
        /\ ret' = IF n = Nil THEN Nil ELSE list.value[n]
        /\ UNCHANGED used

(* put of a key that is in the map                                         *)
putOld(k, v) ==
    LET n == list.Map[k]
    IN  /\ n # Nil
        /\ Finish(BadRefresh(list, n), refreshNode([list EXCEPT !.value[n] = v], n))
        /\ ret' = Nil
        /\ UNCHANGED used

IsFull(l) == Capacity > 0 /\ Size(l) >= Capacity

(* put of a new key, in a node n that nothing refers to                    *)
putNew(k, v) ==
    LET full == IsFull(list)
        freed == IF full THEN [removeNode(list, list.head) EXCEPT !.Map[list.key[list.head]] = Nil] ELSE list
    IN  /\ list.Map[k] = Nil
        /\ \E n \in Node \ used :
             /\ \A m \in Node \ used : n <= m
             /\ used' = used \cup {n}
             /\ Finish(full /\ BadRemove(list, list.head),
                       addNode([freed EXCEPT !.key[n] = k, !.value[n] = v, !.Map[k] = n], n))
        /\ ret' = Nil

evict(k) ==
    LET n == list.Map[k]
    IN  /\ n # Nil => EvictsLast \/ Size(list) > 1
        /\ IF n = Nil THEN Finish(FALSE, list)
           ELSE Finish(BadRemove(list, n), [removeNode(list, n) EXCEPT !.Map[list.key[n]] = Nil])
        /\ ret' = Nil
        /\ UNCHANGED used

Next ==
    \E k \in Key :
        \/ get(k)
        \/ evict(k)
        \/ \E v \in Value : putOld(k, v) \/ putNew(k, v)

Spec == Init /\ [][Next]_vars

-----------------------------------------------------------------------------
(* Sequence w of nodes, one further along the list unless w is at its end. *)
Onward(l, w) ==
    IF w[Len(w)] \in {l.end, Nil} THEN w ELSE Append(w, l.next[w[Len(w)]])

(* The nodes from head along the next pointers, up to end.                 *)
Walk(l) ==
    LET walk[i \in 0 .. Cardinality(Node)] ==
            IF i = 0 THEN <<l.head>> ELSE Onward(l, walk[i - 1])
    IN  IF \A k \in Key : l.Map[k] = Nil THEN <<>> ELSE walk[Cardinality(Node)]

(* Their keys.                                                             *)
Chain(l) == [i \in 1 .. Len(Walk(l)) |-> IF Walk(l)[i] = Nil THEN Nil ELSE l.key[Walk(l)[i]]]

(* What get finds for each key.                                            *)
Content(l) == [k \in Key |-> IF l.Map[k] = Nil THEN Nil ELSE l.value[l.Map[k]]]

L == INSTANCE Lru WITH recent <- Chain(list), content <- Content(list)

(* The linked list and the map together are a cache that forgets exactly   *)
(* the key used longest ago, and get returns the value put last            *)
(* (lru_cache.go lines 62-142), as long as the only entry is never taken   *)
(* out: by evict, or by put into a cache of capacity 1.                    *)
ImplementsLru == L!Spec

(* An entry can be used after another one was evicted: no operation meets  *)
(* a nil pointer in the list.                                              *)
NeverPanics == ~panicked
=============================================================================
