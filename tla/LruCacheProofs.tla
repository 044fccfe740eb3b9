--------------------------- MODULE LruCacheProofs ---------------------------
(***************************************************************************)
(* Proofs about LruCache.  Every reachable list is threaded on a sequence  *)
(* of distinct nodes: head is its first, end its last, and next and pre    *)
(* lead from each node to its neighbours.  Nothing is claimed of the other *)
(* pointers: next of end, pre of head and the fields of nodes taken out.   *)
(***************************************************************************)
EXTENDS LruCache, FiniteSetTheorems, WellFoundedInduction, TLAPS

(* s is the list from head to end.                                         *)
Linked(l, s) ==
    /\ \A i, j \in 1 .. Len(s) : s[i] = s[j] => i = j
    /\ \A i \in 1 .. Len(s) - 1 : l.next[s[i]] = s[i + 1] /\ l.pre[s[i + 1]] = s[i]
    /\ Len(s) = 0 => l.head = Nil /\ l.end = Nil
    /\ Len(s) > 0 => l.head = s[1] /\ l.end = s[Len(s)]

Nodes(s) == {s[i] : i \in 1 .. Len(s)}

(* The map leads exactly to the nodes of S, to each under its own key.     *)
Keyed(l, S) ==
    /\ \A k \in Key : l.Map[k] # Nil => l.Map[k] \in S /\ l.key[l.Map[k]] = k
    /\ \A n \in S : l.key[n] \in Key /\ l.Map[l.key[n]] = n /\ l.value[n] \in Value

Threaded(l, s, u) == Linked(l, s) /\ Keyed(l, Nodes(s)) /\ Nodes(s) \subseteq u

CacheInv == TypeOK /\ ~panicked /\ \E s \in Seq(Node) : Threaded(list, s, used)

(* The conditions under which the only entry is never taken out.           *)
KeepsLast == EvictsLast = FALSE /\ Capacity # 1

-----------------------------------------------------------------------------
(* Sequence s without its element number i.                                *)
Del(s, i) == [j \in 1 .. Len(s) - 1 |-> IF j < i THEN s[j] ELSE s[j + 1]]

LEMMA DelFacts ==
    ASSUME NEW S, NEW s \in Seq(S), NEW i \in 1 .. Len(s)
    PROVE  /\ Del(s, i) \in Seq(S)
           /\ Len(Del(s, i)) = Len(s) - 1
           /\ \A j \in 1 .. Len(s) - 1 : Del(s, i)[j] = IF j < i THEN s[j] ELSE s[j + 1]
  <1>1. Len(s) - 1 \in Nat
    BY SMTT(30)
  <1>2. \A j \in 1 .. Len(s) - 1 : (IF j < i THEN s[j] ELSE s[j + 1]) \in S
    BY SMTT(30)
  <1> QED  BY <1>1, <1>2, SMTT(30) DEF Del

LEMMA AppendFacts ==
    ASSUME NEW S, NEW s \in Seq(S), NEW e \in S
    PROVE  /\ Append(s, e) \in Seq(S)
           /\ Len(Append(s, e)) = Len(s) + 1
           /\ \A j \in 1 .. Len(s) : Append(s, e)[j] = s[j]
           /\ Append(s, e)[Len(s) + 1] = e
  BY SMTT(30)

(* removeNode and addNode, field by field.                                 *)
Unlinked(r, l, n) ==
    /\ r \in List /\ r.Map = l.Map /\ r.key = l.key /\ r.value = l.value
    /\ r.end = IF n = l.end THEN l.pre[n] ELSE l.end
    /\ r.head = IF n # l.end /\ n = l.head THEN l.next[n] ELSE l.head
    /\ r.next = IF n \in {l.end, l.head} THEN l.next ELSE [l.next EXCEPT ![l.pre[n]] = l.next[n]]
    /\ r.pre = IF n \in {l.end, l.head} THEN l.pre ELSE [l.pre EXCEPT ![l.next[n]] = l.pre[n]]

LEMMA RemoveFields ==
    ASSUME NEW l \in List, NEW n \in Node, ~BadRemove(l, n)
    PROVE  Unlinked(removeNode(l, n), l, n)
  <1>1. CASE n = l.end
    BY <1>1, Zenon DEF List, Pointer, removeNode, Unlinked
  <1>2. CASE n # l.end /\ n = l.head
    BY <1>2, Zenon DEF List, Pointer, removeNode, Unlinked
  <1>3. CASE n # l.end /\ n # l.head
    BY <1>3, Zenon DEF List, Pointer, removeNode, BadRemove, Unlinked
  <1> QED  BY <1>1, <1>2, <1>3, Zenon

LEMMA AddFields ==
    ASSUME NEW l \in List, NEW n \in Node
    PROVE  /\ addNode(l, n) \in List
           /\ addNode(l, n).Map = l.Map
           /\ addNode(l, n).key = l.key
           /\ addNode(l, n).value = l.value
           /\ addNode(l, n).end = n
           /\ addNode(l, n).head = IF l.head = Nil THEN n ELSE l.head
           /\ addNode(l, n).next = IF l.end = Nil THEN l.next
                                   ELSE [l.next EXCEPT ![l.end] = n, ![n] = Nil]
           /\ addNode(l, n).pre = IF l.end = Nil THEN l.pre ELSE [l.pre EXCEPT ![n] = l.end]
  <1>1. CASE l.end = Nil
    BY <1>1, Zenon DEF List, Pointer, addNode
  <1>2. CASE l.end # Nil
    BY <1>2, Zenon DEF List, Pointer, addNode
  <1> QED  BY <1>1, <1>2, Zenon

-----------------------------------------------------------------------------
(* A node of a list of two or more comes out of it.                        *)
LEMMA RemoveLinked ==
    ASSUME NEW l \in List, NEW s \in Seq(Node), Linked(l, s),
           NEW i \in 1 .. Len(s), Len(s) > 1
    PROVE  ~BadRemove(l, s[i]) /\ Linked(removeNode(l, s[i]), Del(s, i))
  <1>1. s[i] \in Node /\ s[i] # Nil
    BY CacheAssumption, SMTT(30)
  <1>2. l.end = s[Len(s)] /\ l.head = s[1]
    BY SMTT(30) DEF Linked
  <1>3. /\ s[i] = l.end <=> i = Len(s)
        /\ s[i] = l.head <=> i = 1
    BY <1>2, SMTT(30) DEF Linked
  <1>4. i > 1 => l.pre[s[i]] = s[i - 1]
    BY SMTT(30) DEF Linked
  <1>5. i < Len(s) => l.next[s[i]] = s[i + 1]
    BY SMTT(30) DEF Linked
  <1>6. ~BadRemove(l, s[i])
    BY <1>1, <1>3, <1>4, <1>5, CacheAssumption, SMTT(30) DEF BadRemove
  <1> DEFINE r == removeNode(l, s[i])
             d == Del(s, i)
  <1>7. /\ d \in Seq(Node) /\ Len(d) = Len(s) - 1
        /\ \A j \in 1 .. Len(s) - 1 : d[j] = IF j < i THEN s[j] ELSE s[j + 1]
    BY DelFacts, Zenon
  <1>8. /\ r.end = IF i = Len(s) THEN s[Len(s) - 1] ELSE s[Len(s)]
        /\ r.head = IF i = 1 THEN s[2] ELSE s[1]
        /\ r.next = IF i \in {1, Len(s)} THEN l.next ELSE [l.next EXCEPT ![s[i - 1]] = s[i + 1]]
        /\ r.pre = IF i \in {1, Len(s)} THEN l.pre ELSE [l.pre EXCEPT ![s[i + 1]] = s[i - 1]]
    <2>1. /\ r.end = IF s[i] = l.end THEN l.pre[s[i]] ELSE l.end
          /\ r.head = IF s[i] # l.end /\ s[i] = l.head THEN l.next[s[i]] ELSE l.head
          /\ r.next = IF s[i] \in {l.end, l.head} THEN l.next
                      ELSE [l.next EXCEPT ![l.pre[s[i]]] = l.next[s[i]]]
          /\ r.pre = IF s[i] \in {l.end, l.head} THEN l.pre
                     ELSE [l.pre EXCEPT ![l.next[s[i]]] = l.pre[s[i]]]
      <3>1. Unlinked(r, l, s[i])
        BY <1>1, <1>6, RemoveFields, Zenon
      <3> HIDE DEF r
      <3> QED  BY <3>1, Zenon DEF Unlinked
    <2> HIDE DEF r
    <2>2. CASE i = 1
      <3>1. s[1] # l.end /\ l.next[s[1]] = s[2] /\ 1 # Len(s)
        BY <1>3, <1>5, <2>2, SMTT(30)
      <3> QED  BY <1>2, <2>1, <2>2, <3>1, Zenon
    <2>3. CASE i = Len(s)
      <3>1. s[i] = l.end /\ l.pre[s[i]] = s[Len(s) - 1] /\ i # 1
        BY <1>3, <1>4, <2>3, SMTT(30)
      <3> QED  BY <1>2, <2>1, <2>3, <3>1, Zenon
    <2>4. CASE i \notin {1, Len(s)}
      <3>1. l.pre[s[i]] = s[i - 1] /\ l.next[s[i]] = s[i + 1]
        BY <1>4, <1>5, <2>4, SMTT(30)
      <3> QED  BY <1>2, <1>3, <2>1, <2>4, <3>1, Zenon
    <2> QED  BY <2>2, <2>3, <2>4, Zenon
  <1> HIDE DEF r, d
  <1>9. ASSUME NEW j \in 1 .. Len(d), NEW k \in 1 .. Len(d), d[j] = d[k]
        PROVE  j = k
    <2>1. s[IF j < i THEN j ELSE j + 1] = s[IF k < i THEN k ELSE k + 1]
      BY <1>7, <1>9, Zenon
    <2>2. (IF j < i THEN j ELSE j + 1) = (IF k < i THEN k ELSE k + 1)
      BY <1>7, <2>1, SMTT(30) DEF Linked
    <2> QED  BY <1>7, <2>2, SMTT(30)
  <1>10. d[1] = r.head /\ d[Len(d)] = r.end /\ Len(d) > 0
    BY <1>7, <1>8, SMTT(30)
  <1>11. ASSUME NEW j \in 1 .. Len(d) - 1
         PROVE  r.next[d[j]] = d[j + 1] /\ r.pre[d[j + 1]] = d[j]
    <2>0. j \in 1 .. Len(s) - 1 /\ j + 1 \in 1 .. Len(s) - 1 /\ j + 2 \in 1 .. Len(s)
      BY <1>7, SMTT(30)
    <2>1. l.next \in [Node -> Pointer] /\ l.pre \in [Node -> Pointer]
      BY Zenon DEF List
    <2>2. CASE j + 1 < i
      <3>1. d[j] = s[j] /\ d[j + 1] = s[j + 1]
        BY <1>7, <2>0, <2>2, SMTT(30)
      <3>2. l.next[s[j]] = s[j + 1] /\ l.pre[s[j + 1]] = s[j]
        BY <2>0, Zenon DEF Linked
      <3>3. i # 1 => s[j] # s[i - 1] 
        BY <2>0, <2>2, SMTT(30) DEF Linked
      <3>4. i # Len(s) => s[j + 1] # s[i + 1]
        BY <2>0, <2>2, SMTT(30) DEF Linked
      <3> QED  BY <1>8, <2>1, <3>1, <3>2, <3>3, <3>4, <2>0, SMTT(30)
    <2>3. CASE j + 1 = i
      <3>1. d[j] = s[i - 1] /\ d[j + 1] = s[i + 1]
        BY <1>7, <2>0, <2>3, SMTT(30)
      <3>2. i # 1 /\ i # Len(s)
        BY <2>0, <2>3, SMTT(30)
      <3> QED  BY <1>8, <2>1, <3>1, <3>2, <2>0, <2>3, SMTT(30)
    <2>4. CASE j + 1 > i
      <3>1. d[j] = s[j + 1] /\ d[j + 1] = s[j + 2]
        BY <1>7, <2>0, <2>4, SMTT(30)
      <3>2. l.next[s[j + 1]] = s[j + 2] /\ l.pre[s[j + 2]] = s[j + 1]
        BY <2>0, SMTT(30) DEF Linked
      <3>3. i # 1 => s[j + 1] # s[i - 1]
        BY <2>0, <2>4, SMTT(30) DEF Linked
      <3>4. i # Len(s) => s[j + 2] # s[i + 1]
        BY <2>0, <2>4, SMTT(30) DEF Linked
      <3> QED  BY <1>8, <2>1, <3>1, <3>2, <3>3, <3>4, <2>0, SMTT(30)
    <2> QED  BY <2>0, <2>2, <2>3, <2>4, SMTT(30)
  <1>12. Linked(r, d)
    BY <1>7, <1>9, <1>10, <1>11, SMTT(30) DEF Linked
  <1> QED  BY <1>6, <1>12, Zenon DEF r, d

(* A node that is not in the list goes to its end.                         *)
LEMMA AddLinked ==
    ASSUME NEW l \in List, NEW s \in Seq(Node), Linked(l, s),
           NEW n \in Node, \A i \in 1 .. Len(s) : s[i] # n
    PROVE  Linked(addNode(l, n), Append(s, n))
  <1> DEFINE r == addNode(l, n)
             d == Append(s, n)
  <1>1. /\ d \in Seq(Node) /\ Len(d) = Len(s) + 1
        /\ \A j \in 1 .. Len(s) : d[j] = s[j]
        /\ d[Len(s) + 1] = n
    BY AppendFacts, SMTT(30)
  <1>2. /\ r.end = n
        /\ r.head = IF l.head = Nil THEN n ELSE l.head
        /\ r.next = IF l.end = Nil THEN l.next ELSE [l.next EXCEPT ![l.end] = n, ![n] = Nil]
        /\ r.pre = IF l.end = Nil THEN l.pre ELSE [l.pre EXCEPT ![n] = l.end]
    BY AddFields, Zenon
  <1> SUFFICES Linked(r, d)
    BY Zenon
  <1> HIDE DEF r, d
  <1>3. \A j, k \in 1 .. Len(d) : d[j] = d[k] => j = k
    BY <1>1, SMTT(30) DEF Linked
  <1>4. CASE Len(s) = 0
    <2>1. l.head = Nil
      BY <1>4, Zenon DEF Linked
    <2> QED  BY <1>1, <1>2, <1>3, <1>4, <2>1, SMTT(30) DEF Linked
  <1>5. CASE Len(s) > 0
    <2>1. l.head = s[1] /\ l.end = s[Len(s)] /\ l.head # Nil /\ l.end # Nil /\ l.end \in Node
      BY <1>5, CacheAssumption, SMTT(30) DEF Linked
    <2>2. l.next \in [Node -> Pointer] /\ l.pre \in [Node -> Pointer]
      BY Zenon DEF List
    <2>3. r.head = d[1] /\ r.end = d[Len(d)]
      BY <1>1, <1>2, <1>5, <2>1, SMTT(30)
    <2>4. ASSUME NEW j \in 1 .. Len(d) - 1
          PROVE  r.next[d[j]] = d[j + 1] /\ r.pre[d[j + 1]] = d[j]
      <3>1. CASE j = Len(s)
        BY <1>1, <1>2, <2>1, <2>2, <3>1, SMTT(30)
      <3>2. CASE j < Len(s)
        <4>1. j \in 1 .. Len(s) - 1 /\ d[j] = s[j] /\ d[j + 1] = s[j + 1]
          BY <1>1, <3>2, SMTT(30)
        <4>2. l.next[s[j]] = s[j + 1] /\ l.pre[s[j + 1]] = s[j] /\ s[j] # l.end
          BY <4>1, <2>1, SMTT(30) DEF Linked
        <4> QED  BY <1>2, <2>1, <2>2, <4>1, <4>2, SMTT(30)
      <3> QED  BY <1>1, <3>1, <3>2, SMTT(30)
    <2> QED  BY <1>1, <1>3, <1>5, <2>3, <2>4, SMTT(30) DEF Linked
  <1> QED  BY <1>4, <1>5, SMTT(30)

(* s with its element number i moved to the end.                           *)
Move(s, i) == Append(Del(s, i), s[i])

LEMMA NodesAppend ==
    ASSUME NEW s \in Seq(Node), NEW n \in Node
    PROVE  Nodes(Append(s, n)) = Nodes(s) \cup {n}
  <1>1. /\ Len(Append(s, n)) = Len(s) + 1
        /\ \A j \in 1 .. Len(s) : Append(s, n)[j] = s[j]
        /\ Append(s, n)[Len(s) + 1] = n
    BY AppendFacts, SMTT(30)
  <1> DEFINE d == Append(s, n)
  <1> HIDE DEF d
  <1>2. ASSUME NEW j \in 1 .. Len(s) + 1
        PROVE  d[j] \in Nodes(s) \cup {n}
    BY <1>1, SMTT(30) DEF Nodes, d
  <1>3. ASSUME NEW j \in 1 .. Len(s)
        PROVE  s[j] \in Nodes(d)
    BY <1>1, SMTT(30) DEF Nodes, d
  <1>4. n \in Nodes(d)
    BY <1>1, SMTT(30) DEF Nodes, d
  <1> QED  BY <1>1, <1>2, <1>3, <1>4, Zenon DEF Nodes, d

LEMMA NodesFacts ==
    ASSUME NEW l, NEW s \in Seq(Node), Linked(l, s), NEW i \in 1 .. Len(s)
    PROVE  /\ Nodes(Del(s, i)) = Nodes(s) \ {s[i]}
           /\ \A j \in 1 .. Len(Del(s, i)) : Del(s, i)[j] # s[i]
           /\ Move(s, i) \in Seq(Node) /\ Len(Move(s, i)) = Len(s)
           /\ Nodes(Move(s, i)) = Nodes(s)
           /\ i = Len(s) => Move(s, i) = s
  <1> DEFINE d == Del(s, i)
             m == Move(s, i)
  <1>1. /\ d \in Seq(Node) /\ Len(d) = Len(s) - 1
        /\ \A j \in 1 .. Len(s) - 1 : d[j] = IF j < i THEN s[j] ELSE s[j + 1]
    BY DelFacts, Zenon
  <1>2. m = Append(d, s[i]) /\ s[i] \in Node
    BY SMTT(30) DEF Move
  <1> SUFFICES /\ Nodes(d) = Nodes(s) \ {s[i]}
               /\ \A j \in 1 .. Len(d) : d[j] # s[i]
               /\ m \in Seq(Node) /\ Len(m) = Len(s)
               /\ Nodes(m) = Nodes(s)
               /\ i = Len(s) => m = s
    BY Zenon
  <1> HIDE DEF d, m
  <1>3. ASSUME NEW j \in 1 .. Len(d)
        PROVE  d[j] \in Nodes(s) /\ d[j] # s[i]
    <2>1. CASE j < i
      BY <1>1, <2>1, SMTT(30) DEF Nodes, Linked
    <2>2. CASE ~(j < i)
      <3>1. d[j] = s[j + 1] /\ j + 1 \in 1 .. Len(s) /\ j + 1 # i
        BY <1>1, <2>2, SMTT(30)
      <3> QED  BY <3>1, SMTT(30) DEF Nodes, Linked
    <2> QED  BY <2>1, <2>2, Zenon
  <1>4. ASSUME NEW j \in 1 .. Len(s), s[j] # s[i]
        PROVE  s[j] \in Nodes(d)
    <2>1. CASE j < i
      BY <1>1, <2>1, SMTT(30) DEF Nodes
    <2>2. CASE j > i
      <3>1. j - 1 \in 1 .. Len(d) /\ d[j - 1] = s[j]
        BY <1>1, <2>2, SMTT(30)
      <3> QED  BY <3>1, Zenon DEF Nodes
    <2> QED  BY <1>4, <2>1, <2>2, SMTT(30)
  <1>5. Nodes(d) = Nodes(s) \ {s[i]}
    BY <1>3, <1>4, Zenon DEF Nodes
  <1>6. /\ m \in Seq(Node) /\ Len(m) = Len(s)
        /\ \A j \in 1 .. Len(d) : m[j] = d[j]
        /\ m[Len(s)] = s[i]
    <2>1. /\ m \in Seq(Node) /\ Len(m) = Len(d) + 1
          /\ \A j \in 1 .. Len(d) : m[j] = d[j]
          /\ m[Len(d) + 1] = s[i]
      BY <1>1, <1>2, AppendFacts, SMTT(30)
    <2> QED  BY <1>1, <2>1, SMTT(30)
  <1>7. Nodes(m) = Nodes(s)
    <2>1. Nodes(m) = Nodes(d) \cup {s[i]}
      BY <1>1, <1>2, NodesAppend, Zenon
    <2>2. s[i] \in Nodes(s)
      BY Zenon DEF Nodes
    <2> QED  BY <1>5, <2>1, <2>2, Zenon
  <1>8. ASSUME i = Len(s)
        PROVE  m = s
    <2>1. \A j \in 1 .. Len(s) : m[j] = s[j]
      BY <1>1, <1>6, <1>8, SMTT(30)
    <2> QED  BY <1>6, <2>1, SMTT(30)
  <1> QED  BY <1>3, <1>5, <1>6, <1>7, <1>8, Zenon

(* Only the pointers matter to Linked.                                     *)
LEMMA LinkedFrame ==
    ASSUME NEW l, NEW r, NEW s, Linked(l, s),
           r.head = l.head, r.end = l.end, r.next = l.next, r.pre = l.pre
    PROVE  Linked(r, s)
  BY Zenon DEF Linked

-----------------------------------------------------------------------------
(* refreshNode moves a node of the list to its end.                        *)
LEMMA Refreshed ==
    ASSUME NEW l \in List, NEW s \in Seq(Node), NEW u, Threaded(l, s, u), NEW i \in 1 .. Len(s)
    PROVE  /\ ~BadRefresh(l, s[i])
           /\ refreshNode(l, s[i]) \in List
           /\ refreshNode(l, s[i]).Map = l.Map
           /\ refreshNode(l, s[i]).key = l.key
           /\ refreshNode(l, s[i]).value = l.value
           /\ Threaded(refreshNode(l, s[i]), Move(s, i), u)
  <1> DEFINE n == s[i]
             r == refreshNode(l, n)
             m == Move(s, i)
             d == Del(s, i)
             g == removeNode(l, n)
  <1>1. n \in Node /\ Linked(l, s)
    BY SMTT(30) DEF Threaded
  <1>2. m \in Seq(Node) /\ Nodes(m) = Nodes(s) /\ (i = Len(s) => m = s)
    BY <1>1, NodesFacts, Zenon
  <1>3. /\ ~BadRefresh(l, n) /\ r \in List /\ Linked(r, m)
        /\ r.Map = l.Map /\ r.key = l.key /\ r.value = l.value
    <2>1. n = l.end <=> i = Len(s)
      BY <1>1, SMTT(30) DEF Linked
    <2>2. CASE n = l.end
      BY <1>1, <1>2, <2>1, <2>2, Zenon DEF BadRefresh, refreshNode
    <2>3. CASE n # l.end
      <3>1. Len(s) > 1
        BY <2>1, <2>3, SMTT(30)
      <3>2. ~BadRemove(l, n) /\ Linked(g, d)
        BY <1>1, <3>1, RemoveLinked, Zenon
      <3>3. g \in List /\ g.Map = l.Map /\ g.key = l.key /\ g.value = l.value
        BY <1>1, <3>2, RemoveFields, Zenon DEF Unlinked
      <3>4. d \in Seq(Node) /\ \A j \in 1 .. Len(d) : d[j] # n
        BY <1>1, DelFacts, NodesFacts, Zenon
      <3>5. r = addNode(g, n) /\ m = Append(d, n)
        BY <2>3, Zenon DEF refreshNode, Move
      <3> HIDE DEF g, d, r, m, n
      <3>6. r \in List /\ r.Map = g.Map /\ r.key = g.key /\ r.value = g.value
        BY <1>1, <3>3, <3>5, AddFields, Zenon
      <3>7. Linked(r, m)
        BY <1>1, <3>2, <3>3, <3>4, <3>5, AddLinked, Zenon
      <3> QED  BY <3>2, <3>3, <3>6, <3>7, Zenon DEF BadRefresh
    <2> QED  BY <2>2, <2>3, Zenon
  <1> HIDE DEF n, r, m
  <1>4. Keyed(r, Nodes(m)) /\ Nodes(m) \subseteq u
    BY <1>2, <1>3, Zenon DEF Keyed, Threaded
  <1>5. Threaded(r, m, u)
    BY <1>3, <1>4, Zenon DEF Threaded
  <1> QED  BY <1>3, <1>5, Zenon DEF n, r, m

(* An entry gets a new value.                                              *)
LEMMA Valued ==
    ASSUME NEW l \in List, NEW s \in Seq(Node), NEW u, Threaded(l, s, u),
           NEW n \in Node, NEW v \in Value
    PROVE  LET r == [l EXCEPT !.value[n] = v]
           IN  /\ r \in List
               /\ r.Map = l.Map /\ r.key = l.key /\ r.value = [l.value EXCEPT ![n] = v]
               /\ r.end = l.end /\ r.head = l.head /\ r.pre = l.pre /\ r.next = l.next
               /\ Threaded(r, s, u)
  <1> DEFINE r == [l EXCEPT !.value[n] = v]
  <1>1. /\ r \in List
        /\ r.Map = l.Map /\ r.key = l.key /\ r.value = [l.value EXCEPT ![n] = v]
        /\ r.end = l.end /\ r.head = l.head /\ r.pre = l.pre /\ r.next = l.next
    BY Zenon DEF List
  <1>2. l.value \in [Node -> Value \cup {Nil}]
    BY Zenon DEF List
  <1> SUFFICES Threaded(r, s, u)
    BY <1>1, Zenon
  <1> HIDE DEF r
  <1>3. Linked(r, s)
    BY <1>1, LinkedFrame, Zenon DEF Threaded
  <1>4. Nodes(s) \subseteq Node
    BY SMTT(30) DEF Nodes
  <1>5. Keyed(r, Nodes(s))
    BY <1>1, <1>2, <1>4, SMTT(30) DEF Keyed, Threaded
  <1> QED  BY <1>3, <1>5, Zenon DEF Threaded

(* An entry is taken out of a list of two or more.                         *)
Taken(l, n) == [removeNode(l, n) EXCEPT !.Map[l.key[n]] = Nil]

Takes(l, r, s, i, u) ==
    /\ r \in List
    /\ r.Map = [l.Map EXCEPT ![l.key[s[i]]] = Nil]
    /\ r.key = l.key
    /\ r.value = l.value
    /\ Threaded(r, Del(s, i), u)

LEMMA TakenOut ==
    ASSUME NEW l \in List, NEW s \in Seq(Node), NEW u, Threaded(l, s, u),
           NEW i \in 1 .. Len(s), Len(s) > 1
    PROVE  ~BadRemove(l, s[i]) /\ Takes(l, Taken(l, s[i]), s, i, u)
  <1> DEFINE n == s[i]
             g == removeNode(l, n)
             t == Taken(l, n)
             d == Del(s, i)
  <1>1. n \in Node /\ n \in Nodes(s) /\ Linked(l, s) /\ Keyed(l, Nodes(s)) /\ l.key[n] \in Key
    BY SMTT(30) DEF Threaded, Nodes, Keyed
  <1>2. ~BadRemove(l, n) /\ Linked(g, d)
    BY <1>1, RemoveLinked, Zenon
  <1>3. g \in List /\ g.Map = l.Map /\ g.key = l.key /\ g.value = l.value
    BY <1>1, <1>2, RemoveFields, Zenon DEF Unlinked
  <1>4. Nodes(d) = Nodes(s) \ {n}
    BY <1>1, NodesFacts, Zenon
  <1>5. t = [g EXCEPT !.Map[l.key[n]] = Nil]
    BY Zenon DEF Taken
  <1> HIDE DEF g, t, d, n
  <1>6. /\ t \in List /\ t.Map = [l.Map EXCEPT ![l.key[n]] = Nil]
        /\ t.key = l.key /\ t.value = l.value
        /\ t.head = g.head /\ t.end = g.end /\ t.next = g.next /\ t.pre = g.pre
    BY <1>1, <1>3, <1>5, Zenon DEF List, Pointer
  <1>7. Linked(t, d)
    BY <1>2, <1>6, LinkedFrame, Zenon
  <1>8. Keyed(t, Nodes(d))
    <2>1. l.Map \in [Key -> Pointer]
      BY Zenon DEF List
    <2> QED  BY <1>1, <1>4, <1>6, <2>1, SMTT(30) DEF Keyed
  <1>9. Nodes(d) \subseteq u
    BY <1>4, Zenon DEF Threaded
  <1>10. Threaded(t, d, u)
    BY <1>7, <1>8, <1>9, Zenon DEF Threaded
  <1> QED  BY <1>2, <1>6, <1>10, Zenon DEF t, d, n, Takes

(* A new entry is put at the end.                                          *)
Filled(l, k, v, n) == [l EXCEPT !.key[n] = k, !.value[n] = v, !.Map[k] = n]

Puts(l, r, s, u, k, v, n) ==
    /\ r \in List
    /\ r.Map = [l.Map EXCEPT ![k] = n]
    /\ r.key = [l.key EXCEPT ![n] = k]
    /\ r.value = [l.value EXCEPT ![n] = v]
    /\ Threaded(r, Append(s, n), u \cup {n})

LEMMA PutIn ==
    ASSUME NEW l \in List, NEW s \in Seq(Node), NEW u, Threaded(l, s, u),
           NEW k \in Key, NEW v \in Value, NEW n \in Node, n \notin u, l.Map[k] = Nil,
           NEW r, r = addNode(Filled(l, k, v, n), n)
    PROVE  Puts(l, r, s, u, k, v, n)
  <1> DEFINE f == Filled(l, k, v, n)
             d == Append(s, n)
  <1>0. r = addNode(f, n)
    BY Zenon
  <1>1. /\ f \in List /\ f.Map = [l.Map EXCEPT ![k] = n]
        /\ f.key = [l.key EXCEPT ![n] = k] /\ f.value = [l.value EXCEPT ![n] = v]
        /\ f.head = l.head /\ f.end = l.end /\ f.next = l.next /\ f.pre = l.pre
    BY Zenon DEF Filled, List, Pointer
  <1> HIDE DEF f
  <1>2. r \in List /\ r.Map = f.Map /\ r.key = f.key /\ r.value = f.value
    <2>1. /\ addNode(f, n) \in List /\ addNode(f, n).Map = f.Map
          /\ addNode(f, n).key = f.key /\ addNode(f, n).value = f.value
      BY <1>1, AddFields, ZenonT(30)
    <2> QED  BY <1>0, <2>1, Zenon
  <1>3. Linked(f, s)
    BY <1>1, LinkedFrame, Zenon DEF Threaded
  <1>4. n \notin Nodes(s) /\ \A i \in 1 .. Len(s) : s[i] # n
    BY Zenon DEF Threaded, Nodes
  <1>5. Linked(r, d)
    BY <1>0, <1>1, <1>3, <1>4, AddLinked, SMTT(30)
  <1>6. Nodes(d) = Nodes(s) \cup {n}
    BY NodesAppend, Zenon
  <1> SUFFICES Threaded(r, d, u \cup {n})
    BY <1>1, <1>2, Zenon DEF Puts
  <1> HIDE DEF d
  <1>7. Keyed(r, Nodes(d))
    <2>1. /\ l.Map \in [Key -> Pointer] /\ l.key \in [Node -> Key \cup {Nil}]
          /\ l.value \in [Node -> Value \cup {Nil}]
      BY Zenon DEF List
    <2>0. /\ \A q \in Key : r.Map[q] = IF q = k THEN n ELSE l.Map[q]
          /\ \A m \in Node : r.key[m] = IF m = n THEN k ELSE l.key[m]
          /\ \A m \in Node : r.value[m] = IF m = n THEN v ELSE l.value[m]
      <3>1. /\ r.Map = [l.Map EXCEPT ![k] = n] /\ r.key = [l.key EXCEPT ![n] = k]
            /\ r.value = [l.value EXCEPT ![n] = v]
        BY <1>1, <1>2, Zenon
      <3> QED  BY <2>1, <3>1, Zenon
    <2>2. Keyed(l, Nodes(s)) /\ Nodes(s) \subseteq Node
      BY SMTT(30) DEF Threaded, Nodes
    <2>3. ASSUME NEW q \in Key, r.Map[q] # Nil
          PROVE  r.Map[q] \in Nodes(d) /\ r.key[r.Map[q]] = q
      <3>1. CASE q = k
        BY <1>6, <2>0, <3>1, Zenon
      <3>2. CASE q # k
        <4>1. r.Map[q] = l.Map[q] /\ l.Map[q] # Nil
          BY <2>0, <2>3, <3>2, Zenon
        <4>2. l.Map[q] \in Nodes(s) /\ l.key[l.Map[q]] = q /\ l.Map[q] # n
          BY <1>4, <2>2, <4>1, Zenon DEF Keyed
        <4>3. r.key[l.Map[q]] = q
          BY <2>0, <2>2, <4>2, Zenon
        <4> QED  BY <1>6, <4>1, <4>2, <4>3, Zenon
      <3> QED  BY <3>1, <3>2, Zenon
    <2>4. ASSUME NEW q \in Nodes(d)
          PROVE  r.key[q] \in Key /\ r.Map[r.key[q]] = q /\ r.value[q] \in Value
      <3>1. CASE q = n
        BY <2>0, <3>1, Zenon
      <3>2. CASE q # n
        <4>1. q \in Nodes(s) /\ l.key[q] \in Key /\ l.Map[l.key[q]] = q /\ l.value[q] \in Value
          BY <1>6, <2>2, <3>2, Zenon DEF Keyed
        <4>2. l.key[q] # k /\ q \in Node
          BY <2>2, <4>1, CacheAssumption, Zenon
        <4> QED  BY <2>0, <3>2, <4>1, <4>2, Zenon
      <3> QED  BY <3>1, <3>2, Zenon
    <2> QED  BY <2>3, <2>4, Zenon DEF Keyed
  <1>8. Nodes(d) \subseteq u \cup {n}
    BY <1>6, Zenon DEF Threaded
  <1> QED  BY <1>5, <1>7, <1>8, Zenon DEF Threaded

-----------------------------------------------------------------------------
(* A set of numbers has a least one.                                       *)
LEMMA LeastNumber ==
    ASSUME NEW T, T \subseteq Nat, T # {}
    PROVE  \E x \in T : \A y \in T : x <= y
  <1> DEFINE R == {p \in Nat \X Nat : p[1] < p[2]}
  <1>1. IsWellFoundedOn(R, Nat)
    BY NatLessThanWellFounded, Zenon DEF OpToRel
  <1> HIDE DEF R
  <1>2. PICK x \in T : \A y \in T : ~(<<y, x>> \in R)
    BY <1>1, WFMin, Zenon
  <1>3. ASSUME NEW y \in T
        PROVE  x <= y
    <2>1. ~(<<y, x>> \in R) /\ <<y, x>> \in Nat \X Nat /\ x \in Nat /\ y \in Nat
      BY <1>2, Zenon
    <2>2. ~(y < x)
      BY <2>1, Zenon DEF R
    <2> QED  BY <2>1, <2>2, SMTT(30)
  <1> QED  BY <1>3, Zenon

(* The beginnings of a sequence.                                           *)
LEMMA FirstOf ==
    ASSUME NEW s \in Seq(Node), Len(s) > 0
    PROVE  SubSeq(s, 1, 1) = <<s[1]>>
  <1> DEFINE a == SubSeq(s, 1, 1)
             b == <<s[1]>>
  <1>1. a \in Seq(Node) /\ Len(a) = 1 /\ a[1] = s[1]
    BY SMTT(30)
  <1>2. b \in Seq(Node) /\ Len(b) = 1 /\ b[1] = s[1]
    BY SMTT(30)
  <1> HIDE DEF a, b
  <1>3. a = b
    BY <1>1, <1>2, SMTT(30)
  <1> QED  BY <1>3, Zenon DEF a, b

LEMMA PrefixFacts ==
    ASSUME NEW s \in Seq(Node), NEW i \in 1 .. Len(s) - 1
    PROVE  /\ SubSeq(s, 1, i)[Len(SubSeq(s, 1, i))] = s[i]
           /\ Append(SubSeq(s, 1, i), s[i + 1]) = SubSeq(s, 1, i + 1)
  <1> DEFINE a == SubSeq(s, 1, i)
             b == SubSeq(s, 1, i + 1)
             c == Append(a, s[i + 1])
  <1>1. /\ a \in Seq(Node) /\ Len(a) = i /\ \A j \in 1 .. i : a[j] = s[j]
        /\ b \in Seq(Node) /\ Len(b) = i + 1 /\ \A j \in 1 .. i + 1 : b[j] = s[j]
    BY SMTT(30)
  <1> HIDE DEF a, b
  <1>2. s[i + 1] \in Node
    BY SMTT(30)
  <1>3. c \in Seq(Node) /\ Len(c) = i + 1 /\ (\A j \in 1 .. i : c[j] = s[j]) /\ c[i + 1] = s[i + 1]
    BY <1>1, <1>2, AppendFacts, SMTT(30)
  <1> HIDE DEF c
  <1>4. \A j \in 1 .. i + 1 : c[j] = b[j]
    BY <1>1, <1>3, SMTT(30)
  <1>5. c = b
    BY <1>1, <1>3, <1>4, SMTT(30)
  <1>6. a[Len(a)] = s[i]
    BY <1>1, SMTT(30)
  <1> QED  BY <1>5, <1>6, Zenon DEF a, b, c

(* Walk follows the list from its head to its end.                         *)
LEMMA WalkFollows ==
    ASSUME NEW l \in List, NEW s \in Seq(Node), NEW u, Threaded(l, s, u)
    PROVE  Walk(l) = s
  <1>1. CASE Len(s) = 0
    <2>1. Nodes(s) = {}
      BY <1>1, SMTT(30) DEF Nodes
    <2>2. \A k \in Key : l.Map[k] = Nil
      BY <2>1, Zenon DEF Threaded, Keyed
    <2>3. s = <<>>
      BY <1>1, SMTT(30)
    <2> QED  BY <2>2, <2>3, Zenon DEF Walk
  <1>2. CASE Len(s) > 0
    <2> DEFINE C == Cardinality(Node)
               W == CHOOSE w : w = [i \in 0 .. C |-> IF i = 0 THEN <<l.head>> ELSE Onward(l, w[i - 1])]
    <2>1. Walk(l) = W[C]
      <3>1. s[1] \in Nodes(s) /\ s[1] # Nil
        BY <1>2, CacheAssumption, SMTT(30) DEF Nodes
      <3>2. ~\A k \in Key : l.Map[k] = Nil
        BY <3>1, Zenon DEF Threaded, Keyed
      <3> QED  BY <3>2, Zenon DEF Walk
    <2>2. C \in Nat /\ Len(s) <= C
      <3>1. s \in Injection(1 .. Len(s), Node)
        BY SMTT(30) DEF Threaded, Linked, Injection, IsInjective
      <3>2. Cardinality(1 .. Len(s)) = Len(s)
        <4>1. 1 \in Int /\ Len(s) \in Int /\ ~(1 > Len(s)) /\ Len(s) - 1 + 1 = Len(s)
          BY <1>2, SMTT(30)
        <4> QED  BY <4>1, FS_Interval, Zenon
      <3>3. C \in Nat
        BY FS_CardinalityType, CacheAssumption, Zenon
      <3> QED  BY <3>1, <3>2, <3>3, FS_Injection, CacheAssumption, SMTT(30)
    <2> DEFINE F == [i \in 0 .. C |-> SubSeq(s, 1, IF i < Len(s) THEN i + 1 ELSE Len(s))]
    <2>3. F = [i \in 0 .. C |-> IF i = 0 THEN <<l.head>> ELSE Onward(l, F[i - 1])]
      <3>1. F[0] = <<l.head>>
        <4>1. F[0] = SubSeq(s, 1, 1) /\ s[1] = l.head
          BY <1>2, <2>2, SMTT(30) DEF Threaded, Linked
        <4> QED  BY <1>2, <4>1, FirstOf, Zenon
      <3>2. ASSUME NEW i \in 0 .. C, i # 0
            PROVE  F[i] = Onward(l, F[i - 1])
        <4>1. i - 1 \in 0 .. C /\ i - 1 \in Nat /\ i \in Nat
          BY <2>2, <3>2, SMTT(30)
        <4>2. CASE i < Len(s)
          <5>1. F[i] = SubSeq(s, 1, i + 1) /\ F[i - 1] = SubSeq(s, 1, i)
            BY <2>2, <3>2, <4>1, <4>2, SMTT(30)
          <5>2. s[i] # l.end /\ s[i] # Nil /\ l.next[s[i]] = s[i + 1]
            BY <3>2, <4>1, <4>2, CacheAssumption, SMTT(30) DEF Threaded, Linked
          <5>3. /\ SubSeq(s, 1, i)[Len(SubSeq(s, 1, i))] = s[i]
                /\ Append(SubSeq(s, 1, i), s[i + 1]) = SubSeq(s, 1, i + 1)
            BY <3>2, <4>1, <4>2, PrefixFacts, SMTT(30)
          <5> HIDE DEF F
          <5> QED  BY <5>1, <5>2, <5>3, Zenon DEF Onward
        <4>3. CASE ~(i < Len(s))
          <5>1. F[i] = SubSeq(s, 1, Len(s)) /\ F[i - 1] = SubSeq(s, 1, Len(s))
            BY <2>2, <3>2, <4>1, <4>3, SMTT(30)
          <5>2. SubSeq(s, 1, Len(s)) = s /\ s[Len(s)] = l.end
            BY <1>2, SMTT(30) DEF Threaded, Linked
          <5> HIDE DEF F
          <5> QED  BY <5>1, <5>2, Zenon DEF Onward
        <4> QED  BY <4>2, <4>3, Zenon
      <3> QED  BY <2>2, <3>1, <3>2, Zenon
    <2>4. W = [i \in 0 .. C |-> IF i = 0 THEN <<l.head>> ELSE Onward(l, W[i - 1])]
      BY <2>3, Zenon
    <2> HIDE DEF W, F
    <2>5. ASSUME NEW i \in 0 .. C
          PROVE  W[i] = F[i]
      <3> DEFINE D == {j \in 0 .. C : W[j] # F[j]}
      <3> SUFFICES ASSUME D # {}
                   PROVE  FALSE
        BY Zenon
      <3>1. PICK j \in D : \A k \in D : j <= k
        <4>1. D \subseteq Nat
          BY <2>2, SMTT(30)
        <4> HIDE DEF D
        <4> QED  BY <4>1, LeastNumber, Zenon
      <3>2. j # 0 /\ j \in 0 .. C /\ j - 1 \in 0 .. C
        BY <2>2, <2>3, <2>4, SMTT(30)
      <3>3. j - 1 \notin D
        BY <3>1, <3>2, SMTT(30)
      <3>4. W[j] = Onward(l, W[j - 1]) /\ F[j] = Onward(l, F[j - 1])
        BY <2>3, <2>4, <3>2, Zenon
      <3> QED  BY <3>2, <3>3, <3>4, Zenon
    <2>6. F[C] = s
      BY <2>2, SMTT(30) DEF F
    <2> QED  BY <2>1, <2>2, <2>5, <2>6, SMTT(30)
  <1> QED  BY <1>1, <1>2, SMTT(30)

-----------------------------------------------------------------------------
(* The keys along s.                                                       *)
Keys(l, s) == [i \in 1 .. Len(s) |-> l.key[s[i]]]

LEMMA KeysFacts ==
    ASSUME NEW l \in List, NEW s \in Seq(Node)
    PROVE  /\ Keys(l, s) \in Seq(Key \cup {Nil})
           /\ Len(Keys(l, s)) = Len(s)
           /\ \A i \in 1 .. Len(s) : Keys(l, s)[i] = l.key[s[i]]
  <1>1. \A i \in 1 .. Len(s) : l.key[s[i]] \in Key \cup {Nil}
    BY SMTT(30) DEF List
  <1>2. Len(s) \in Nat
    BY SMTT(30)
  <1> QED  BY <1>1, <1>2, SMTT(30) DEF Keys

LEMMA ChainIs ==
    ASSUME NEW l \in List, NEW s \in Seq(Node), NEW u, Threaded(l, s, u)
    PROVE  Chain(l) = Keys(l, s)
  <1>1. Walk(l) = s
    BY WalkFollows, Zenon
  <1>2. \A i \in 1 .. Len(s) : s[i] # Nil
    BY CacheAssumption, SMTT(30)
  <1> QED  BY <1>1, <1>2, Zenon DEF Chain, Keys

(* No key occurs twice along s, and the keys along s are those in the map. *)
LEMMA KeysOnce ==
    ASSUME NEW l \in List, NEW s \in Seq(Node), NEW u, Threaded(l, s, u),
           NEW i \in 1 .. Len(s), NEW k, l.key[s[i]] = k
    PROVE  /\ k \in Key /\ l.Map[k] = s[i] /\ l.Map[k] # Nil
           /\ \A j \in 1 .. Len(s) : l.key[s[j]] = k => j = i
  <1>1. \A j \in 1 .. Len(s) : s[j] \in Nodes(s) /\ s[j] # Nil
    BY CacheAssumption, SMTT(30) DEF Nodes
  <1>2. \A j \in 1 .. Len(s) : l.Map[l.key[s[j]]] = s[j] /\ l.key[s[j]] \in Key
    BY <1>1, Zenon DEF Threaded, Keyed
  <1>3. \A j \in 1 .. Len(s) : l.key[s[j]] = k => s[j] = s[i]
    BY <1>2, Zenon
  <1> QED  BY <1>1, <1>2, <1>3, Zenon DEF Threaded, Linked

LEMMA WithoutAt ==
    ASSUME NEW l \in List, NEW s \in Seq(Node), NEW u, Threaded(l, s, u),
           NEW i \in 1 .. Len(s), NEW k, l.key[s[i]] = k
    PROVE  L!Without(Keys(l, s), k) = Del(Keys(l, s), i)
  <1> DEFINE q == Keys(l, s)
             c == CHOOSE j \in 1 .. Len(q) : q[j] = k
  <1>1. Len(q) = Len(s) /\ \A j \in 1 .. Len(s) : q[j] = l.key[s[j]]
    BY KeysFacts, Zenon
  <1>2. q[i] = k /\ \A j \in 1 .. Len(s) : q[j] = k => j = i
    BY <1>1, KeysOnce, SMTT(30)
  <1>3. c = i
    <2> HIDE DEF q
    <2>1. \E j \in 1 .. Len(q) : q[j] = k
      BY <1>1, <1>2, Zenon
    <2>2. c \in 1 .. Len(q) /\ q[c] = k
      BY <2>1, Zenon
    <2> QED  BY <1>1, <1>2, <2>2, Zenon
  <1>4. ~\A j \in 1 .. Len(q) : q[j] # k
    BY <1>1, <1>2, Zenon
  <1>5. L!Without(q, k) = [j \in 1 .. Len(q) - 1 |-> IF j < c THEN q[j] ELSE q[j + 1]]
    <2> HIDE DEF q
    <2> QED  BY <1>4, Zenon DEF L!Without
  <1> QED  BY <1>3, <1>5, Zenon DEF Del

LEMMA WithoutNone ==
    ASSUME NEW l \in List, NEW s \in Seq(Node), NEW u, Threaded(l, s, u),
           NEW k, l.Map[k] = Nil
    PROVE  L!Without(Keys(l, s), k) = Keys(l, s)
  <1>1. Len(Keys(l, s)) = Len(s) /\ \A j \in 1 .. Len(s) : Keys(l, s)[j] = l.key[s[j]]
    BY KeysFacts, Zenon
  <1>2. \A j \in 1 .. Len(s) : l.key[s[j]] # k
    BY KeysOnce, Zenon
  <1> QED  BY <1>1, <1>2, Zenon DEF L!Without

LEMMA KeysDel ==
    ASSUME NEW l \in List, NEW r \in List, NEW s \in Seq(Node), r.key = l.key,
           NEW i \in 1 .. Len(s)
    PROVE  Keys(r, Del(s, i)) = Del(Keys(l, s), i)
  <1>1. Len(Keys(l, s)) = Len(s) /\ \A j \in 1 .. Len(s) : Keys(l, s)[j] = l.key[s[j]]
    BY KeysFacts, Zenon
  <1>2. /\ Del(s, i) \in Seq(Node) /\ Len(Del(s, i)) = Len(s) - 1
        /\ \A j \in 1 .. Len(s) - 1 : Del(s, i)[j] = IF j < i THEN s[j] ELSE s[j + 1]
    BY DelFacts, Zenon
  <1>3. \A j \in 1 .. Len(s) - 1 :
            l.key[Del(s, i)[j]] = IF j < i THEN Keys(l, s)[j] ELSE Keys(l, s)[j + 1]
    <2> DEFINE q == Keys(l, s)
               d == Del(s, i)
    <2> HIDE DEF q, d
    <2> SUFFICES ASSUME NEW j \in 1 .. Len(s) - 1
                 PROVE  l.key[d[j]] = IF j < i THEN q[j] ELSE q[j + 1]
      BY Zenon DEF q, d
    <2> QED  BY <1>1, <1>2, SMTT(30) DEF q, d
  <1>4. Keys(r, Del(s, i)) = [j \in 1 .. Len(s) - 1 |-> l.key[Del(s, i)[j]]]
    BY <1>2, Zenon DEF Keys
  <1>5. Del(Keys(l, s), i) = [j \in 1 .. Len(s) - 1 |-> IF j < i THEN Keys(l, s)[j] ELSE Keys(l, s)[j + 1]]
    BY <1>1, Zenon DEF Del
  <1> QED  BY <1>3, <1>4, <1>5, Zenon

LEMMA KeysAppend ==
    ASSUME NEW l \in List, NEW r \in List, NEW s \in Seq(Node), NEW n \in Node,
           \A i \in 1 .. Len(s) : r.key[s[i]] = l.key[s[i]]
    PROVE  Keys(r, Append(s, n)) = Append(Keys(l, s), r.key[n])
  <1> DEFINE a == Append(s, n)
             x == Keys(r, a)
             q == Keys(l, s)
             y == Append(q, r.key[n])
  <1>1. a \in Seq(Node) /\ Len(a) = Len(s) + 1 /\ (\A j \in 1 .. Len(s) : a[j] = s[j]) /\ a[Len(s) + 1] = n
    BY AppendFacts, SMTT(30)
  <1>2. q \in Seq(Key \cup {Nil}) /\ Len(q) = Len(s) /\ \A j \in 1 .. Len(s) : q[j] = l.key[s[j]]
    BY KeysFacts, Zenon
  <1>3. r.key[n] \in Key \cup {Nil}
    BY Zenon DEF List
  <1> HIDE DEF a, q
  <1>4. x \in Seq(Key \cup {Nil}) /\ Len(x) = Len(a) /\ \A j \in 1 .. Len(a) : x[j] = r.key[a[j]]
    BY <1>1, KeysFacts, Zenon
  <1>5. /\ y \in Seq(Key \cup {Nil}) /\ Len(y) = Len(q) + 1
        /\ (\A j \in 1 .. Len(q) : y[j] = q[j]) /\ y[Len(q) + 1] = r.key[n]
    BY <1>2, <1>3, AppendFacts, SMTT(30)
  <1> HIDE DEF x, y
  <1>6. Len(x) = Len(s) + 1 /\ Len(y) = Len(s) + 1
    BY <1>1, <1>2, <1>4, <1>5, Zenon
  <1>7. ASSUME NEW j \in 1 .. Len(s) + 1
        PROVE  x[j] = y[j]
    <2>1. CASE j \in 1 .. Len(s)
      BY <1>1, <1>2, <1>4, <1>5, <2>1, SMTT(30)
    <2>2. CASE j = Len(s) + 1
      BY <1>1, <1>2, <1>4, <1>5, <2>2, Zenon
    <2> QED  BY <2>1, <2>2, SMTT(30)
  <1>8. x = y
    BY <1>4, <1>5, <1>6, <1>7, SMTT(30)
  <1> QED  BY <1>8, Zenon DEF a, q, x, y

(* The first of the keys and the others.                                   *)
LEMMA KeysHead ==
    ASSUME NEW l \in List, NEW s \in Seq(Node), Len(s) > 0
    PROVE  Head(Keys(l, s)) = l.key[s[1]] /\ Tail(Keys(l, s)) = Del(Keys(l, s), 1)
  <1> DEFINE q == Keys(l, s)
  <1>1. q \in Seq(Key \cup {Nil}) /\ Len(q) = Len(s) /\ \A j \in 1 .. Len(s) : q[j] = l.key[s[j]]
    BY KeysFacts, Zenon
  <1> HIDE DEF q
  <1>2. Head(q) = l.key[s[1]]
    BY <1>1, SMTT(30)
  <1>3. /\ Del(q, 1) \in Seq(Key \cup {Nil}) /\ Len(Del(q, 1)) = Len(q) - 1
        /\ \A j \in 1 .. Len(q) - 1 : Del(q, 1)[j] = q[j + 1]
    BY <1>1, DelFacts, SMTT(30)
  <1>4. /\ Tail(q) \in Seq(Key \cup {Nil}) /\ Len(Tail(q)) = Len(q) - 1
        /\ \A j \in 1 .. Len(q) - 1 : Tail(q)[j] = q[j + 1]
    BY <1>1, SMTT(30)
  <1>5. Tail(q) = Del(q, 1)
    BY <1>3, <1>4, SMTT(30)
  <1> QED  BY <1>2, <1>5, Zenon DEF q

-----------------------------------------------------------------------------
(* A key in the map is the key of a node of the list.                      *)
LEMMA Found ==
    ASSUME NEW l, NEW s \in Seq(Node), NEW u, Threaded(l, s, u),
           NEW k \in Key, l.Map[k] # Nil
    PROVE  \E i \in 1 .. Len(s) : s[i] = l.Map[k] /\ l.key[s[i]] = k
  <1>1. l.Map[k] \in Nodes(s) /\ l.key[l.Map[k]] = k
    BY Zenon DEF Threaded, Keyed
  <1> QED  BY <1>1, Zenon DEF Nodes

(* The map has as many keys as the list has nodes.                         *)
LEMMA SizeIs ==
    ASSUME NEW l \in List, NEW s \in Seq(Node), NEW u, Threaded(l, s, u)
    PROVE  Size(l) = Len(s)
  <1> DEFINE S == {k \in Key : l.Map[k] # Nil}
             f == Keys(l, s)
             D == 1 .. Len(s)
  <1>1. \A i \in D : f[i] = l.key[s[i]]
    BY KeysFacts, Zenon
  <1>2. f \in [D -> S]
    <2>1. \A i \in D : l.key[s[i]] \in S
      BY KeysOnce, SMTT(30)
    <2> HIDE DEF S
    <2> QED  BY <2>1, Zenon DEF Keys
  <1>3. \A i, j \in D : f[i] = f[j] => i = j
    BY <1>1, KeysOnce, SMTT(30)
  <1>4. ASSUME NEW k \in S
        PROVE  \E i \in D : f[i] = k
    <2>1. PICK i \in 1 .. Len(s) : l.key[s[i]] = k
      BY Found, Zenon
    <2> QED  BY <1>1, <2>1, Zenon
  <1>5. IsFiniteSet(D) /\ Cardinality(D) = Len(s)
    <2>1. 1 \in Int /\ Len(s) \in Int /\ (1 > Len(s) => Len(s) = 0) /\ Len(s) - 1 + 1 = Len(s)
      BY SMTT(30)
    <2> QED  BY <2>1, FS_Interval, Zenon
  <1>6. Size(l) = Cardinality(S)
    BY Zenon DEF Size
  <1> HIDE DEF S, f, D
  <1>7. f \in Surjection(D, S) /\ f \in Injection(D, S)
    BY <1>2, <1>3, <1>4, Zenon DEF Surjection, Injection, IsInjective
  <1> QED  BY <1>5, <1>6, <1>7, FS_Surjection, Zenon

LEMMA ThreadedInv ==
    ASSUME list' \in List, used' \subseteq Node, ret' \in Value \cup {Nil}, panicked' = FALSE,
           NEW t \in Seq(Node), Threaded(list', t, used')
    PROVE  CacheInv'
  BY Zenon DEF CacheInv, TypeOK

LEMMA GetStep ==
    ASSUME CacheInv, NEW k \in Key, get(k)
    PROVE  CacheInv' /\ L!Get(k)
  <1>1. PICK s \in Seq(Node) : Threaded(list, s, used)
    BY Zenon DEF CacheInv
  <1>2. list \in List /\ used \subseteq Node /\ list.Map[k] \in Pointer /\ used' = used
    BY Zenon DEF CacheInv, TypeOK, List, get
  <1>3. CASE list.Map[k] = Nil
    <2>1. list' = list /\ ret' = Nil /\ panicked' = FALSE
      BY <1>3, Zenon DEF get, Finish
    <2>2. CacheInv'
      BY <1>1, <1>2, <2>1, ThreadedInv, Zenon
    <2>3. Content(list)[k] = Nil
      BY <1>3, Zenon DEF Content
    <2> QED  BY <2>1, <2>2, <2>3, Zenon DEF L!Get
  <1>4. CASE list.Map[k] # Nil
    <2>1. PICK i \in 1 .. Len(s) : s[i] = list.Map[k] /\ list.key[s[i]] = k
      BY <1>1, <1>4, Found, Zenon
    <2>2. /\ ~BadRefresh(list, s[i]) /\ refreshNode(list, s[i]) \in List
          /\ refreshNode(list, s[i]).Map = list.Map
          /\ refreshNode(list, s[i]).key = list.key
          /\ refreshNode(list, s[i]).value = list.value
          /\ Threaded(refreshNode(list, s[i]), Move(s, i), used)
      BY <1>1, <1>2, Refreshed, Zenon
    <2>3. /\ list' = refreshNode(list, s[i]) /\ panicked' = FALSE
          /\ ret' = list.value[s[i]]
      BY <1>4, <2>1, <2>2, SMTT(30) DEF get, Finish
    <2>4. s[i] \in Nodes(s) /\ s[i] # Nil
      BY CacheAssumption, SMTT(30) DEF Nodes
    <2>5. ret' \in Value
      BY <1>1, <2>3, <2>4, Zenon DEF Threaded, Keyed
    <2>6. Move(s, i) \in Seq(Node) /\ s[i] \in Node /\ Del(s, i) \in Seq(Node)
      BY <1>1, NodesFacts, DelFacts, SMTT(30) DEF Threaded
    <2>7. CacheInv'
      BY <1>2, <2>2, <2>3, <2>5, <2>6, ThreadedInv, Zenon
    <2>8. Content(list') = Content(list) /\ Content(list)[k] = list.value[s[i]]
      BY <1>4, <2>1, <2>2, <2>3, Zenon DEF Content
    <2>9. Chain(list') = Append(L!Without(Chain(list), k), k)
      <3>1. Chain(list) = Keys(list, s) /\ Chain(list') = Keys(list', Move(s, i))
        BY <1>1, <1>2, <2>2, <2>3, <2>6, ChainIs, Zenon
      <3>2. Keys(list', Move(s, i)) = Append(Keys(list, Del(s, i)), k)
        <4>1. list' \in List /\ list'.key = list.key /\ list'.key[s[i]] = k
          BY <2>1, <2>2, <2>3, Zenon
        <4>2. Keys(list', Append(Del(s, i), s[i])) = Append(Keys(list, Del(s, i)), list'.key[s[i]])
          BY <1>2, <2>6, <4>1, KeysAppend, Zenon
        <4> QED  BY <4>1, <4>2, Zenon DEF Move
      <3>3. Keys(list, Del(s, i)) = Del(Keys(list, s), i)
        BY <1>2, KeysDel, Zenon
      <3>4. L!Without(Keys(list, s), k) = Del(Keys(list, s), i)
        BY <1>1, <1>2, <2>1, WithoutAt, Zenon
      <3> QED  BY <3>1, <3>2, <3>3, <3>4, Zenon
    <2>10. Content(list)[k] # Nil
      BY <2>3, <2>5, <2>8, CacheAssumption, Zenon
    <2> QED  BY <2>3, <2>7, <2>8, <2>9, <2>10, Zenon DEF L!Get, L!Touch
  <1> QED  BY <1>3, <1>4, Zenon

LEMMA PutOldStep ==
    ASSUME CacheInv, NEW k \in Key, NEW v \in Value, putOld(k, v)
    PROVE  CacheInv' /\ L!Update(k, v)
  <1>1. PICK s \in Seq(Node) : Threaded(list, s, used)
    BY Zenon DEF CacheInv
  <1>2. list \in List /\ used \subseteq Node /\ used' = used /\ ret' = Nil /\ list.Map[k] # Nil
    BY Zenon DEF CacheInv, TypeOK, putOld
  <1>3. PICK i \in 1 .. Len(s) : s[i] = list.Map[k] /\ list.key[s[i]] = k
    BY <1>1, <1>2, Found, Zenon
  <1>4. s[i] \in Node
    BY SMTT(30)
  <1>5. PICK g : g = [list EXCEPT !.value[s[i]] = v]
    BY Zenon
  <1>6. /\ g \in List
        /\ g.Map = list.Map /\ g.key = list.key /\ g.value = [list.value EXCEPT ![s[i]] = v]
        /\ Threaded(g, s, used)
    BY <1>1, <1>2, <1>4, <1>5, Valued, SMTT(30)
  <1>7. ~BadRefresh(list, s[i])
    BY <1>1, <1>2, Refreshed, Zenon
  <1>8. /\ refreshNode(g, s[i]) \in List
        /\ refreshNode(g, s[i]).Map = g.Map
        /\ refreshNode(g, s[i]).key = g.key
        /\ refreshNode(g, s[i]).value = g.value
        /\ Threaded(refreshNode(g, s[i]), Move(s, i), used)
    BY <1>6, Refreshed, Zenon
  <1>9. list' = refreshNode(g, s[i]) /\ panicked' = FALSE
    BY <1>3, <1>5, <1>7, SMTT(30) DEF putOld, Finish
  <1>10. Move(s, i) \in Seq(Node) /\ Del(s, i) \in Seq(Node)
    BY <1>1, NodesFacts, DelFacts, Zenon DEF Threaded
  <1>11. CacheInv'
    BY <1>2, <1>8, <1>9, <1>10, ThreadedInv, Zenon
  <1>12. Content(list') = [Content(list) EXCEPT ![k] = v]
    <2>1. \A q \in Key : list.Map[q] = s[i] => q = k
      BY <1>1, <1>2, <1>3, Zenon DEF Threaded, Keyed
    <2>2. list'.Map = list.Map /\ list'.value = [list.value EXCEPT ![s[i]] = v]
      BY <1>6, <1>8, <1>9, Zenon
    <2>3. list.value \in [Node -> Value \cup {Nil}] /\ list.Map \in [Key -> Pointer]
      BY <1>2, Zenon DEF List
    <2>4. list'.value[s[i]] = v /\ \A n \in Node : n # s[i] => list'.value[n] = list.value[n]
      BY <1>4, <2>2, <2>3, Zenon
    <2>5. ASSUME NEW q \in Key
          PROVE  Content(list')[q] = IF q = k THEN v ELSE Content(list)[q]
      <3>1. CASE q = k
        BY <1>2, <1>3, <2>2, <2>4, <3>1, Zenon DEF Content
      <3>2. CASE q # k /\ list.Map[q] = Nil
        BY <2>2, <3>2, Zenon DEF Content
      <3>3. CASE q # k /\ list.Map[q] # Nil
        <4>1. list.Map[q] \in Node /\ list.Map[q] # s[i]
          BY <2>1, <2>3, <3>3, Zenon DEF Pointer
        <4> QED BY <2>2, <2>4, <3>3, <4>1, Zenon DEF Content
      <3> QED BY <3>1, <3>2, <3>3, Zenon
    <2> QED  BY <2>5, Zenon DEF Content
  <1>13. Content(list)[k] # Nil
    <2>1. s[i] \in Nodes(s)
      BY Zenon DEF Nodes
    <2>2. list.value[s[i]] \in Value
      BY <1>1, <2>1, Zenon DEF Threaded, Keyed
    <2> QED  BY <1>2, <1>3, <2>2, CacheAssumption, Zenon DEF Content
  <1>14. Chain(list') = Append(L!Without(Chain(list), k), k)
    <2>1. Chain(list) = Keys(list, s) /\ Chain(list') = Keys(list', Move(s, i))
      BY <1>1, <1>2, <1>8, <1>9, <1>10, ChainIs, Zenon
    <2>2. list' \in List /\ list'.key = list.key /\ list'.key[s[i]] = k
      BY <1>3, <1>6, <1>8, <1>9, Zenon
    <2>3. Keys(list', Append(Del(s, i), s[i])) = Append(Keys(list, Del(s, i)), list'.key[s[i]])
      BY <1>2, <1>4, <1>10, <2>2, KeysAppend, Zenon
    <2>4. Keys(list, Del(s, i)) = Del(Keys(list, s), i)
      BY <1>2, KeysDel, Zenon
    <2>5. L!Without(Keys(list, s), k) = Del(Keys(list, s), i)
      BY <1>1, <1>2, <1>3, WithoutAt, Zenon
    <2> QED  BY <2>1, <2>2, <2>3, <2>4, <2>5, Zenon DEF Move
  <1> QED  BY <1>2, <1>11, <1>12, <1>13, <1>14, Zenon DEF L!Update, L!Touch

(* The cache is full exactly when its abstraction is.                      *)
LEMMA SameFull ==
    ASSUME NEW s \in Seq(Node), list \in List, Threaded(list, s, used)
    PROVE  /\ L!IsFull <=> IsFull(list)
           /\ \A k \in Key : Content(list)[k] = Nil <=> list.Map[k] = Nil
  <1>1. ASSUME NEW k \in Key, list.Map[k] # Nil
        PROVE  Content(list)[k] # Nil
    <2>1. list.Map[k] \in Nodes(s)
      BY <1>1, Zenon DEF Threaded, Keyed
    <2>2. list.value[list.Map[k]] \in Value
      BY <2>1, Zenon DEF Threaded, Keyed
    <2> QED  BY <1>1, <2>2, CacheAssumption, Zenon DEF Content
  <1>2. \A k \in Key : Content(list)[k] = Nil <=> list.Map[k] = Nil
    BY <1>1, Zenon DEF Content
  <1>3. Len(Chain(list)) = Size(list)
    BY ChainIs, KeysFacts, SizeIs, Zenon
  <1>4. L!IsFull <=> IsFull(list)
    BY <1>3, Zenon DEF L!IsFull, IsFull
  <1> QED  BY <1>2, <1>4, Zenon

LEMMA EvictStep ==
    ASSUME KeepsLast, CacheInv, NEW k \in Key, evict(k)
    PROVE  CacheInv' /\ L!Evict(k)
  <1>1. PICK s \in Seq(Node) : Threaded(list, s, used)
    BY Zenon DEF CacheInv
  <1>2. /\ list \in List /\ used \subseteq Node /\ used' = used /\ ret' = Nil
        /\ list.Map \in [Key -> Pointer]
    BY Zenon DEF CacheInv, TypeOK, List, evict
  <1>3. Chain(list) = Keys(list, s)
    BY <1>1, <1>2, ChainIs, Zenon
  <1>4. CASE list.Map[k] = Nil
    <2>1. list' = list /\ panicked' = FALSE
      BY <1>4, Zenon DEF evict, Finish
    <2>2. CacheInv'
      BY <1>1, <1>2, <2>1, ThreadedInv, Zenon
    <2>3. Content(list) = [Content(list) EXCEPT ![k] = Nil]
      BY <1>4, Zenon DEF Content
    <2>4. Chain(list) = L!Without(Chain(list), k)
      BY <1>1, <1>2, <1>3, <1>4, WithoutNone, Zenon
    <2> QED  BY <1>2, <2>1, <2>2, <2>3, <2>4, Zenon DEF L!Evict
  <1>5. CASE list.Map[k] # Nil
    <2>1. PICK i \in 1 .. Len(s) : s[i] = list.Map[k] /\ list.key[s[i]] = k
      BY <1>1, <1>5, Found, Zenon
    <2>2. Size(list) > 1
      BY <1>5, Zenon DEF evict, KeepsLast
    <2>3. Len(s) > 1
      BY <1>1, <1>2, <2>2, SizeIs, Zenon
    <2>4. ~BadRemove(list, s[i]) /\ Takes(list, Taken(list, s[i]), s, i, used)
      BY <1>1, <1>2, <2>3, TakenOut, Zenon
    <2>5. list' = Taken(list, s[i]) /\ panicked' = FALSE /\ Takes(list, list', s, i, used)
      <3>1. list' = [removeNode(list, s[i]) EXCEPT !.Map[list.key[s[i]]] = Nil] /\ panicked' = FALSE
        <4> DEFINE m == list.Map[k]
        <4>1. Finish(BadRemove(list, m), [removeNode(list, m) EXCEPT !.Map[list.key[m]] = Nil])
          BY <1>5, Zenon DEF evict
        <4> HIDE DEF m
        <4>2. m = s[i] /\ ~BadRemove(list, m)
          BY <2>1, <2>4, Zenon DEF m
        <4>3. list' = [removeNode(list, m) EXCEPT !.Map[list.key[m]] = Nil]
          BY <4>1, <4>2, Zenon DEF Finish
        <4>4. panicked' = FALSE
          BY <4>1, <4>2, SMTT(30) DEF Finish
        <4> QED  BY <4>2, <4>3, <4>4, Zenon
      <3>2. list' = Taken(list, s[i])
        BY <3>1, Zenon DEF Taken
      <3> QED  BY <2>4, <3>1, <3>2, Zenon
    <2>6. Del(s, i) \in Seq(Node)
      BY DelFacts, Zenon
    <2>7. CacheInv'
      BY <1>2, <2>5, <2>6, ThreadedInv, Zenon DEF Takes
    <2>8. Content(list') = [Content(list) EXCEPT ![k] = Nil]
      <3>1. list'.Map = [list.Map EXCEPT ![k] = Nil] /\ list'.value = list.value
        BY <2>1, <2>5, Zenon DEF Takes
      <3> QED  BY <1>2, <3>1, Zenon DEF Content
    <2>9. Chain(list') = L!Without(Chain(list), k)
      <3>1. Chain(list') = Keys(list', Del(s, i))
        BY <2>5, <2>6, ChainIs, Zenon DEF Takes
      <3>2. Keys(list', Del(s, i)) = Del(Keys(list, s), i)
        <4>1. list' \in List /\ list'.key = list.key
          BY <2>5, Zenon DEF Takes
        <4> QED  BY <1>2, <4>1, KeysDel, Zenon
      <3> QED  BY <1>1, <1>2, <1>3, <2>1, <3>1, <3>2, WithoutAt, Zenon
    <2> QED  BY <1>2, <2>7, <2>8, <2>9, Zenon DEF L!Evict
  <1> QED  BY <1>4, <1>5, Zenon

Holding(r, l, k, v) == Content(r) = [Content(l) EXCEPT ![k] = v]

LEMMA PutContent ==
    ASSUME NEW l \in List, NEW r \in List, NEW s, NEW u, Threaded(l, s, u),
           NEW k \in Key, NEW v \in Value, NEW n \in Node, n \notin u,
           r.Map = [l.Map EXCEPT ![k] = n], r.value = [l.value EXCEPT ![n] = v]
    PROVE  Holding(r, l, k, v)
  <1>1. \A q \in Key : l.Map[q] # n
    BY CacheAssumption, SMTT(30) DEF Threaded, Keyed
  <1>2. l.Map \in [Key -> Pointer] /\ l.value \in [Node -> Value \cup {Nil}] /\ n # Nil
    BY CacheAssumption, Zenon DEF List
  <1>3. ASSUME NEW q \in Key
        PROVE  Content(r)[q] = IF q = k THEN v ELSE Content(l)[q]
    BY <1>1, <1>2, Zenon DEF Content, Pointer
  <1> QED  BY <1>3, Zenon DEF Content, Holding

(* What putNew does to a cache that is not full.                           *)
LEMMA PutNewRoom ==
    ASSUME CacheInv, NEW k \in Key, NEW v \in Value, putNew(k, v), ~IsFull(list)
    PROVE  CacheInv' /\ L!Update(k, v)
  <1>1. PICK s \in Seq(Node) : Threaded(list, s, used)
    BY Zenon DEF CacheInv
  <1>2. PICK n \in Node \ used : /\ used' = used \cup {n} /\ panicked' = FALSE
                                /\ list' = addNode(Filled(list, k, v, n), n)
    BY Zenon DEF putNew, Finish, Filled
  <1>3. list \in List /\ used \subseteq Node /\ ret' = Nil /\ list.Map[k] = Nil
    BY Zenon DEF CacheInv, TypeOK, putNew
  <1>4. /\ list' \in List
        /\ list'.Map = [list.Map EXCEPT ![k] = n]
        /\ list'.key = [list.key EXCEPT ![n] = k]
        /\ list'.value = [list.value EXCEPT ![n] = v]
        /\ Threaded(list', Append(s, n), used')
    <2>1. n \in Node /\ n \notin used /\ list' = addNode(Filled(list, k, v, n), n)
      BY <1>2, Zenon
    <2>2. Puts(list, list', s, used, k, v, n)
      BY <1>1, <1>3, <2>1, PutIn, Zenon
    <2> QED  BY <1>2, <2>2, Zenon DEF Puts
  <1>5. Append(s, n) \in Seq(Node)
    BY <1>2, SMTT(30)
  <1>6. CacheInv'
    BY <1>2, <1>3, <1>4, <1>5, ThreadedInv, Zenon
  <1>7. \A i \in 1 .. Len(s) : s[i] # n /\ s[i] \in Nodes(s)
    BY <1>1, <1>2, Zenon DEF Threaded, Nodes
  <1>8. Content(list') = [Content(list) EXCEPT ![k] = v]
    <2>1. Holding(list', list, k, v)
      BY <1>1, <1>2, <1>3, <1>4, PutContent, Zenon
    <2> QED  BY <2>1, Zenon DEF Holding
  <1>9. Chain(list') = Append(Chain(list), k)
    <2>1. Chain(list) = Keys(list, s) /\ Chain(list') = Keys(list', Append(s, n))
      BY <1>1, <1>3, <1>4, <1>5, ChainIs, Zenon
    <2>2. list'.key[n] = k /\ \A i \in 1 .. Len(s) : list'.key[s[i]] = list.key[s[i]]
      <3>1. list.key \in [Node -> Key \cup {Nil}]
        BY <1>3, Zenon DEF List
      <3>2. \A i \in 1 .. Len(s) : s[i] \in Node
        BY <1>1, <1>3, <1>7, Zenon DEF Threaded
      <3> QED  BY <1>2, <1>4, <1>7, <3>1, <3>2, Zenon
    <2>3. Keys(list', Append(s, n)) = Append(Keys(list, s), list'.key[n])
      <3>1. n \in Node /\ list' \in List
        BY <1>2, <1>4, Zenon
      <3> QED  BY <1>3, <2>2, <3>1, KeysAppend, Zenon
    <2> QED  BY <2>1, <2>2, <2>3, Zenon
  <1>10. L!Without(Chain(list), k) = Chain(list)
    BY <1>1, <1>3, ChainIs, WithoutNone, Zenon
  <1>11. ~L!IsFull
    BY <1>1, <1>3, SameFull, Zenon
  <1> QED  BY <1>3, <1>6, <1>8, <1>9, <1>10, <1>11, Zenon DEF L!Update, L!Touch

(* What putNew does to a full cache: the entry used longest ago goes.      *)
LEMMA PutNewFull ==
    ASSUME KeepsLast, CacheInv, NEW k \in Key, NEW v \in Value, putNew(k, v), IsFull(list)
    PROVE  CacheInv' /\ L!Replace(k, v)
  <1>1. PICK s \in Seq(Node) : Threaded(list, s, used)
    BY Zenon DEF CacheInv
  <1>2. /\ list \in List /\ used \subseteq Node /\ ret' = Nil /\ list.Map[k] = Nil
        /\ list.Map \in [Key -> Pointer]
    BY Zenon DEF CacheInv, TypeOK, List, putNew
  <1>3. Len(s) > 1
    <2>1. Size(list) = Len(s)
      BY <1>1, <1>2, SizeIs, Zenon
    <2> QED  BY <2>1, CacheAssumption, SMTT(30) DEF IsFull, KeepsLast
  <1>4. list.head = s[1] /\ 1 \in 1 .. Len(s)
    BY <1>1, <1>3, SMTT(30) DEF Threaded, Linked
  <1>5. PICK g, h : g = Taken(list, s[1]) /\ h = list.key[s[1]]
    BY Zenon
  <1>6. /\ ~BadRemove(list, s[1]) /\ g \in List
        /\ g.Map = [list.Map EXCEPT ![h] = Nil]
        /\ g.key = list.key /\ g.value = list.value
        /\ Threaded(g, Del(s, 1), used)
    <2>1. ~BadRemove(list, s[1]) /\ Takes(list, Taken(list, s[1]), s, 1, used)
      BY <1>1, <1>2, <1>3, <1>4, TakenOut, Zenon
    <2> QED  BY <1>5, <2>1, Zenon DEF Takes
  <1>7. PICK n \in Node \ used : /\ used' = used \cup {n} /\ panicked' = FALSE
                                /\ list' = addNode(Filled(g, k, v, n), n)
    BY <1>4, <1>5, <1>6, Zenon DEF putNew, Finish, Filled, Taken
  <1>8. h \in Key /\ list.Map[h] # Nil /\ h # k
    BY <1>1, <1>2, <1>4, <1>5, KeysOnce, SMTT(30)
  <1>9. g.Map[k] = Nil /\ Del(s, 1) \in Seq(Node)
    BY <1>2, <1>4, <1>6, <1>8, DelFacts, Zenon
  <1>10. /\ list' \in List
         /\ list'.Map = [g.Map EXCEPT ![k] = n]
         /\ list'.key = [g.key EXCEPT ![n] = k]
         /\ list'.value = [g.value EXCEPT ![n] = v]
         /\ Threaded(list', Append(Del(s, 1), n), used')
    <2>1. n \in Node /\ n \notin used /\ list' = addNode(Filled(g, k, v, n), n)
      BY <1>7, Zenon
    <2>2. g \in List /\ Threaded(g, Del(s, 1), used)
      BY <1>6, Zenon
    <2>3. Puts(g, list', Del(s, 1), used, k, v, n)
      BY <1>9, <2>1, <2>2, PutIn, Zenon
    <2> QED  BY <1>7, <2>3, Zenon DEF Puts
  <1>11. Append(Del(s, 1), n) \in Seq(Node)
    BY <1>7, <1>9, SMTT(30)
  <1>12. CacheInv'
    BY <1>2, <1>7, <1>10, <1>11, ThreadedInv, Zenon
  <1>13. Content(list') = [Content(list) EXCEPT ![h] = Nil, ![k] = v]
    <2>1. Content(list') = [Content(g) EXCEPT ![k] = v]
      <3>1. Holding(list', g, k, v)
        BY <1>6, <1>7, <1>9, <1>10, PutContent, Zenon
      <3> QED  BY <3>1, Zenon DEF Holding
    <2>2. Content(g) = [Content(list) EXCEPT ![h] = Nil]
      BY <1>2, <1>6, <1>8, Zenon DEF Content
    <2> QED  BY <2>1, <2>2, Zenon
  <1>14. Head(Chain(list)) = h /\ Chain(list') = Append(Tail(Chain(list)), k)
    <2>1. Chain(list) = Keys(list, s) /\ Chain(list') = Keys(list', Append(Del(s, 1), n))
      BY <1>1, <1>2, <1>7, <1>10, <1>11, ChainIs, Zenon
    <2>2. Head(Keys(list, s)) = h /\ Tail(Keys(list, s)) = Del(Keys(list, s), 1)
      BY <1>2, <1>3, <1>5, KeysHead, SMTT(30)
    <2>3. Keys(g, Del(s, 1)) = Del(Keys(list, s), 1)
      BY <1>2, <1>4, <1>6, KeysDel, SMTT(30)
    <2>4. \A i \in 1 .. Len(Del(s, 1)) : Del(s, 1)[i] \in Nodes(Del(s, 1))
      BY Zenon DEF Nodes
    <2>5. \A i \in 1 .. Len(Del(s, 1)) : Del(s, 1)[i] # n /\ Del(s, 1)[i] \in Node
      BY <1>2, <1>6, <1>7, <2>4, Zenon DEF Threaded
    <2>6. list'.key[n] = k /\ \A i \in 1 .. Len(Del(s, 1)) : list'.key[Del(s, 1)[i]] = g.key[Del(s, 1)[i]]
      <3>1. g.key \in [Node -> Key \cup {Nil}]
        BY <1>6, Zenon DEF List
      <3> QED  BY <1>7, <1>10, <2>5, <3>1, Zenon
    <2>7. Keys(list', Append(Del(s, 1), n)) = Append(Keys(g, Del(s, 1)), k)
      <3>1. Keys(list', Append(Del(s, 1), n)) = Append(Keys(g, Del(s, 1)), list'.key[n])
        <4>1. n \in Node /\ list' \in List /\ g \in List
          BY <1>6, <1>7, <1>10, Zenon
        <4> QED  BY <1>9, <2>6, <4>1, KeysAppend, Zenon
      <3> QED  BY <2>6, <3>1, Zenon
    <2> QED  BY <2>1, <2>2, <2>3, <2>7, Zenon
  <1>15. L!IsFull /\ Content(list)[k] = Nil
    BY <1>1, <1>2, SameFull, Zenon
  <1> QED  BY <1>2, <1>12, <1>13, <1>14, <1>15, Zenon DEF L!Replace

-----------------------------------------------------------------------------
LEMMA InitInv == Init => CacheInv /\ L!Init
  <1> SUFFICES ASSUME Init
               PROVE  CacheInv /\ L!Init
    BY Zenon
  <1>1. TypeOK /\ ~panicked
    BY Zenon DEF Init, TypeOK, List, Pointer
  <1>2. Threaded(list, <<>>, used) /\ <<>> \in Seq(Node)
    BY SMTT(30) DEF Init, Threaded, Linked, Keyed, Nodes
  <1>3. \A k \in Key : list.Map[k] = Nil
    BY Zenon DEF Init
  <1>4. Walk(list) = <<>>
    BY <1>3, Zenon DEF Walk
  <1>5. Chain(list) = <<>>
    BY <1>4, SMTT(30) DEF Chain
  <1>6. Content(list) = [k \in Key |-> Nil]
    BY <1>3, Zenon DEF Content
  <1> QED  BY <1>1, <1>2, <1>5, <1>6, Zenon DEF CacheInv, L!Init, Init

LEMMA StepInv ==
    ASSUME KeepsLast, CacheInv, [Next]_vars
    PROVE  CacheInv' /\ [L!Next]_(L!vars)
  <1>1. CASE UNCHANGED vars
    BY <1>1, Zenon DEF CacheInv, TypeOK, vars, L!vars
  <1>2. ASSUME NEW k \in Key, get(k)
        PROVE  CacheInv' /\ L!Next
    BY <1>2, GetStep, Zenon DEF L!Next
  <1>3. ASSUME NEW k \in Key, evict(k)
        PROVE  CacheInv' /\ L!Next
    BY <1>3, EvictStep, Zenon DEF L!Next
  <1>4. ASSUME NEW k \in Key, NEW v \in Value, putOld(k, v)
        PROVE  CacheInv' /\ L!Next
    BY <1>4, PutOldStep, Zenon DEF L!Next
  <1>5. ASSUME NEW k \in Key, NEW v \in Value, putNew(k, v)
        PROVE  CacheInv' /\ L!Next
    BY <1>5, PutNewRoom, PutNewFull, Zenon DEF L!Next
  <1> QED  BY <1>1, <1>2, <1>3, <1>4, <1>5, Zenon DEF Next

(* When the only entry is never taken out (no caller evicts it, and the    *)
(* capacity is not 1), no sequence of get, put and evict dereferences a    *)
(* nil pointer in the list, whatever the keys, the capacity and the number *)
(* of nodes.                                                               *)
THEOREM CacheNeverPanics ==
    ASSUME KeepsLast
    PROVE  Spec => []NeverPanics
  <1>1. CacheInv => NeverPanics
    BY Zenon DEF CacheInv, NeverPanics
  <1> QED  BY <1>1, InitInv, StepInv, PTL DEF Spec

(* Under the same condition the linked list and the map implement the      *)
(* abstract cache: get, put and evict keep the keys in the order of their  *)
(* last use, a full cache gives up exactly the key used longest ago, and   *)
(* get returns the value put last.                                         *)
THEOREM CacheImplementsLru ==
    ASSUME KeepsLast
    PROVE  Spec => ImplementsLru
  BY InitInv, StepInv, PTL DEF Spec, ImplementsLru, L!Spec
=============================================================================
