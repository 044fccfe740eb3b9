--------------------------- MODULE MaplockProofs ---------------------------
(***************************************************************************)
(* Proofs about Maplock for every finite set of sessions and every set of  *)
(* names.  Mutual exclusion is not inductive: that a name is locked at     *)
(* most once rests on the map entry of a used name being the lockCtr its   *)
(* users hold, and that rests on waiters counting exactly the registered   *)
(* sessions, since Unlock decides by that count whether to drop the entry. *)
(***************************************************************************)
EXTENDS Maplock, FiniteSetTheorems, TLAPS

(* Sessions counted by c.waiters.                                          *)
Registered(c) == {s \in Session : pc[s] \in {"wait", "dec"} /\ nameLock[s] = c}

(* Between Lock and Unlock, apart from the last step of Unlock.            *)
Uses(s) == pc[s] \in {"wait", "dec", "cs"}

MuInv == \A s \in Session : pc[s] = "release" <=> mu = s

EntryInv ==
    \A s \in Session :
        /\ Uses(s) => nameLock[s] \in LockCtr /\ locks[name[s]] = nameLock[s]
        /\ pc[s] = "release" => nameLock[s] \in LockCtr /\ locks[name[s]] \in {Nil, nameLock[s]}
        /\ pc[s] # "noSuchLock"

NameInv ==
    \A s, t \in Session :
        pc[s] # "idle" /\ pc[t] # "idle" /\ nameLock[s] = nameLock[t] => name[s] = name[t]

UsedInv == \A n \in Name : locks[n] # Nil => \E s \in Session : Uses(s) /\ name[s] = n

HeldInv ==
    /\ \A s \in Session : Holds(s) => held[nameLock[s]]
    /\ \A s, t \in Session : Holds(s) /\ Holds(t) /\ nameLock[s] = nameLock[t] => s = t

CountInv == \A c \in LockCtr : waiters[c] = Cardinality(Registered(c))

IInv == TypeOK /\ MuInv /\ EntryInv /\ NameInv /\ UsedInv /\ HeldInv /\ CountInv

-----------------------------------------------------------------------------
(* The sets that waiters counts are finite.                                *)
LEMMA RegisteredFinite == \A c \in LockCtr : IsFiniteSet(Registered(c))
  BY SessionAssumption, FS_Subset, Zenon DEF Registered

(* The initial states satisfy the invariant: no session is registered.     *)
LEMMA InitIInv == Init => IInv
  <1> SUFFICES ASSUME Init PROVE IInv
    BY Zenon
  <1>1. CountInv
    <2>1. \A c \in LockCtr : Registered(c) = {}
      BY Zenon DEF Init, Registered
    <2> QED BY <2>1, FS_EmptySet, Zenon DEF CountInv, Init
  <1> QED
    BY <1>1, SessionAssumption, LockCtrAssumption, Zenon
    DEF Init, IInv, TypeOK, PC, MuInv, EntryInv, NameInv, UsedInv, HeldInv, Uses, Holds

(* Lock's block under the main mutex preserves the invariant, whether it   *)
(* finds the entry or creates it.                                          *)
LEMMA RegisterIInv ==
    ASSUME IInv, NEW s \in Session, NEW n \in Name, Register(s, n)
    PROVE  IInv'
  <1> USE SessionAssumption, LockCtrAssumption
  <1>0. TypeOK /\ MuInv /\ EntryInv /\ NameInv /\ UsedInv /\ HeldInv /\ CountInv
    BY Zenon DEF IInv
  <1>1. PICK c \in LockCtr :
          /\ \/ /\ locks[n] = c
                /\ waiters' = [waiters EXCEPT ![c] = @ + 1]
                /\ UNCHANGED <<locks, held>>
             \/ /\ locks[n] = Nil
                /\ Fresh(c)
                /\ locks' = [locks EXCEPT ![n] = c]
                /\ held' = [held EXCEPT ![c] = FALSE]
                /\ waiters' = [waiters EXCEPT ![c] = 1]
          /\ nameLock' = [nameLock EXCEPT ![s] = c]
    BY Zenon DEF Register
  <1>2. /\ pc[s] = "idle" /\ mu = Nil /\ mu' = mu
        /\ pc' = [pc EXCEPT ![s] = "wait"]
        /\ name' = [name EXCEPT ![s] = n]
    BY Zenon DEF Register
  <1>3. TypeOK'
    <2>1. held' \in [LockCtr -> BOOLEAN]
      BY <1>0, <1>1, Zenon DEF TypeOK
    <2>2. /\ locks' \in [Name -> LockCtr \cup {Nil}]
          /\ waiters' \in [LockCtr -> Nat]
      BY <1>0, <1>1, SMTT(30) DEF TypeOK
    <2>3. /\ mu' \in Session \cup {Nil}
          /\ pc' \in [Session -> PC]
          /\ name' \in [Session -> Name]
          /\ nameLock' \in [Session -> LockCtr \cup {Nil}]
      BY <1>0, <1>1, <1>2, Zenon DEF TypeOK, PC
    <2> QED BY <2>1, <2>2, <2>3, Zenon DEF TypeOK
  <1>4. locks'[n] = c /\ \A m \in Name \ {n} : locks'[m] = locks[m]
    BY <1>0, <1>1, Zenon DEF TypeOK
  <1>5. \A t \in Session \ {s} : pc'[t] = pc[t] /\ name'[t] = name[t] /\ nameLock'[t] = nameLock[t]
    BY <1>0, <1>1, <1>2, Zenon DEF TypeOK
  <1>6. pc'[s] = "wait" /\ name'[s] = n /\ nameLock'[s] = c
    BY <1>0, <1>1, <1>2, Zenon DEF TypeOK
  <1>7. \A t \in Session \ {s} : pc[t] # "idle" /\ nameLock[t] = c => name[t] = n
    <2>1. CASE locks[n] = c
      BY <1>0, <2>1, SMTT(30) DEF UsedInv, EntryInv, NameInv, Uses
    <2>2. CASE Fresh(c)
      BY <2>2, Zenon DEF Fresh
    <2> QED BY <1>1, <2>1, <2>2, Zenon
  <1>8. MuInv'
    BY <1>0, <1>2, <1>5, <1>6, Zenon DEF MuInv
  <1>9. EntryInv'
    <2>1. \A t \in Session \ {s} : Uses(t) => locks'[name[t]] = locks[name[t]]
      BY <1>0, <1>1, <1>4, SMTT(30) DEF EntryInv, TypeOK
    <2>2. \A t \in Session : pc[t] # "release"
      BY <1>0, <1>2, Zenon DEF MuInv
    <2> QED BY <1>0, <1>4, <1>5, <1>6, <2>1, <2>2, SMTT(30) DEF EntryInv, Uses
  <1>10. NameInv'
    BY <1>0, <1>5, <1>6, <1>7, SMTT(30) DEF NameInv
  <1>11. UsedInv'
    <2> SUFFICES ASSUME NEW m \in Name, locks'[m] # Nil
                 PROVE  \E t \in Session : Uses(t)' /\ name'[t] = m
      BY Zenon DEF UsedInv
    <2>1. CASE m = n
      BY <2>1, <1>6, Zenon DEF Uses
    <2>2. CASE m # n
      <3>1. PICK t \in Session : Uses(t) /\ name[t] = m
        BY <1>0, <1>4, <2>2, Zenon DEF UsedInv
      <3> QED BY <3>1, <1>2, <1>5, Zenon DEF Uses
    <2> QED BY <2>1, <2>2, Zenon
  <1>12. HeldInv'
    <2>1. \A t \in Session \ {s} : Holds(t) => held'[nameLock[t]]
      <3> SUFFICES ASSUME NEW t \in Session \ {s}, Holds(t) PROVE held'[nameLock[t]]
        BY Zenon
      <3>1. held[nameLock[t]] /\ nameLock[t] \in LockCtr /\ pc[t] # "idle"
        BY <1>0, Zenon DEF HeldInv, EntryInv, Uses, Holds
      <3>2. CASE UNCHANGED held
        BY <3>1, <3>2, Zenon
      <3>3. CASE Fresh(c) /\ held' = [held EXCEPT ![c] = FALSE]
        <4>1. nameLock[t] # c
          BY <3>1, <3>3, Zenon DEF Fresh
        <4> QED BY <4>1, <3>1, <3>3, <1>0, Zenon DEF TypeOK
      <3> QED BY <3>2, <3>3, <1>1, Zenon
    <2> QED BY <1>0, <1>5, <1>6, <2>1, SMTT(30) DEF HeldInv, Holds
  <1>13. CountInv'
    <2> SUFFICES ASSUME NEW d \in LockCtr PROVE waiters'[d] = Cardinality(Registered(d)')
      BY Zenon DEF CountInv
    <2>1. CASE d # c
      <3>1. Registered(d)' = Registered(d)
        BY <2>1, <1>2, <1>5, <1>6, Zenon DEF Registered
      <3>2. waiters'[d] = waiters[d]
        BY <2>1, <1>0, <1>1, Zenon DEF TypeOK
      <3> QED BY <3>1, <3>2, <1>0, Zenon DEF CountInv
    <2>2. CASE d = c
      <3>1. Registered(d)' = Registered(d) \cup {s} /\ s \notin Registered(d)
        BY <2>2, <1>2, <1>5, <1>6, Zenon DEF Registered
      <3>2. Cardinality(Registered(d)') = Cardinality(Registered(d)) + 1
        BY <3>1, RegisteredFinite, FS_AddElement, Zenon
      <3>3. waiters'[d] = waiters[d] + 1
        <4>1. CASE locks[n] = c
          BY <4>1, <2>2, <1>0, <1>1, Zenon DEF TypeOK
        <4>2. CASE Fresh(c) /\ waiters' = [waiters EXCEPT ![c] = 1]
          <5>1. Registered(d) = {}
            BY <4>2, <2>2, Zenon DEF Registered, Fresh
          <5>2. waiters[d] = 0
            BY <5>1, <1>0, FS_EmptySet, Zenon DEF CountInv
          <5> QED BY <5>2, <4>2, <2>2, <1>0, SMTT(30) DEF TypeOK
        <4> QED BY <4>1, <4>2, <1>1, Zenon
      <3> QED BY <3>2, <3>3, <1>0, Zenon DEF CountInv
    <2> QED BY <2>1, <2>2, Zenon
  <1> QED
    BY <1>3, <1>8, <1>9, <1>10, <1>11, <1>12, <1>13, Zenon DEF IInv

(* nameLock.Lock() preserves the invariant: a free mutex has no holder.    *)
LEMMA AcquireIInv ==
    ASSUME IInv, NEW s \in Session, Acquire(s)
    PROVE  IInv'
  <1>0. TypeOK /\ MuInv /\ EntryInv /\ NameInv /\ UsedInv /\ HeldInv /\ CountInv
    BY Zenon DEF IInv
  <1>1. /\ pc[s] = "wait" /\ ~held[nameLock[s]]
        /\ held' = [held EXCEPT ![nameLock[s]] = TRUE]
        /\ pc' = [pc EXCEPT ![s] = "dec"]
        /\ UNCHANGED <<mu, locks, waiters, name, nameLock>>
    BY Zenon DEF Acquire
  <1>2. nameLock[s] \in LockCtr
    BY <1>0, <1>1, Zenon DEF EntryInv, Uses
  <1>3. pc'[s] = "dec" /\ \A t \in Session \ {s} : pc'[t] = pc[t]
    BY <1>0, <1>1, Zenon DEF TypeOK
  <1>4. TypeOK'
    <2>1. held' \in [LockCtr -> BOOLEAN]
      BY <1>0, <1>1, Zenon DEF TypeOK
    <2> QED BY <2>1, <1>0, <1>1, Zenon DEF TypeOK, PC
  <1>5. MuInv' /\ EntryInv' /\ NameInv'
    BY <1>0, <1>1, <1>3, SMTT(30) DEF MuInv, EntryInv, NameInv, Uses
  <1>6. UsedInv'
    BY <1>0, <1>1, <1>3, Zenon DEF UsedInv, Uses
  <1>7. HeldInv'
    <2>1. \A t \in Session : Holds(t) => nameLock[t] # nameLock[s]
      BY <1>0, <1>1, Zenon DEF HeldInv
    <2>2. held'[nameLock[s]]
      BY <1>0, <1>1, <1>2, Zenon DEF TypeOK
    <2>3. \A t \in Session : Holds(t) => held'[nameLock[t]]
      BY <2>1, <1>0, <1>1, SMTT(30) DEF HeldInv, TypeOK
    <2> QED BY <2>1, <2>2, <2>3, <1>0, <1>1, <1>3, SMTT(30) DEF HeldInv, Holds
  <1>8. CountInv'
    <2>1. \A c \in LockCtr : Registered(c)' = Registered(c)
      BY <1>1, <1>3, Zenon DEF Registered
    <2> QED BY <2>1, <1>0, <1>1, Zenon DEF CountInv
  <1> QED BY <1>4, <1>5, <1>6, <1>7, <1>8, Zenon DEF IInv

(* nameLock.dec() preserves the invariant: the count loses one session.    *)
LEMMA DeregisterIInv ==
    ASSUME IInv, NEW s \in Session, Deregister(s)
    PROVE  IInv'
  <1>0. TypeOK /\ MuInv /\ EntryInv /\ NameInv /\ UsedInv /\ HeldInv /\ CountInv
    BY Zenon DEF IInv
  <1> DEFINE c == nameLock[s]
  <1>1. /\ pc[s] = "dec"
        /\ waiters' = [waiters EXCEPT ![c] = @ - 1]
        /\ pc' = [pc EXCEPT ![s] = "cs"]
        /\ UNCHANGED <<mu, locks, held, name, nameLock>>
    BY Zenon DEF Deregister
  <1>2. c \in LockCtr
    BY <1>0, <1>1, Zenon DEF EntryInv, Uses
  <1>3. pc'[s] = "cs" /\ \A t \in Session \ {s} : pc'[t] = pc[t]
    BY <1>0, <1>1, Zenon DEF TypeOK
  <1>4. \A d \in LockCtr :
          waiters'[d] = Cardinality(Registered(d)') /\ waiters'[d] \in Nat
    <2> SUFFICES ASSUME NEW d \in LockCtr
                 PROVE  waiters'[d] = Cardinality(Registered(d)') /\ waiters'[d] \in Nat
      BY Zenon
    <2>1. CASE d # c
      <3>1. Registered(d)' = Registered(d)
        BY <2>1, <1>1, <1>3, Zenon DEF Registered
      <3>2. waiters'[d] = waiters[d] /\ waiters[d] \in Nat
        BY <2>1, <1>0, <1>1, Zenon DEF TypeOK
      <3> QED BY <3>1, <3>2, <1>0, Zenon DEF CountInv
    <2>2. CASE d = c
      <3>1. s \in Registered(d) /\ Registered(d)' = Registered(d) \ {s}
        BY <2>2, <1>1, <1>3, Zenon DEF Registered
      <3>2. /\ IsFiniteSet(Registered(d)')
            /\ Cardinality(Registered(d)') = Cardinality(Registered(d)) - 1
        BY <3>1, RegisteredFinite, FS_RemoveElement, Zenon
      <3>3. waiters'[d] = waiters[d] - 1
        BY <2>2, <1>0, <1>1, Zenon DEF TypeOK
      <3>4. Cardinality(Registered(d)') \in Nat
        BY <3>2, FS_CardinalityType, Zenon
      <3> QED BY <3>2, <3>3, <3>4, <1>0, Zenon DEF CountInv
    <2> QED BY <2>1, <2>2, Zenon
  <1>5. TypeOK'
    <2>1. waiters' \in [LockCtr -> Nat]
      BY <1>0, <1>1, <1>4, Zenon DEF TypeOK
    <2> QED BY <2>1, <1>0, <1>1, Zenon DEF TypeOK, PC
  <1>6. MuInv' /\ EntryInv' /\ NameInv'
    BY <1>0, <1>1, <1>3, SMTT(30) DEF MuInv, EntryInv, NameInv, Uses
  <1>7. UsedInv'
    BY <1>0, <1>1, <1>3, Zenon DEF UsedInv, Uses
  <1>8. HeldInv'
    BY <1>0, <1>1, <1>3, SMTT(30) DEF HeldInv, Holds
  <1>9. CountInv'
    BY <1>4, Zenon DEF CountInv
  <1> QED BY <1>5, <1>6, <1>7, <1>8, <1>9, Zenon DEF IInv

(* Unlock's lookup preserves the invariant: it finds the session's own     *)
(* lockCtr, and drops the entry only when no session is registered.        *)
LEMMA LookupIInv ==
    ASSUME IInv, NEW s \in Session, Lookup(s)
    PROVE  IInv'
  <1> USE SessionAssumption, LockCtrAssumption
  <1>0. TypeOK /\ MuInv /\ EntryInv /\ NameInv /\ UsedInv /\ HeldInv /\ CountInv
    BY Zenon DEF IInv
  <1> DEFINE c == nameLock[s]
             n == name[s]
  <1>1. pc[s] = "cs" /\ mu = Nil /\ locks[n] = c /\ c \in LockCtr /\ n \in Name
    BY <1>0, Zenon DEF Lookup, EntryInv, Uses, TypeOK
  <1>2. /\ mu' = s
        /\ nameLock' = [nameLock EXCEPT ![s] = c]
        /\ locks' = IF waiters[c] = 0 THEN [locks EXCEPT ![n] = Nil] ELSE locks
        /\ pc' = [pc EXCEPT ![s] = "release"]
        /\ UNCHANGED <<held, waiters, name>>
    BY <1>1, Zenon DEF Lookup
  <1>3. nameLock' = nameLock
    BY <1>0, <1>2, Zenon DEF TypeOK
  <1>4. pc'[s] = "release" /\ \A t \in Session \ {s} : pc'[t] = pc[t]
    BY <1>0, <1>2, Zenon DEF TypeOK
  <1>5. TypeOK'
    BY <1>0, <1>2, <1>3, Zenon DEF TypeOK, PC
  <1>6. \A t \in Session : pc[t] \in {"wait", "dec"} /\ nameLock[t] = c => waiters[c] # 0
    <2> SUFFICES ASSUME NEW t \in Session, pc[t] \in {"wait", "dec"}, nameLock[t] = c,
                        waiters[c] = 0
                 PROVE  FALSE
      BY Zenon
    <2>1. t \in Registered(c)
      BY Zenon DEF Registered
    <2>2. Cardinality(Registered(c)) = 0 /\ IsFiniteSet(Registered(c))
      BY <1>0, <1>1, RegisteredFinite, Zenon DEF CountInv
    <2> QED BY <2>1, <2>2, FS_EmptySet, Zenon
  <1>7. \A t \in Session \ {s} : Holds(t) => nameLock[t] # c
    BY <1>0, <1>1, Zenon DEF HeldInv, Holds
  <1>8. \A t \in Session \ {s} : Uses(t) => locks'[name[t]] = locks[name[t]]
    <2> SUFFICES ASSUME NEW t \in Session \ {s}, Uses(t)
                 PROVE  locks'[name[t]] = locks[name[t]]
      BY Zenon
    <2>1. CASE name[t] = n
      <3>1. nameLock[t] = c
        BY <2>1, <1>0, <1>1, Zenon DEF EntryInv
      <3>2. waiters[c] # 0
        BY <3>1, <1>6, <1>7, Zenon DEF Uses, Holds
      <3> QED BY <3>2, <1>2, Zenon
    <2>2. CASE name[t] # n
      BY <2>2, <1>0, <1>2, Zenon DEF TypeOK
    <2> QED BY <2>1, <2>2, Zenon
  <1>9. MuInv'
    BY <1>0, <1>1, <1>2, <1>4, Zenon DEF MuInv
  <1>10. EntryInv'
    <2>1. \A t \in Session : pc[t] # "release"
      BY <1>0, <1>1, Zenon DEF MuInv
    <2>2. locks'[n] \in {Nil, c}
      BY <1>0, <1>1, <1>2, Zenon DEF TypeOK
    <2> QED BY <2>1, <2>2, <1>0, <1>1, <1>2, <1>3, <1>4, <1>8, Zenon DEF EntryInv, Uses
  <1>11. NameInv'
    BY <1>0, <1>1, <1>2, <1>3, <1>4, SMTT(30) DEF NameInv
  <1>12. UsedInv'
    <2> SUFFICES ASSUME NEW m \in Name, locks'[m] # Nil
                 PROVE  \E t \in Session : Uses(t)' /\ name'[t] = m
      BY Zenon DEF UsedInv
    <2>1. CASE m = n
      <3>1. waiters[c] # 0
        BY <2>1, <1>0, <1>1, <1>2, Zenon DEF TypeOK
      <3>2. Registered(c) # {}
        BY <3>1, <1>0, <1>1, FS_EmptySet, Zenon DEF CountInv
      <3>3. PICK t \in Session : pc[t] \in {"wait", "dec"} /\ nameLock[t] = c
        BY <3>2, Zenon DEF Registered
      <3>4. name[t] = n
        BY <3>3, <1>0, <1>1, Zenon DEF NameInv
      <3> QED BY <3>3, <3>4, <2>1, <1>1, <1>2, <1>4, Zenon DEF Uses
    <2>2. CASE m # n
      <3>1. PICK t \in Session : Uses(t) /\ name[t] = m
        BY <2>2, <1>0, <1>2, Zenon DEF UsedInv, TypeOK
      <3> QED BY <3>1, <2>2, <1>2, <1>4, Zenon DEF Uses
    <2> QED BY <2>1, <2>2, Zenon
  <1>13. HeldInv'
    BY <1>0, <1>1, <1>2, <1>3, <1>4, SMTT(30) DEF HeldInv, Holds
  <1>14. CountInv'
    <2>1. \A d \in LockCtr : Registered(d)' = Registered(d)
      BY <1>1, <1>3, <1>4, Zenon DEF Registered
    <2> QED BY <2>1, <1>0, <1>2, Zenon DEF CountInv
  <1> QED BY <1>5, <1>9, <1>10, <1>11, <1>12, <1>13, <1>14, Zenon DEF IInv

(* nameLock.Unlock() preserves the invariant: no other session holds it.   *)
LEMMA ReleaseIInv ==
    ASSUME IInv, NEW s \in Session, Release(s)
    PROVE  IInv'
  <1> USE SessionAssumption, LockCtrAssumption
  <1>0. TypeOK /\ MuInv /\ EntryInv /\ NameInv /\ UsedInv /\ HeldInv /\ CountInv
    BY Zenon DEF IInv
  <1>1. /\ pc[s] = "release"
        /\ held' = [held EXCEPT ![nameLock[s]] = FALSE]
        /\ mu' = Nil
        /\ pc' = [pc EXCEPT ![s] = "idle"]
        /\ UNCHANGED <<locks, waiters, name, nameLock>>
    BY Zenon DEF Release
  <1>2. pc'[s] = "idle" /\ \A t \in Session \ {s} : pc'[t] = pc[t]
    BY <1>0, <1>1, Zenon DEF TypeOK
  <1>3. TypeOK'
    <2>1. held' \in [LockCtr -> BOOLEAN]
      BY <1>0, <1>1, Zenon DEF TypeOK
    <2> QED BY <2>1, <1>0, <1>1, Zenon DEF TypeOK, PC
  <1>4. MuInv' /\ EntryInv' /\ NameInv'
    BY <1>0, <1>1, <1>2, SMTT(30) DEF MuInv, EntryInv, NameInv, Uses
  <1>5. UsedInv'
    <2> SUFFICES ASSUME NEW m \in Name, locks'[m] # Nil
                 PROVE  \E t \in Session : Uses(t)' /\ name'[t] = m
      BY Zenon DEF UsedInv
    <2>1. PICK t \in Session : Uses(t) /\ name[t] = m
      BY <1>0, <1>1, Zenon DEF UsedInv
    <2> QED BY <2>1, <1>1, <1>2, Zenon DEF Uses
  <1>6. HeldInv'
    <2>1. \A t \in Session \ {s} : Holds(t) => held'[nameLock[t]]
      <3> SUFFICES ASSUME NEW t \in Session \ {s}, Holds(t) PROVE held'[nameLock[t]]
        BY Zenon
      <3>1. nameLock[t] # nameLock[s] /\ held[nameLock[t]] /\ nameLock[t] \in LockCtr
        BY <1>0, <1>1, Zenon DEF HeldInv, Holds, EntryInv, Uses
      <3> QED BY <3>1, <1>0, <1>1, Zenon DEF TypeOK
    <2> QED BY <2>1, <1>0, <1>1, <1>2, Zenon DEF HeldInv, Holds
  <1>7. CountInv'
    <2>1. \A c \in LockCtr : Registered(c)' = Registered(c)
      BY <1>1, <1>2, Zenon DEF Registered
    <2> QED BY <2>1, <1>0, <1>1, Zenon DEF CountInv
  <1> QED BY <1>3, <1>4, <1>5, <1>6, <1>7, Zenon DEF IInv

-----------------------------------------------------------------------------
(* The strengthened invariant holds of every behaviour of the named locks. *)
THEOREM Invariance == Spec => []IInv
  <1>1. IInv /\ [Next]_vars => IInv'
    <2> SUFFICES ASSUME IInv, [Next]_vars PROVE IInv'
      BY Zenon
    <2>1. CASE Next
      <3>1. PICK s \in Session : Step(s)
        BY <2>1, Zenon DEF Next
      <3> QED
        BY <3>1, RegisterIInv, AcquireIInv, DeregisterIInv, LookupIInv, ReleaseIInv, Zenon DEF Step
    <2>2. CASE UNCHANGED vars
      BY <2>2, SMTT(30) DEF vars, IInv, TypeOK, MuInv, EntryInv, NameInv, UsedInv, HeldInv, CountInv,
                  Uses, Holds, Registered
    <2> QED BY <2>1, <2>2, Zenon
  <1> QED BY <1>1, InitIInv, PTL DEF Spec

(* Lock and Unlock of maplock.go keep the types of their state.            *)
THEOREM TypeCorrect == Spec => []TypeOK
  <1>1. IInv => TypeOK
    BY Zenon DEF IInv
  <1> QED BY <1>1, Invariance, PTL

(* For any number of goroutines and names, two goroutines are never        *)
(* between Lock(name) and Unlock(name) of the same name.                   *)
THEOREM MutexTheorem == Spec => []MutualExclusion
  <1>1. IInv => MutualExclusion
    <2> SUFFICES ASSUME IInv, NEW s \in Session, NEW t \in Session,
                        Holds(s), Holds(t), name[s] = name[t]
                 PROVE  s = t
      BY Zenon DEF MutualExclusion
    <2> USE SessionAssumption, LockCtrAssumption
    <2>1. MuInv /\ EntryInv /\ HeldInv /\ NameInv
      BY Zenon DEF IInv
    <2>2. CASE nameLock[s] = nameLock[t]
      BY <2>1, <2>2, Zenon DEF HeldInv
    <2>3. CASE pc[s] = "release" /\ pc[t] = "release"
      BY <2>1, <2>3, Zenon DEF MuInv
    <2>4. CASE nameLock[s] # nameLock[t] /\ (pc[s] # "release" \/ pc[t] # "release")
      <3>1. locks[name[s]] = nameLock[s] \/ locks[name[t]] = nameLock[t]
        BY <2>1, <2>4, Zenon DEF EntryInv, Uses, Holds
      <3>2. ~(Uses(s) /\ Uses(t))
        BY <2>1, <2>4, Zenon DEF EntryInv
      <3> QED BY <2>1, <2>4, <3>1, <3>2, Zenon DEF EntryInv, Uses, Holds
    <2> QED BY <2>2, <2>3, <2>4, Zenon
  <1> QED BY <1>1, Invariance, PTL

(* Unlock never reports ErrNoSuchLock to a holder, nor unlocks a mutex     *)
(* other than the one its Lock locked.                                     *)
THEOREM UnlockTheorem == Spec => []UnlockFindsOwnLock
  <1>1. IInv => UnlockFindsOwnLock
    BY Zenon DEF IInv, EntryInv, Uses, UnlockFindsOwnLock
  <1> QED BY <1>1, Invariance, PTL

(* Every map entry belongs to a session that is using its name.            *)
THEOREM NoLeakTheorem == Spec => []NoLeakedLock
  <1>1. IInv => NoLeakedLock
    BY Zenon DEF IInv, UsedInv, Uses, NoLeakedLock
  <1> QED BY <1>1, Invariance, PTL
=============================================================================
