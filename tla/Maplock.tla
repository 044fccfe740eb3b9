------------------------------ MODULE Maplock ------------------------------
(***************************************************************************)
(* The named locks of utils/maplock.go, which the gateway service uses for *)
(* "lk-order-<id>", "timeout" and "complete".                              *)
(*                                                                         *)
(* A session is one Lock(name) ... Unlock(name) pair of a goroutine.  The  *)
(* main mutex mu makes the code it guards atomic with respect to other     *)
(* code it guards; Lock's block under mu (lines 60-74) never waits inside, *)
(* so it is one step.  Unlock's block is two steps, because the waiter     *)
(* count it reads is also changed outside mu, by dec().                    *)
(***************************************************************************)
EXTENDS Integers, FiniteSets

CONSTANTS
    Session,   \* goroutines that lock and unlock
    Name,      \* lock names
    LockCtr,   \* identities of *lockCtr values
    Nil        \* the nil pointer, the empty map entry, the free mutex

ASSUME SessionAssumption == IsFiniteSet(Session) /\ Nil \notin Session
ASSUME LockCtrAssumption == Nil \notin LockCtr

VARIABLES
    mu,        \* Maplock.mu: the session that holds it, or Nil
    locks,     \* Maplock.locks: name -> *lockCtr
    held,      \* lockCtr.mu is locked (a sync.Mutex records no owner)
    waiters,   \* lockCtr.waiters
    pc,        \* where each session is
    name,      \* the name argument of each session
    nameLock   \* the local variable nameLock of each session

vars == <<mu, locks, held, waiters, pc, name, nameLock>>

(* idle: outside; wait: registered, before nameLock.Lock(); dec: locked,   *)
(* before nameLock.dec(); cs: Lock has returned; release: in Unlock, mu    *)
(* held, before nameLock.Unlock(); noSuchLock: Unlock returned its error.  *)
PC == {"idle", "wait", "dec", "cs", "release", "noSuchLock"}

TypeOK ==
    /\ mu \in Session \cup {Nil}
    /\ locks \in [Name -> LockCtr \cup {Nil}]
    /\ held \in [LockCtr -> BOOLEAN]
    /\ waiters \in [LockCtr -> Nat]
    /\ pc \in [Session -> PC]
    /\ name \in [Session -> Name]
    /\ nameLock \in [Session -> LockCtr \cup {Nil}]

Init ==
    /\ mu = Nil
    /\ locks = [n \in Name |-> Nil]
    /\ held = [c \in LockCtr |-> FALSE]
    /\ waiters = [c \in LockCtr |-> 0]
    /\ pc = [s \in Session |-> "idle"]
    /\ name \in [Session -> Name]
    /\ nameLock = [s \in Session |-> Nil]

-----------------------------------------------------------------------------
(* &lockCtr{} yields a value that neither the map nor a goroutine holds.   *)
Fresh(c) ==
    /\ \A n \in Name : locks[n] # c
    /\ \A s \in Session : pc[s] # "idle" => nameLock[s] # c

(* Lock, lines 60-74: find or create the entry and register as a waiter.   *)
Register(s, n) ==
    /\ pc[s] = "idle"
    /\ mu = Nil
    /\ \E c \in LockCtr :
        /\ \/ /\ locks[n] = c
              /\ waiters' = [waiters EXCEPT ![c] = @ + 1]
              /\ UNCHANGED <<locks, held>>
           \/ /\ locks[n] = Nil
              /\ Fresh(c)
              /\ locks' = [locks EXCEPT ![n] = c]
              /\ held' = [held EXCEPT ![c] = FALSE]
              /\ waiters' = [waiters EXCEPT ![c] = 1]
        /\ nameLock' = [nameLock EXCEPT ![s] = c]
    /\ pc' = [pc EXCEPT ![s] = "wait"]
    /\ name' = [name EXCEPT ![s] = n]
    /\ UNCHANGED mu

(* Lock, line 78: nameLock.Lock(), outside the main mutex.                 *)
Acquire(s) ==
    /\ pc[s] = "wait"
    /\ ~held[nameLock[s]]
    /\ held' = [held EXCEPT ![nameLock[s]] = TRUE]
    /\ pc' = [pc EXCEPT ![s] = "dec"]
    /\ UNCHANGED <<mu, locks, waiters, name, nameLock>>

(* Mutant of Deregister: the waiter stays counted (no nameLock.dec()).     *)
DeregisterForgotten(s) ==
    /\ pc[s] = "dec"
    /\ pc' = [pc EXCEPT ![s] = "cs"]
    /\ UNCHANGED <<mu, locks, held, waiters, name, nameLock>>

(* Lock, line 79: nameLock.dec(); Lock returns.                            *)
Deregister(s) ==
    /\ pc[s] = "dec"
    /\ waiters' = [waiters EXCEPT ![nameLock[s]] = @ - 1]
    /\ pc' = [pc EXCEPT ![s] = "cs"]
    /\ UNCHANGED <<mu, locks, held, name, nameLock>>

(* Mutant of Lookup: the entry is dropped whoever waits for it.            *)
LookupDropsAlways(s) ==
    /\ pc[s] = "cs"
    /\ mu = Nil
    /\ LET c == locks[name[s]] IN
        IF c = Nil
        THEN /\ pc' = [pc EXCEPT ![s] = "noSuchLock"]
             /\ UNCHANGED <<mu, locks, nameLock>>
        ELSE /\ mu' = s
             /\ nameLock' = [nameLock EXCEPT ![s] = c]
             /\ locks' = [locks EXCEPT ![name[s]] = Nil]
             /\ pc' = [pc EXCEPT ![s] = "release"]
    /\ UNCHANGED <<held, waiters, name>>

(* Unlock, lines 85-94: look the name up again; drop the entry nobody      *)
(* waits for.  A missing entry is ErrNoSuchLock.                           *)
Lookup(s) ==
    /\ pc[s] = "cs"
    /\ mu = Nil
    /\ LET c == locks[name[s]] IN
        IF c = Nil
        THEN /\ pc' = [pc EXCEPT ![s] = "noSuchLock"]
             /\ UNCHANGED <<mu, locks, nameLock>>
        ELSE /\ mu' = s
             /\ nameLock' = [nameLock EXCEPT ![s] = c]
             /\ locks' = IF waiters[c] = 0 THEN [locks EXCEPT ![name[s]] = Nil] ELSE locks
             /\ pc' = [pc EXCEPT ![s] = "release"]
    /\ UNCHANGED <<held, waiters, name>>

(* Mutant of Release: an early return leaves the named mutex locked.       *)
ReleaseKeepsMutex(s) ==
    /\ pc[s] = "release"
    /\ mu' = Nil
    /\ pc' = [pc EXCEPT ![s] = "idle"]
    /\ UNCHANGED <<locks, held, waiters, name, nameLock>>

(* Unlock, lines 95-98: nameLock.Unlock() and the main mutex.              *)
Release(s) ==
    /\ pc[s] = "release"
    /\ held' = [held EXCEPT ![nameLock[s]] = FALSE]
    /\ mu' = Nil
    /\ pc' = [pc EXCEPT ![s] = "idle"]
    /\ UNCHANGED <<locks, waiters, name, nameLock>>

Step(s) ==
    \/ \E n \in Name : Register(s, n)
    \/ Acquire(s)
    \/ Deregister(s)
    \/ Lookup(s)
    \/ Release(s)

Next == \E s \in Session : Step(s)

(* The scheduler runs every goroutine that can run; a sync.Mutex in its    *)
(* starvation mode hands the lock to a waiter, hence strong fairness for   *)
(* the two places that wait for a mutex.  Registering is not fair: nobody  *)
(* has to call Lock.                                                       *)
Fairness ==
    \A s \in Session :
        /\ SF_vars(Acquire(s))
        /\ WF_vars(Deregister(s))
        /\ SF_vars(Lookup(s))
        /\ WF_vars(Release(s))

Spec == Init /\ [][Next]_vars

FairSpec == Spec /\ Fairness

-----------------------------------------------------------------------------
(* A session that has locked and not yet unlocked its name.                *)
Holds(s) == pc[s] \in {"dec", "cs", "release"}

(* Two sessions never hold the same name, although lockCtr values are      *)
(* deleted from the map and recreated while others come and go (Lock and   *)
(* Unlock of maplock.go; the comment at lines 71-72).                      *)
MutualExclusion ==
    \A s, t \in Session : Holds(s) /\ Holds(t) /\ name[s] = name[t] => s = t

(* Unlock of a held name always finds the very lockCtr that Lock locked:   *)
(* it never returns ErrNoSuchLock (line 89) and never unlocks another      *)
(* session's mutex.                                                        *)
UnlockFindsOwnLock ==
    /\ \A s \in Session : pc[s] # "noSuchLock"
    /\ \A s \in Session : pc[s] \in {"wait", "dec", "cs"} => locks[name[s]] = nameLock[s]

(* "If the given lock is not being waited on by any other callers, it is   *)
(* deleted" (line 83): the map keeps no entry that no session uses, so it  *)
(* does not grow with the number of orders ever handled.                   *)
NoLeakedLock ==
    \A n \in Name : locks[n] # Nil => \E s \in Session : pc[s] # "idle" /\ name[s] = n

(* Every caller of Lock gets the lock: nobody waits for ever on a lockCtr  *)
(* that was dropped from the map while they waited (lines 73-79, 92-95).   *)
EveryWaiterLocks == \A s \in Session : pc[s] = "wait" ~> pc[s] = "cs"
=============================================================================
