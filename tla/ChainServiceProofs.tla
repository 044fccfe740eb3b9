------------------------- MODULE ChainServiceProofs -------------------------
(***************************************************************************)
(* The address pool, the jobs and the results of ChainService, for any     *)
(* pool, any number of callers and calls and any outcome of the chain.     *)
(* The two halves of AddressIsExclusive, one holder and the mark of the    *)
(* address, are inductive together; with the places of the jobs (JobInv)   *)
(* they give OneTxPerPoolAddress.  That a caller that waits has a job      *)
(* needs more (WaitInv): the channel it found is one that was made, and    *)
(* no loop with a job is started anew.                                     *)
(***************************************************************************)
EXTENDS ChainService, FiniteSetTheorems, TLAPS

Phase == {"cli", "starting", "running", "stopping", "stopChan", "closing", "notify",
          "exited", "panicked"}

CallState == [pc : {"idle", "lookup", "make", "sleep", "blocked", "wait", "return"},
              addr : Address \cup {NoAddress}, ch : 0 .. MaxCalls, decode : BOOLEAN,
              result : {"none", "err", "ok"}]

LoopState == [pc : {"none", "select", "broadcast", "stuck", "stopped"}, job : Goroutine]

(* Calls, loops and the phase are of their types; the rest of TypeOK is    *)
(* part of what follows.                                                   *)
FieldInv ==
    /\ phase \in Phase
    /\ chans \in [Address -> Nat]
    /\ closed \subseteq Channel
    /\ loop \in [Channel -> LoopState]
    /\ call \in [Goroutine -> CallState]
    /\ tx \in [Goroutine -> BOOLEAN]

(* The pool. *)
Calling ==
    /\ DOMAIN call = Goroutine
    /\ DOMAIN pool \subseteq PoolAddress
    /\ \A a \in DOMAIN pool : pool[a] \in {"Available", "InUse"}

PoolInv == Calling /\ AddressIsExclusive

(* No address is handed out when the process starts.                       *)
LEMMA InitPoolInv == Init => PoolInv
<1> SUFFICES ASSUME Init PROVE PoolInv
  BY Zenon
<1>1. \A g \in Goroutine, a \in PoolAddress : ~Holds(g, a)
  BY Zenon DEF Init, Holds, NoCall
<1>2. Calling
  <2>1. CASE pool \in LoadAddressPool
    BY <2>1, ChainAssumption, Zenon DEF Init, Calling, LoadAddressPool
  <2>2. CASE pool = << >>
    BY <2>2, SMTT(30) DEF Init, Calling
  <2> QED BY <2>1, <2>2, Zenon DEF Init
<1>3. \A a \in DOMAIN pool : pool[a] = "Available"
  <2>1. CASE pool \in LoadAddressPool
    BY <2>1, Zenon DEF LoadAddressPool
  <2>2. CASE pool = << >>
    BY <2>2, SMTT(30)
  <2> QED BY <2>1, <2>2, Zenon DEF Init
<1> QED BY <1>1, <1>2, <1>3, Zenon DEF PoolInv, Calling, AddressIsExclusive

(* A step in which every call stays under way, or out of the way, with its *)
(* address, and which leaves the pool alone.                               *)
LEMMA KeepPoolInv ==
    ASSUME FieldInv, PoolInv, UNCHANGED pool, DOMAIN call' = Goroutine,
           \A g \in Goroutine : /\ call'[g].addr = call[g].addr
                                /\ (call'[g].pc = "idle") <=> (call[g].pc = "idle")
    PROVE  PoolInv'
<1>1. \A g \in Goroutine, a \in PoolAddress : Holds(g, a)' <=> Holds(g, a)
  BY Zenon DEF Holds
<1> QED BY <1>1, Zenon DEF PoolInv, Calling, AddressIsExclusive

(* The pool goes with the process.                                         *)
LEMMA ExitPoolInv ==
    ASSUME FieldInv, PoolInv, NEW how, Exit(how) PROVE PoolInv'
  BY SMTT(30) DEF Exit, PoolInv, Calling, AddressIsExclusive

(* A call that begins with the node's address, or with none.               *)
LEMMA BeginOwnPoolInv ==
    ASSUME FieldInv, PoolInv, NEW g \in Goroutine, NEW addr \in {Node, NoAddress},
           NEW found, NEW decode, Begin(g, addr, found, decode), UNCHANGED pool
    PROVE  PoolInv'
<1>1. /\ DOMAIN call' = Goroutine /\ call'[g].addr = addr
      /\ \A h \in Goroutine \ {g} : call'[h] = call[h]
  BY SMTT(30) DEF Begin, PoolInv, Calling
<1>2. \A h \in Goroutine, a \in PoolAddress : Holds(h, a)' <=> Holds(h, a)
  <2>1. \A a \in PoolAddress : ~Holds(g, a) /\ ~Holds(g, a)'
    BY <1>1, ChainAssumption, SMTT(30) DEF Begin, Holds, Address
  <2> QED BY <1>1, <2>1, Zenon DEF Holds
<1> QED BY <1>1, <1>2, Zenon DEF PoolInv, Calling, AddressIsExclusive

(* GetRandomAddress hands out an address nobody holds.                     *)
LEMMA BeginPoolInv ==
    ASSUME FieldInv, PoolInv, NEW g \in Goroutine, NEW a \in DOMAIN pool,
           NEW found, NEW decode, GetRandomAddress(a), Begin(g, a, found, decode)
    PROVE  PoolInv'
<1>1. /\ DOMAIN call' = Goroutine /\ call'[g].addr = a
      /\ call'[g].pc # "idle"
      /\ \A h \in Goroutine \ {g} : call'[h] = call[h]
  BY SMTT(30) DEF Begin, PoolInv, Calling
<1>2. /\ DOMAIN pool' = DOMAIN pool /\ pool'[a] = "InUse"
      /\ \A b \in DOMAIN pool \ {a} : pool'[b] = pool[b]
  BY Zenon DEF GetRandomAddress
<1>3. Calling'
  BY <1>1, <1>2, Zenon DEF PoolInv, Calling
<1>4. ~Holds(g, a) /\ \A b \in DOMAIN pool : ~Holds(g, b)
  BY Zenon DEF Begin, Holds
<1>5. \A b \in DOMAIN pool : Holds(g, b)' <=> b = a /\ a # Node
  BY <1>1, Zenon DEF Holds
<1>6. \A b \in DOMAIN pool, h \in Goroutine \ {g} : Holds(h, b)' <=> Holds(h, b)
  BY <1>1, Zenon DEF Holds
<1>7. a # Node => \A h \in Goroutine : ~Holds(h, a)
  BY Zenon DEF PoolInv, AddressIsExclusive, GetRandomAddress
<1>8. AddressIsExclusive'
  <2> SUFFICES ASSUME NEW b \in DOMAIN pool, b # Node
               PROVE  /\ \A h, i \in Goroutine : Holds(h, b)' /\ Holds(i, b)' => h = i
                      /\ pool'[b] = "InUse" <=> \E h \in Goroutine : Holds(h, b)'
    BY <1>2, Zenon DEF AddressIsExclusive
  <2>1. CASE b = a
    BY <2>1, <1>2, <1>5, <1>6, <1>7, Zenon
  <2>2. CASE b # a
    BY <2>2, <1>2, <1>4, <1>5, <1>6, SMTT(30) DEF PoolInv, AddressIsExclusive
  <2> QED BY <2>1, <2>2, Zenon
<1> QED BY <1>3, <1>8, Zenon DEF PoolInv

(* Every method begins in one of these two ways.                           *)
LEMMA BeginCallPoolInv ==
    ASSUME FieldInv, PoolInv, NEW g \in Goroutine, BeginCall(g) PROVE PoolInv'
<1>1. ASSUME NEW account, NEW decode, Pooled(g, account, decode) PROVE PoolInv'
  BY <1>1, BeginOwnPoolInv, BeginPoolInv, Zenon DEF Pooled
<1>2. ASSUME NEW account, NEW decode, Own(g, account, decode) PROVE PoolInv'
  BY <1>2, BeginOwnPoolInv, Zenon DEF Own
<1> QED
  BY <1>1, <1>2, Zenon
  DEF BeginCall, OrderReady, StoreOrder, CompleteOrder, RenewOrder, MigrateOrder,
      TerminateOrder, UpdatePermission, Reset, ReportFaults, RecoverFaults,
      Create, ClaimReward, AddVstorage, RemoveVstorage, UpdateDidBinding

(* Sending keeps the call under way, or the process panics.                *)
LEMMA SendPoolInv ==
    ASSUME FieldInv, PoolInv, NEW g \in Goroutine, NEW c, call[g].pc # "idle", Send(g, c)
    PROVE  PoolInv'
<1>1. CASE c \in closed
  BY <1>1, ExitPoolInv, Zenon DEF Send
<1>2. CASE c \notin closed
  <2>1. UNCHANGED pool
    BY <1>2, Zenon DEF Send
  <2>2. DOMAIN call' = Goroutine
    BY <1>2, Zenon DEF Send, PoolInv, Calling
  <2>3. \A h \in Goroutine : /\ call'[h].addr = call[h].addr
                             /\ (call'[h].pc = "idle") <=> (call[h].pc = "idle")
    <3>1. PICK pc \in {"wait", "blocked"}, ch \in {0, c} :
              call' = [call EXCEPT ![g].pc = pc, ![g].ch = ch]
      BY <1>2, Zenon DEF Send
    <3> QED BY <3>1, Zenon DEF FieldInv, CallState
  <2> QED BY <2>1, <2>2, <2>3, KeepPoolInv, Zenon
<1> QED BY <1>1, <1>2, Zenon

(* The deferred function gives back the address of the call that ends, and *)
(* no other.                                                               *)
LEMMA ReturnPoolInv ==
    ASSUME FieldInv, PoolInv, NEW g \in Goroutine, Return(g) PROVE PoolInv'
<1>1. CASE Exit("exited")
  BY <1>1, ExitPoolInv, Zenon
<1>2. CASE /\ Release(g) /\ call' = [call EXCEPT ![g] = NoCall]
  <2>1. /\ DOMAIN call' = Goroutine /\ call'[g].pc = "idle"
        /\ \A h \in Goroutine \ {g} : call'[h] = call[h]
    BY <1>2, Zenon DEF PoolInv, Calling, NoCall
  <2>2. \A b \in DOMAIN pool, h \in Goroutine :
            Holds(h, b)' <=> h # g /\ Holds(h, b)
    BY <2>1, Zenon DEF Holds
  <2>3. call[g].pc # "idle"
    BY Zenon DEF Return, At
  <2>4. CASE call[g].addr \in DOMAIN pool /\ call[g].addr # Node
    <3> DEFINE a == call[g].addr
    <3>1. Holds(g, a) /\ pool[a] = "InUse" /\ pool # << >>
      BY <2>3, <2>4, SMTT(30) DEF Holds, PoolInv, AddressIsExclusive
    <3>2. pool' = [pool EXCEPT ![a] = "Available"]
      BY <1>2, <2>4, <3>1, Zenon DEF Release, SetAddressAvailable
    <3>3. /\ DOMAIN pool' = DOMAIN pool /\ pool'[a] = "Available"
          /\ \A b \in DOMAIN pool \ {a} : pool'[b] = pool[b]
      BY <3>2, <2>4, Zenon
    <3>4. \A b \in DOMAIN pool \ {a} : ~Holds(g, b)
      BY Zenon DEF Holds
    <3>5. \A h \in Goroutine : Holds(h, a) => h = g
      BY <3>1, <2>4, Zenon DEF PoolInv, AddressIsExclusive
    <3> QED BY <2>1, <2>2, <3>3, <3>4, <3>5, SMTT(30) DEF PoolInv, Calling, AddressIsExclusive
  <2>5. CASE ~(call[g].addr \in DOMAIN pool /\ call[g].addr # Node)
    <3>1. pool' = pool
      BY <1>2, <2>5, Zenon DEF Release, SetAddressAvailable
    <3>2. \A b \in DOMAIN pool \ {Node} : ~Holds(g, b)
      BY <2>5, Zenon DEF Holds
    <3> QED BY <2>1, <2>2, <3>1, <3>2, Zenon DEF PoolInv, Calling, AddressIsExclusive
  <2> QED BY <2>4, <2>5, Zenon
<1> QED BY <1>1, <1>2, Zenon DEF Return

(* Every step keeps the invariant.                                         *)
LEMMA NextPoolInv == FieldInv /\ PoolInv /\ [Next]_vars => PoolInv'
<1> SUFFICES ASSUME FieldInv, PoolInv, [Next]_vars PROVE PoolInv'
  BY Zenon
<1>1. ASSUME NEW g \in Goroutine, CallStep(g) PROVE PoolInv'
  <2>1. CASE Lookup(g)
    <3>1. CASE chans[call[g].addr] = 0
      <4>1. call' = [call EXCEPT ![g].pc = "make"] /\ UNCHANGED pool
        BY <2>1, <3>1, Zenon DEF Lookup, Goto
      <4>2. call[g].pc = "lookup"
        BY <2>1, Zenon DEF Lookup, At
      <4>3. \A h \in Goroutine : /\ call'[h].addr = call[h].addr
                                 /\ (call'[h].pc = "idle") <=> (call[h].pc = "idle")
        BY <4>1, <4>2, Zenon DEF FieldInv, CallState
      <4> QED BY <4>1, <4>3, KeepPoolInv, Zenon DEF PoolInv, Calling
    <3>2. CASE chans[call[g].addr] # 0
      BY <2>1, <3>2, SendPoolInv, Zenon DEF Lookup, At
    <3> QED BY <3>1, <3>2, Zenon
  <2>2. CASE MakeChan(g)
    <3>1. call' = [call EXCEPT ![g].pc = "sleep"] /\ UNCHANGED pool
      BY <2>2, Zenon DEF MakeChan, Goto
    <3>2. call[g].pc = "make"
      BY <2>2, Zenon DEF MakeChan, At
    <3>3. \A h \in Goroutine : /\ call'[h].addr = call[h].addr
                               /\ (call'[h].pc = "idle") <=> (call[h].pc = "idle")
      BY <3>1, <3>2, Zenon DEF FieldInv, CallState
    <3> QED BY <3>1, <3>3, KeepPoolInv, Zenon DEF PoolInv, Calling
  <2>3. CASE WakeAndSend(g) \/ SendBlocked(g)
    BY <2>3, SendPoolInv, Zenon DEF WakeAndSend, SendBlocked, At
  <2>4. CASE Return(g)
    BY <2>4, ReturnPoolInv, Zenon
  <2> QED BY <1>1, <2>1, <2>2, <2>3, <2>4, Zenon DEF CallStep
<1>2. ASSUME NEW c \in Channel, LoopStep(c) PROVE PoolInv'
  <2>1. CASE TakeJob(c) \/ TakeZeroJob(c)
    BY <2>1, KeepPoolInv, Zenon DEF TakeJob, TakeZeroJob, PoolInv, Calling
  <2>2. CASE Broadcast(c)
    <3>1. PICK result : call' = [call EXCEPT ![loop[c].job].pc = "return",
                                            ![loop[c].job].result = result]
      BY <2>2, Zenon DEF Broadcast
    <3>2. call[loop[c].job].pc = "wait" /\ UNCHANGED pool
      BY <2>2, Zenon DEF Broadcast
    <3>3. DOMAIN call' = Goroutine
      BY <3>1, Zenon DEF PoolInv, Calling
    <3>4. \A h \in Goroutine : /\ call'[h].addr = call[h].addr
                               /\ (call'[h].pc = "idle") <=> (call[h].pc = "idle")
      <4> SUFFICES ASSUME NEW h \in Goroutine
                   PROVE  /\ call'[h].addr = call[h].addr
                          /\ (call'[h].pc = "idle") <=> (call[h].pc = "idle")
        BY Zenon
      <4>1. CASE h = loop[c].job
        <5>1. /\ call[h] \in CallState
              /\ call'[h] = [call[h] EXCEPT !.pc = "return", !.result = result]
          BY <3>1, <4>1, Zenon DEF FieldInv
        <5>2. call'[h].addr = call[h].addr /\ call'[h].pc = "return"
          BY <5>1, Zenon DEF CallState
        <5> QED BY <3>2, <4>1, <5>2, Zenon
      <4>2. CASE h # loop[c].job
        BY <3>1, <4>2, Zenon DEF FieldInv
      <4> QED BY <4>1, <4>2, Zenon
    <3> QED BY <3>2, <3>3, <3>4, KeepPoolInv, Zenon
  <2> QED BY <1>2, <2>1, <2>2, Zenon DEF LoopStep
<1>3. CASE ConcurrentMapWrites
  BY <1>3, ExitPoolInv, Zenon DEF ConcurrentMapWrites
<1>4. ASSUME NEW c \in Channel, StopLoop(c) PROVE PoolInv'
  BY <1>4, KeepPoolInv, Zenon DEF StopLoop, PoolInv, Calling
<1>5. CASE MonitorShutdown
  BY <1>5, KeepPoolInv, Zenon DEF MonitorShutdown, Step, PoolInv, Calling
<1>6. CASE StopStep
  BY <1>6, KeepPoolInv, ExitPoolInv, Zenon
  DEF StopStep, StopOthers, CloseChans, ExitNode, Step, PoolInv, Calling
<1>7. CASE UNCHANGED vars
  BY <1>7, KeepPoolInv, Zenon DEF vars, PoolInv, Calling
<1> QED BY <1>1, <1>2, <1>3, <1>4, <1>5, <1>6, <1>7, BeginCallPoolInv, Zenon DEF Next

-----------------------------------------------------------------------------
(* The jobs of the calls. *)

Queued(c, g) == queue[c] = <<g>>
Busy(c, g) == loop[c].pc = "broadcast" /\ loop[c].job = g

JobShape ==
    /\ DOMAIN call = Goroutine /\ DOMAIN queue = Channel /\ DOMAIN loop = Channel
    /\ \A c \in Channel : queue[c] = << >> \/ \E g \in Goroutine : queue[c] = <<g>>

(* The job of a call is in at most one place, and only while the call      *)
(* waits for its result.                                                   *)
AtMostOnce(g) ==
    \A c, d \in Channel :
        /\ Queued(c, g) \/ Busy(c, g) => call[g].pc = "wait"
        /\ Queued(c, g) /\ Queued(d, g) => c = d
        /\ Busy(c, g) /\ Busy(d, g) => c = d
        /\ ~(Queued(c, g) /\ Busy(d, g))

JobInv == JobShape /\ \A g \in Goroutine : AtMostOnce(g)

(* A step that puts no job anywhere and ends no wait for a job.            *)
LEMMA KeepJobInv ==
    ASSUME JobInv, JobShape',
           \A c \in Channel, g \in Goroutine :
               /\ Queued(c, g)' => Queued(c, g)
               /\ Busy(c, g)' => Busy(c, g)
               /\ Queued(c, g)' \/ Busy(c, g)' => call'[g].pc = "wait"
    PROVE  JobInv'
<1> SUFFICES ASSUME NEW g \in Goroutine, NEW c \in Channel, NEW d \in Channel
             PROVE  /\ Queued(c, g)' \/ Busy(c, g)' => call'[g].pc = "wait"
                    /\ Queued(c, g)' /\ Queued(d, g)' => c = d
                    /\ Busy(c, g)' /\ Busy(d, g)' => c = d
                    /\ ~(Queued(c, g)' /\ Busy(d, g)')
  BY Zenon DEF JobInv, AtMostOnce
<1>1. AtMostOnce(g)
  BY Zenon DEF JobInv
<1> QED BY <1>1, Zenon DEF AtMostOnce

(* The common case: jobs and loops stay, and only a goroutine that does    *)
(* not wait moves.                                                         *)
LEMMA MoveJobInv ==
    ASSUME FieldInv, JobInv, UNCHANGED <<queue, loop>>, NEW g \in Goroutine, call[g].pc # "wait",
           DOMAIN call' = Goroutine, \A h \in Goroutine \ {g} : call'[h] = call[h]
    PROVE  JobInv'
<1>1. JobShape'
  BY Zenon DEF JobInv, JobShape
<1>2. \A c \in Channel, h \in Goroutine :
          /\ Queued(c, h)' <=> Queued(c, h)
          /\ Busy(c, h)' <=> Busy(c, h)
  BY Zenon DEF Queued, Busy
<1>3. \A c \in Channel, h \in Goroutine : Queued(c, h) \/ Busy(c, h) => call'[h].pc = "wait"
  <2>1. \A c \in Channel, h \in Goroutine : Queued(c, h) \/ Busy(c, h) => call[h].pc = "wait"
    BY Zenon DEF JobInv, AtMostOnce
  <2> QED BY <2>1, Zenon
<1> QED BY <1>1, <1>2, <1>3, KeepJobInv, Zenon

(* Jobs and loops go with the process.                                     *)
LEMMA ExitJobInv ==
    ASSUME NEW how, Exit(how) PROVE JobInv'
<1>1. JobShape'
  BY Zenon DEF Exit, JobShape
<1>2. \A c \in Channel, g \in Goroutine : ~Queued(c, g)' /\ ~Busy(c, g)'
  BY Zenon DEF Exit, Queued, Busy, NoLoop
<1> QED BY <1>1, <1>2, Zenon DEF JobInv, AtMostOnce

LEMMA InitJobInv == Init => JobInv
<1> SUFFICES ASSUME Init PROVE JobInv
  BY Zenon
<1>1. JobShape
  BY Zenon DEF Init, JobShape
<1>2. \A c \in Channel, g \in Goroutine : ~Queued(c, g) /\ ~Busy(c, g)
  BY Zenon DEF Init, Queued, Busy, NoLoop
<1> QED BY <1>1, <1>2, Zenon DEF JobInv, AtMostOnce

(* A caller that sends has no job anywhere, and puts one into a channel    *)
(* that was empty.                                                         *)
LEMMA SendJobInv ==
    ASSUME FieldInv, JobInv, NEW g \in Goroutine, NEW c, call[g].pc # "wait", Send(g, c)
    PROVE  JobInv'
<1>1. CASE c \in closed
  BY <1>1, ExitJobInv, Zenon DEF Send
<1>2. CASE c \notin closed /\ queue[c] # << >>
  <2>1. call' = [call EXCEPT ![g].pc = "blocked", ![g].ch = c] /\ UNCHANGED <<queue, loop>>
    BY <1>2, Zenon DEF Send
  <2>2. DOMAIN call' = Goroutine /\ \A h \in Goroutine \ {g} : call'[h] = call[h]
    BY <2>1, Zenon DEF JobInv, JobShape
  <2> QED BY <2>1, <2>2, MoveJobInv, Zenon
<1>3. CASE c \notin closed /\ queue[c] = << >>
  <2>1. /\ queue' = [queue EXCEPT ![c] = <<g>>] /\ UNCHANGED loop
        /\ call' = [call EXCEPT ![g].pc = "wait", ![g].ch = 0]
    BY <1>3, Zenon DEF Send
  <2>2. /\ DOMAIN call' = Goroutine /\ call'[g].pc = "wait"
        /\ \A h \in Goroutine \ {g} : call'[h] = call[h]
    BY <2>1, Zenon DEF FieldInv, CallState
  <2>3. DOMAIN queue' = Channel /\ \A d \in Channel : queue'[d] = IF d = c THEN <<g>> ELSE queue[d]
    BY <2>1, Zenon DEF JobInv, JobShape
  <2>4. JobShape'
    BY <2>1, <2>2, <2>3, SMTT(30) DEF JobInv, JobShape
  <2>5. \A d \in Channel : ~Queued(d, g) /\ ~Busy(d, g)
    BY Zenon DEF JobInv, AtMostOnce
  <2>6. \A d \in Channel : (Queued(d, g)' => d = c) /\ ~Busy(d, g)'
    BY <2>1, <2>3, <2>5, Zenon DEF Queued, Busy
  <2>7. AtMostOnce(g)'
    BY <2>2, <2>6, Zenon DEF AtMostOnce
  <2>8. ASSUME NEW h \in Goroutine, h # g PROVE AtMostOnce(h)'
    <3>1. \A d \in Channel : (Queued(d, h)' => Queued(d, h)) /\ (Busy(d, h)' <=> Busy(d, h))
      BY <2>1, <2>3, <2>8, Zenon DEF Queued, Busy
    <3>2. AtMostOnce(h) /\ call'[h] = call[h]
      BY <2>2, <2>8, Zenon DEF JobInv
    <3> QED BY <3>1, <3>2, Zenon DEF AtMostOnce
  <2> QED BY <2>4, <2>7, <2>8, Zenon DEF JobInv
<1> QED BY <1>1, <1>2, <1>3, Zenon

(* The loop takes the job out of the channel.                              *)
LEMMA TakeJobInv ==
    ASSUME FieldInv, JobInv, NEW c \in Channel, TakeJob(c) PROVE JobInv'
<1>1. PICK g \in Goroutine : Queued(c, g)
  BY Zenon DEF TakeJob, JobInv, JobShape, Queued
<1>2. /\ UNCHANGED call /\ Head(queue[c]) = g
      /\ loop' = [loop EXCEPT ![c].pc = "broadcast", ![c].job = g]
      /\ queue' = [queue EXCEPT ![c] = << >>]
  BY <1>1, SMTT(30) DEF TakeJob, Queued
<1>3. JobShape'
  BY <1>2, Zenon DEF JobInv, JobShape
<1>4. \A d \in Channel : queue'[d] = IF d = c THEN << >> ELSE queue[d]
  BY <1>2, Zenon DEF JobInv, JobShape
<1>5. \A d \in Channel \ {c} : loop'[d] = loop[d]
  BY <1>2, Zenon DEF JobInv, JobShape
<1>6. loop'[c].pc = "broadcast" /\ loop'[c].job = g
  BY <1>2, Zenon DEF FieldInv, LoopState
<1>7. \A d \in Channel, h \in Goroutine :
          /\ Queued(d, h)' <=> d # c /\ Queued(d, h)
          /\ d # c => (Busy(d, h)' <=> Busy(d, h))
          /\ Busy(c, h)' <=> h = g
  <2>1. \A h \in Goroutine : << >> # <<h>>
    BY SMTT(30)
  <2>2. \A d \in Channel, h \in Goroutine : Queued(d, h)' <=> d # c /\ Queued(d, h)
    BY <1>4, <2>1, Zenon DEF Queued
  <2> QED BY <1>5, <1>6, <2>2, Zenon DEF Busy
<1>8. \A h \in Goroutine : AtMostOnce(h)
  BY Zenon DEF JobInv
<1>9. AtMostOnce(g)'
  BY <1>1, <1>2, <1>7, <1>8, Zenon DEF AtMostOnce
<1>10. ASSUME NEW h \in Goroutine, h # g PROVE AtMostOnce(h)'
  BY <1>2, <1>7, <1>8, <1>10, SMTT(30) DEF AtMostOnce
<1> QED BY <1>3, <1>9, <1>10, Zenon DEF JobInv

(* The result ends the wait of the caller whose job the loop had.          *)
LEMMA BroadcastJobInv ==
    ASSUME FieldInv, JobInv, NEW c \in Channel, Broadcast(c) PROVE JobInv'
<1> DEFINE g == loop[c].job
<1>1. PICK result : call' = [call EXCEPT ![g].pc = "return", ![g].result = result]
  BY Zenon DEF Broadcast
<1>2. /\ UNCHANGED queue /\ loop[c].pc = "broadcast"
      /\ loop' = [loop EXCEPT ![c] = [NoLoop EXCEPT !.pc = "select"]]
  BY Zenon DEF Broadcast, LoopAt
<1>3. JobShape'
  BY <1>1, <1>2, Zenon DEF JobInv, JobShape
<1>4. \A h \in Goroutine : h # g => call'[h] = call[h]
  BY <1>1, Zenon DEF JobInv, JobShape
<1>5. \A d \in Channel : loop'[d] = IF d = c THEN [NoLoop EXCEPT !.pc = "select"] ELSE loop[d]
  BY <1>2, Zenon DEF JobInv, JobShape
<1>6. \A d \in Channel, h \in Goroutine :
          /\ Queued(d, h)' <=> Queued(d, h)
          /\ Busy(d, h)' <=> d # c /\ Busy(d, h)
  BY <1>2, <1>5, SMTT(30) DEF Queued, Busy, NoLoop
<1>7. Busy(c, g)
  BY <1>2, Zenon DEF Busy
<1>8. \A d \in Channel, h \in Goroutine : Queued(d, h)' \/ Busy(d, h)' => h # g
  BY <1>6, <1>7, SMTT(30) DEF JobInv, AtMostOnce
<1>9. \A d \in Channel, h \in Goroutine : Queued(d, h) \/ Busy(d, h) => call[h].pc = "wait"
  BY Zenon DEF JobInv, AtMostOnce
<1>10. \A d \in Channel, h \in Goroutine : Queued(d, h)' \/ Busy(d, h)' => call'[h].pc = "wait"
  BY <1>4, <1>6, <1>8, <1>9, Zenon
<1> HIDE DEF g
<1> QED BY <1>3, <1>6, <1>10, KeepJobInv, Zenon

(* A loop that has no job changes its place, or is made.                   *)
LEMMA LoopJobInv ==
    ASSUME FieldInv, JobInv, UNCHANGED <<queue>>, NEW c, NEW pc \in {"select", "stuck", "stopped"},
           loop' = [loop EXCEPT ![c].pc = pc],
           DOMAIN call' = Goroutine,
           \A h \in Goroutine : call[h].pc = "wait" => call'[h].pc = "wait"
    PROVE  JobInv'
<1>1. JobShape'
  BY Zenon DEF JobInv, JobShape
<1>2. \A d \in Channel, h \in Goroutine : Busy(d, h)' => Busy(d, h)
  <2> SUFFICES ASSUME NEW d \in Channel, NEW h \in Goroutine, Busy(d, h)'
               PROVE  Busy(d, h)
    BY Zenon
  <2>1. d # c
    BY Zenon DEF Busy, FieldInv, LoopState
  <2>2. loop'[d] = loop[d]
    BY <2>1, Zenon DEF JobInv, JobShape
  <2> QED BY <2>2, Zenon DEF Busy
<1>3. \A d \in Channel, h \in Goroutine : Queued(d, h)' <=> Queued(d, h)
  BY Zenon DEF Queued
<1>4. \A d \in Channel, h \in Goroutine : Queued(d, h) \/ Busy(d, h) => call'[h].pc = "wait"
  BY Zenon DEF JobInv, AtMostOnce
<1> QED BY <1>1, <1>2, <1>3, <1>4, KeepJobInv, Zenon

LEMMA BeginJobInv ==
    ASSUME FieldInv, JobInv, NEW g \in Goroutine, BeginCall(g) PROVE JobInv'
<1>1. ASSUME NEW addr, NEW found, NEW decode, Begin(g, addr, found, decode) PROVE JobInv'
  <2>1. call[g].pc # "wait" /\ UNCHANGED <<queue, loop>>
    BY <1>1, Zenon DEF Begin, svcVars
  <2>2. DOMAIN call' = Goroutine /\ \A h \in Goroutine \ {g} : call'[h] = call[h]
    BY <1>1, Zenon DEF Begin, JobInv, JobShape
  <2> QED BY <2>1, <2>2, MoveJobInv, Zenon
<1>2. ASSUME NEW account, NEW decode, Pooled(g, account, decode) PROVE JobInv'
  BY <1>1, <1>2, Zenon DEF Pooled
<1>3. ASSUME NEW account, NEW decode, Own(g, account, decode) PROVE JobInv'
  BY <1>1, <1>3, Zenon DEF Own
<1> QED
  BY <1>2, <1>3, Zenon
  DEF BeginCall, OrderReady, StoreOrder, CompleteOrder, RenewOrder, MigrateOrder,
      TerminateOrder, UpdatePermission, Reset, ReportFaults, RecoverFaults,
      Create, ClaimReward, AddVstorage, RemoveVstorage, UpdateDidBinding

(* Every step keeps the invariant.                                         *)
LEMMA NextJobInv == FieldInv /\ JobInv /\ [Next]_vars => JobInv'
<1> SUFFICES ASSUME FieldInv, JobInv, [Next]_vars PROVE JobInv'
  BY Zenon
<1>1. ASSUME NEW g \in Goroutine, CallStep(g) PROVE JobInv'
  <2>1. CASE Lookup(g)
    <3>1. CASE chans[call[g].addr] = 0
      <4>1. call' = [call EXCEPT ![g].pc = "make"] /\ UNCHANGED <<queue, loop>>
        BY <2>1, <3>1, Zenon DEF Lookup, Goto, svcVars
      <4>2. call[g].pc # "wait"
        BY <2>1, Zenon DEF Lookup, At
      <4>3. DOMAIN call' = Goroutine /\ \A h \in Goroutine \ {g} : call'[h] = call[h]
        BY <4>1, Zenon DEF JobInv, JobShape
      <4> QED BY <4>1, <4>2, <4>3, MoveJobInv, Zenon
    <3>2. CASE chans[call[g].addr] # 0
      BY <2>1, <3>2, SendJobInv, Zenon DEF Lookup, At
    <3> QED BY <3>1, <3>2, Zenon
  <2>2. CASE MakeChan(g)
    <3>1. /\ call' = [call EXCEPT ![g].pc = "sleep"] /\ UNCHANGED queue
          /\ loop' = [loop EXCEPT ![made'].pc = "select"]
      BY <2>2, Zenon DEF MakeChan, Goto
    <3>2. call[g].pc # "wait"
      BY <2>2, Zenon DEF MakeChan, At
    <3>3. DOMAIN call' = Goroutine /\ \A h \in Goroutine : call[h].pc = "wait" => call'[h].pc = "wait"
      BY <3>1, <3>2, Zenon DEF JobInv, JobShape
    <3> QED BY <3>1, <3>3, LoopJobInv, Zenon
  <2>3. CASE WakeAndSend(g) \/ SendBlocked(g)
    BY <2>3, SendJobInv, Zenon DEF WakeAndSend, SendBlocked, At
  <2>4. CASE Return(g)
    <3>1. CASE Exit("exited")
      BY <3>1, ExitJobInv, Zenon
    <3>2. CASE call' = [call EXCEPT ![g] = NoCall] /\ UNCHANGED svcVars
      <4>1. call[g].pc # "wait" /\ UNCHANGED <<queue, loop>>
        BY <2>4, <3>2, Zenon DEF Return, At, svcVars
      <4>2. DOMAIN call' = Goroutine /\ \A h \in Goroutine \ {g} : call'[h] = call[h]
        BY <3>2, Zenon DEF JobInv, JobShape
      <4> QED BY <4>1, <4>2, MoveJobInv, Zenon
    <3> QED BY <2>4, <3>1, <3>2, Zenon DEF Return
  <2> QED BY <1>1, <2>1, <2>2, <2>3, <2>4, Zenon DEF CallStep
<1>2. ASSUME NEW c \in Channel, LoopStep(c) \/ StopLoop(c) PROVE JobInv'
  <2>1. CASE TakeZeroJob(c) \/ StopLoop(c)
    <3>1. DOMAIN call' = Goroutine /\ UNCHANGED <<call, queue>>
      BY <2>1, Zenon DEF TakeZeroJob, StopLoop, JobInv, JobShape
    <3>2. loop' = [loop EXCEPT ![c].pc = "stuck"] \/ loop' = [loop EXCEPT ![c].pc = "stopped"]
      BY <2>1, Zenon DEF TakeZeroJob, StopLoop
    <3> QED BY <3>1, <3>2, LoopJobInv, Zenon
  <2> QED BY <1>2, <2>1, TakeJobInv, BroadcastJobInv, Zenon DEF LoopStep
<1>3. ASSUME UNCHANGED <<call, queue, loop>> PROVE JobInv'
  BY <1>3, SMTT(30) DEF JobInv, JobShape, AtMostOnce, Queued, Busy
<1>4. CASE ConcurrentMapWrites
  BY <1>4, ExitJobInv, Zenon DEF ConcurrentMapWrites
<1>5. CASE MonitorShutdown \/ StopStep
  BY <1>3, <1>5, ExitJobInv, Zenon
  DEF MonitorShutdown, StopStep, StopOthers, CloseChans, ExitNode, Step, svcVars
<1>6. CASE UNCHANGED vars
  BY <1>3, <1>6, Zenon DEF vars
<1> QED BY <1>1, <1>2, <1>4, <1>5, <1>6, BeginJobInv, Zenon DEF Next

-----------------------------------------------------------------------------
(* A result comes together with the transaction it tells of.               *)

TxInv == DOMAIN call = Goroutine /\ DOMAIN tx = Goroutine /\ SuccessIsOnChain

(* No call but one moves, and that one does not report success.            *)
LEMMA KeepTxInv ==
    ASSUME FieldInv, TxInv, NEW g \in Goroutine, DOMAIN call' = Goroutine, DOMAIN tx' = Goroutine,
           \A h \in Goroutine \ {g} : call'[h] = call[h] /\ tx'[h] = tx[h],
           call'[g].pc = "return" => call'[g].result # "ok"
    PROVE  TxInv'
  BY Zenon DEF TxInv, SuccessIsOnChain

LEMMA SameTxInv ==
    ASSUME FieldInv, TxInv, UNCHANGED <<call, tx>> PROVE TxInv'
  BY Zenon DEF TxInv, SuccessIsOnChain

LEMMA ExitTxInv ==
    ASSUME NEW how, Exit(how) PROVE TxInv'
  BY Zenon DEF Exit, TxInv, SuccessIsOnChain, NoCall

LEMMA InitTxInv == Init => TxInv
  BY SMTT(30) DEF Init, TxInv, SuccessIsOnChain, NoCall

LEMMA BeginTxInv ==
    ASSUME FieldInv, TxInv, NEW g \in Goroutine, BeginCall(g) PROVE TxInv'
<1>1. ASSUME NEW addr, NEW found, NEW decode, Begin(g, addr, found, decode) PROVE TxInv'
  <2>1. PICK ok : call' = [call EXCEPT ![g] =
                    [pc |-> IF ok THEN "lookup" ELSE "return", addr |-> addr, ch |-> 0,
                     decode |-> decode, result |-> IF ok THEN "none" ELSE "err"]]
    BY <1>1, Zenon DEF Begin
  <2>2. /\ DOMAIN call' = Goroutine /\ call'[g].result \in {"none", "err"}
        /\ \A h \in Goroutine \ {g} : call'[h] = call[h]
    BY <2>1, Zenon DEF TxInv
  <2>3. UNCHANGED tx
    BY <1>1, Zenon DEF Begin
  <2> QED BY <2>2, <2>3, KeepTxInv, Zenon DEF TxInv
<1>2. ASSUME NEW account, NEW decode, Pooled(g, account, decode) PROVE TxInv'
  BY <1>1, <1>2, Zenon DEF Pooled
<1>3. ASSUME NEW account, NEW decode, Own(g, account, decode) PROVE TxInv'
  BY <1>1, <1>3, Zenon DEF Own
<1> QED
  BY <1>2, <1>3, Zenon
  DEF BeginCall, OrderReady, StoreOrder, CompleteOrder, RenewOrder, MigrateOrder,
      TerminateOrder, UpdatePermission, Reset, ReportFaults, RecoverFaults,
      Create, ClaimReward, AddVstorage, RemoveVstorage, UpdateDidBinding

LEMMA SendTxInv ==
    ASSUME FieldInv, TxInv, NEW g \in Goroutine, NEW c, Send(g, c) PROVE TxInv'
<1>1. CASE c \in closed
  BY <1>1, ExitTxInv, Zenon DEF Send
<1>2. CASE c \notin closed
  <2>1. PICK pc \in {"wait", "blocked"}, ch \in {0, c} :
            call' = [call EXCEPT ![g].pc = pc, ![g].ch = ch]
    BY <1>2, Zenon DEF Send
  <2>2. /\ DOMAIN call' = Goroutine /\ call'[g].pc # "return"
        /\ \A h \in Goroutine \ {g} : call'[h] = call[h]
    BY <2>1, Zenon DEF FieldInv, CallState
  <2>3. UNCHANGED tx
    BY <1>2, Zenon DEF Send
  <2> QED BY <2>2, <2>3, KeepTxInv, Zenon DEF TxInv
<1> QED BY <1>1, <1>2, Zenon

(* The loop reports a success to a caller only after the chain ran the     *)
(* message of that very caller.                                            *)
LEMMA BroadcastTxInv ==
    ASSUME FieldInv, TxInv, NEW c \in Channel, Broadcast(c) PROVE TxInv'
<1> DEFINE g == loop[c].job
<1>1. PICK answer \in {"err", "code", "ok"} :
        /\ \E done \in IF answer = "err" THEN BOOLEAN ELSE {answer = "ok"} :
            tx' = [tx EXCEPT ![g] = done]
        /\ \E result \in IF answer # "ok" THEN {"err"}
                         ELSE {"ok"} \cup (IF call[g].decode THEN {"err"} ELSE {}) :
            call' = [call EXCEPT ![g].pc = "return", ![g].result = result]
  BY Zenon DEF Broadcast
<1>2. PICK done \in IF answer = "err" THEN BOOLEAN ELSE {answer = "ok"} :
          tx' = [tx EXCEPT ![g] = done]
  BY <1>1, Zenon
<1>3. PICK result \in IF answer # "ok" THEN {"err"}
                      ELSE {"ok"} \cup (IF call[g].decode THEN {"err"} ELSE {}) :
          call' = [call EXCEPT ![g].pc = "return", ![g].result = result]
  BY <1>1, Zenon
<1>4. result = "ok" => done
  BY <1>2, <1>3, Zenon
<1>5. /\ DOMAIN call' = Goroutine /\ DOMAIN tx' = Goroutine
      /\ \A h \in Goroutine : h # g => call'[h] = call[h] /\ tx'[h] = tx[h]
      /\ g \in Goroutine => call'[g].result = result /\ tx'[g] = done
  BY <1>2, <1>3, Zenon DEF FieldInv, CallState
<1> QED BY <1>4, <1>5, Zenon DEF TxInv, SuccessIsOnChain

LEMMA NextTxInv == FieldInv /\ TxInv /\ [Next]_vars => TxInv'
<1> SUFFICES ASSUME FieldInv, TxInv, [Next]_vars PROVE TxInv'
  BY Zenon
<1>1. ASSUME NEW g \in Goroutine, CallStep(g) PROVE TxInv'
  <2>1. ASSUME NEW pc, pc # "return", Goto(g, pc), UNCHANGED tx PROVE TxInv'
    <3>1. /\ DOMAIN call' = Goroutine /\ call'[g].pc = pc
          /\ \A h \in Goroutine \ {g} : call'[h] = call[h]
      BY <2>1, Zenon DEF Goto, FieldInv, CallState
    <3> QED BY <2>1, <3>1, KeepTxInv, Zenon DEF TxInv
  <2>2. CASE Lookup(g) \/ MakeChan(g)
    BY <2>1, <2>2, SendTxInv, Zenon DEF Lookup, MakeChan
  <2>3. CASE WakeAndSend(g) \/ SendBlocked(g)
    BY <2>3, SendTxInv, Zenon DEF WakeAndSend, SendBlocked
  <2>4. CASE Return(g)
    <3>1. CASE Exit("exited")
      BY <3>1, ExitTxInv, Zenon
    <3>2. CASE call' = [call EXCEPT ![g] = NoCall] /\ tx' = [tx EXCEPT ![g] = FALSE]
      BY <3>2, KeepTxInv, Zenon DEF TxInv, NoCall
    <3> QED BY <2>4, <3>1, <3>2, Zenon DEF Return
  <2> QED BY <1>1, <2>2, <2>3, <2>4, Zenon DEF CallStep
<1>2. ASSUME NEW c \in Channel, LoopStep(c) \/ StopLoop(c) PROVE TxInv'
  BY <1>2, SameTxInv, BroadcastTxInv, Zenon DEF LoopStep, TakeJob, TakeZeroJob, StopLoop
<1>3. CASE ConcurrentMapWrites
  BY <1>3, ExitTxInv, Zenon DEF ConcurrentMapWrites
<1>4. CASE MonitorShutdown \/ StopStep
  BY <1>4, SameTxInv, ExitTxInv, Zenon
  DEF MonitorShutdown, StopStep, StopOthers, CloseChans, ExitNode, Step
<1>5. CASE UNCHANGED vars
  BY <1>5, SameTxInv, Zenon DEF vars
<1> QED BY <1>1, <1>2, <1>3, <1>4, <1>5, BeginTxInv, Zenon DEF Next

-----------------------------------------------------------------------------
(* A caller that waits has a job.  A channel is made at most once for a    *)
(* call, so that there is one for every channel a behaviour can make.      *)

Unmade == {g \in Goroutine : call[g].pc \in {"lookup", "make"}}

CountInv ==
    /\ IsFiniteSet(Unmade)
    /\ made \in Nat /\ calls \in Nat
    /\ made + Cardinality(Unmade) <= calls
    /\ calls <= MaxCalls

(* The map holds channels that were made, and only their loops run.        *)
ChanInv ==
    /\ DOMAIN chans = Address
    /\ \A a \in Address : chans[a] \in 0 .. made
    /\ \A c \in Channel : c > made => loop[c].pc = "none"

(* What a call relies on at each of its steps.                             *)
CallFits(g) ==
    /\ call[g].pc \in {"lookup", "make", "sleep"} => call[g].addr \in Address
    /\ call[g].pc = "sleep" => chans[call[g].addr] # 0
    /\ call[g].pc = "blocked" => call[g].ch \in 1 .. made
    /\ call[g].pc = "wait" => \E c \in Channel : Queued(c, g) \/ Busy(c, g)

WaitInv == CountInv /\ ChanInv /\ \A g \in Goroutine : CallFits(g)

LEMMA InitWaitInv == Init => WaitInv
<1> SUFFICES ASSUME Init PROVE WaitInv
  BY Zenon
<1>1. Unmade = {}
  BY Zenon DEF Init, Unmade, NoCall
<1>2. CountInv
  BY <1>1, FS_EmptySet, ChainAssumption, SMTT(30) DEF Init, CountInv
<1>3. ChanInv
  BY SMTT(30) DEF Init, ChanInv, NoLoop
<1>4. \A g \in Goroutine : CallFits(g)
  BY Zenon DEF Init, CallFits, NoCall
<1> QED BY <1>2, <1>3, <1>4, Zenon DEF WaitInv

LEMMA ExitWaitInv == ASSUME NEW how, Exit(how) PROVE WaitInv'
<1>1. Unmade' = {}
  BY Zenon DEF Exit, Unmade, NoCall
<1>2. CountInv'
  BY <1>1, FS_EmptySet, ChainAssumption, SMTT(30) DEF Exit, CountInv
<1>3. ChanInv'
  BY SMTT(30) DEF Exit, ChanInv, NoLoop
<1>4. \A g \in Goroutine : CallFits(g)'
  BY Zenon DEF Exit, CallFits, NoCall
<1> QED BY <1>2, <1>3, <1>4, Zenon DEF WaitInv

(* Fewer calls on their way to a channel.                                  *)
LEMMA KeepCount ==
    ASSUME CountInv, UNCHANGED <<made, calls>>, Unmade' \subseteq Unmade
    PROVE  CountInv'
<1>1. IsFiniteSet(Unmade') /\ Cardinality(Unmade') <= Cardinality(Unmade)
  BY FS_Subset, Zenon DEF CountInv
<1>2. Cardinality(Unmade') \in Nat /\ Cardinality(Unmade) \in Nat
  BY <1>1, FS_CardinalityType, Zenon DEF CountInv
<1> QED BY <1>1, <1>2, SMTT(30) DEF CountInv

(* A call moves; the map, the jobs and the loops stay.                     *)
LEMMA MoveWaitInv ==
    ASSUME WaitInv, NEW g \in Goroutine, UNCHANGED <<chans, made, queue, loop>>,
           \A h \in Goroutine \ {g} : call'[h] = call[h],
           CountInv', CallFits(g)'
    PROVE  WaitInv'
<1>1. ChanInv'
  BY Zenon DEF WaitInv, ChanInv
<1>2. \A h \in Goroutine \ {g} : CallFits(h)'
  BY SMTT(30) DEF WaitInv, CallFits, Queued, Busy
<1> QED BY <1>1, <1>2, Zenon DEF WaitInv

(* A call begins: one more call, and at most one more without a channel.   *)
LEMMA BeginWaitInv ==
    ASSUME FieldInv, PoolInv, WaitInv, NEW g \in Goroutine, BeginCall(g) PROVE WaitInv'
<1>1. ASSUME NEW addr, NEW found, NEW decode, Begin(g, addr, found, decode),
             addr \in Address \/ found = {FALSE}
      PROVE  WaitInv'
  <2>1. PICK ok \in found : call' = [call EXCEPT ![g] =
                    [pc |-> IF ok THEN "lookup" ELSE "return", addr |-> addr, ch |-> 0,
                     decode |-> decode, result |-> IF ok THEN "none" ELSE "err"]]
    BY <1>1, Zenon DEF Begin
  <2>2. /\ DOMAIN call' = Goroutine
        /\ \A h \in Goroutine \ {g} : call'[h] = call[h]
        /\ call'[g].pc = IF ok THEN "lookup" ELSE "return"
        /\ call'[g].addr = addr
    BY <2>1, Zenon DEF PoolInv, Calling
  <2>3. UNCHANGED <<chans, made, queue, loop>> /\ calls < MaxCalls /\ calls' = calls + 1
    BY <1>1, Zenon DEF Begin, svcVars
  <2>4. Unmade' \subseteq Unmade \cup {g}
    BY <2>2, Zenon DEF Unmade
  <2>5. CountInv'
    <3>1. /\ IsFiniteSet(Unmade) /\ IsFiniteSet(Unmade \cup {g})
          /\ Cardinality(Unmade) \in Nat
          /\ Cardinality(Unmade \cup {g}) \in {Cardinality(Unmade), Cardinality(Unmade) + 1}
      BY FS_AddElement, FS_CardinalityType, Zenon DEF WaitInv, CountInv
    <3>2. /\ IsFiniteSet(Unmade') /\ Cardinality(Unmade') \in Nat
          /\ Cardinality(Unmade \cup {g}) \in Nat
          /\ Cardinality(Unmade') <= Cardinality(Unmade \cup {g})
      BY <2>4, <3>1, FS_Subset, FS_CardinalityType, Zenon
    <3> QED BY <2>3, <3>1, <3>2, ChainAssumption, SMTT(30) DEF WaitInv, CountInv
  <2>6. CallFits(g)'
    BY <1>1, <2>1, <2>2, Zenon DEF CallFits
  <2> QED BY <2>2, <2>3, <2>5, <2>6, MoveWaitInv, Zenon
<1>2. ASSUME NEW account, NEW decode, Pooled(g, account, decode) PROVE WaitInv'
  <2>1. Node \in Address /\ \A a \in DOMAIN pool : a \in Address
    BY Zenon DEF Address, PoolInv, Calling
  <2> QED BY <1>1, <1>2, <2>1, Zenon DEF Pooled
<1>3. ASSUME NEW account, NEW decode, Own(g, account, decode) PROVE WaitInv'
  BY <1>1, <1>3, Zenon DEF Own, Address
<1> QED
  BY <1>2, <1>3, Zenon
  DEF BeginCall, OrderReady, StoreOrder, CompleteOrder, RenewOrder, MigrateOrder,
      TerminateOrder, UpdatePermission, Reset, ReportFaults, RecoverFaults,
      Create, ClaimReward, AddVstorage, RemoveVstorage, UpdateDidBinding

(* The channel a call sends on is one that was made.                       *)
LEMMA SendWaitInv ==
    ASSUME FieldInv, JobInv, WaitInv, NEW g \in Goroutine, NEW c \in 1 .. made, call[g].pc # "wait",
           Send(g, c)
    PROVE  WaitInv'
<1>1. CASE c \in closed
  BY <1>1, ExitWaitInv, Zenon DEF Send
<1>2. c \in Channel
  <2>1. Cardinality(Unmade) \in Nat
    BY FS_CardinalityType, Zenon DEF WaitInv, CountInv
  <2> QED BY <2>1, ChainAssumption, SMTT(30) DEF WaitInv, CountInv, Channel
<1>3. CASE c \notin closed /\ queue[c] # << >>
  <2>1. /\ call' = [call EXCEPT ![g].pc = "blocked", ![g].ch = c]
        /\ UNCHANGED <<chans, made, queue, loop, calls>>
    BY <1>3, Zenon DEF Send
  <2>2. /\ \A h \in Goroutine \ {g} : call'[h] = call[h]
        /\ call'[g].pc = "blocked" /\ call'[g].ch = c
    BY <2>1, Zenon DEF FieldInv, CallState
  <2>3. Unmade' \subseteq Unmade
    BY <2>2, Zenon DEF Unmade
  <2>4. CallFits(g)'
    BY <2>1, <2>2, Zenon DEF CallFits
  <2> QED BY <2>1, <2>2, <2>3, <2>4, KeepCount, MoveWaitInv, Zenon DEF WaitInv
<1>4. CASE c \notin closed /\ queue[c] = << >>
  <2>1. /\ queue' = [queue EXCEPT ![c] = <<g>>] /\ UNCHANGED <<chans, made, loop, calls>>
        /\ call' = [call EXCEPT ![g].pc = "wait", ![g].ch = 0]
    BY <1>4, Zenon DEF Send
  <2>2. /\ \A h \in Goroutine \ {g} : call'[h] = call[h]
        /\ call'[g].pc = "wait"
    BY <2>1, Zenon DEF FieldInv, CallState
  <2>3. CountInv'
    <3>1. Unmade' \subseteq Unmade
      BY <2>2, Zenon DEF Unmade
    <3> QED BY <2>1, <3>1, KeepCount, Zenon DEF WaitInv
  <2>4. ChanInv'
    BY <2>1, Zenon DEF WaitInv, ChanInv
  <2>5. Queued(c, g)' /\ \A d \in Channel \ {c} : queue'[d] = queue[d]
    BY <1>2, <2>1, Zenon DEF JobInv, JobShape, Queued
  <2>6. CallFits(g)'
    BY <1>2, <2>2, <2>5, Zenon DEF CallFits
  <2>7. \A d \in Channel, h \in Goroutine : Queued(d, h) => Queued(d, h)'
    BY <1>4, <2>5, SMTT(30) DEF Queued
  <2>8. \A d \in Channel, h \in Goroutine : Busy(d, h) => Busy(d, h)'
    BY <2>1, Zenon DEF Busy
  <2>9. \A h \in Goroutine \ {g} : CallFits(h)'
    <3> SUFFICES ASSUME NEW h \in Goroutine \ {g} PROVE CallFits(h)'
      BY Zenon
    <3>1. CallFits(h) /\ call'[h] = call[h]
      BY <2>2, Zenon DEF WaitInv
    <3>2. call[h].pc = "wait" => \E d \in Channel : Queued(d, h)' \/ Busy(d, h)'
      BY <2>7, <2>8, <3>1, Zenon DEF CallFits
    <3> QED BY <2>1, <3>1, <3>2, Zenon DEF CallFits
  <2> QED BY <2>3, <2>4, <2>6, <2>9, Zenon DEF WaitInv
<1> QED BY <1>1, <1>3, <1>4, Zenon

(* A call makes its channel: one more channel, and one call fewer that     *)
(* has none.                                                               *)
LEMMA MakeWaitInv ==
    ASSUME FieldInv, JobInv, WaitInv, NEW g \in Goroutine, MakeChan(g) PROVE WaitInv'
<1>1. /\ call[g].pc = "make" /\ made' = made + 1 /\ UNCHANGED <<queue, calls>>
      /\ chans' = [chans EXCEPT ![call[g].addr] = made']
      /\ loop' = [loop EXCEPT ![made'].pc = "select"]
      /\ call' = [call EXCEPT ![g].pc = "sleep"]
  BY Zenon DEF MakeChan, At, Goto
<1>2. /\ \A h \in Goroutine \ {g} : call'[h] = call[h]
      /\ call'[g].pc = "sleep" /\ call'[g].addr = call[g].addr
  BY <1>1, Zenon DEF FieldInv, CallState
<1>3. g \in Unmade /\ Unmade' = Unmade \ {g}
  BY <1>1, <1>2, Zenon DEF Unmade
<1>4. CountInv'
  <2>1. Cardinality(Unmade) \in Nat /\ IsFiniteSet(Unmade')
        /\ Cardinality(Unmade') = Cardinality(Unmade) - 1
    BY <1>3, FS_RemoveElement, FS_CardinalityType, Zenon DEF WaitInv, CountInv
  <2> QED BY <1>1, <2>1, SMTT(30) DEF WaitInv, CountInv
<1>5. made \in Nat /\ call[g].addr \in Address
  BY <1>1, Zenon DEF WaitInv, CountInv, CallFits
<1>6. /\ DOMAIN chans' = Address /\ chans'[call[g].addr] = made + 1
      /\ \A a \in Address : chans'[a] \in {chans[a], made + 1}
  BY <1>1, <1>5, Zenon DEF WaitInv, ChanInv
<1>7. \A c \in Channel : c # made + 1 => loop'[c] = loop[c]
  BY <1>1, Zenon DEF JobInv, JobShape
<1>8. ChanInv'
  BY <1>1, <1>5, <1>6, <1>7, SMTT(30) DEF WaitInv, ChanInv, Channel
<1>9. \A c \in Channel, h \in Goroutine :
          (Queued(c, h) => Queued(c, h)') /\ (Busy(c, h) => Busy(c, h)')
  BY <1>1, <1>5, <1>7, SMTT(30) DEF WaitInv, ChanInv, Channel, Queued, Busy
<1>10. CallFits(g)'
  BY <1>2, <1>5, <1>6, SMTT(30) DEF CallFits
<1>11. ASSUME NEW h \in Goroutine, h # g PROVE CallFits(h)'
  <2>1. CallFits(h) /\ call'[h] = call[h]
    BY <1>2, <1>11, Zenon DEF WaitInv
  <2>2. \A a \in Address : chans[a] # 0 => chans'[a] # 0
    BY <1>5, <1>6, SMTT(30)
  <2>3. \A c : c \in 1 .. made => c \in 1 .. made'
    BY <1>1, <1>5, SMTT(30)
  <2>4. call[h].pc = "wait" => \E c \in Channel : Queued(c, h)' \/ Busy(c, h)'
    BY <1>9, <2>1, Zenon DEF CallFits
  <2> QED BY <2>1, <2>2, <2>3, <2>4, Zenon DEF CallFits
<1> QED BY <1>4, <1>8, <1>10, <1>11, Zenon DEF WaitInv

(* A loop takes the job of a caller: it stays the caller's.                *)
LEMMA TakeWaitInv ==
    ASSUME FieldInv, JobInv, WaitInv, NEW c \in Channel, TakeJob(c) PROVE WaitInv'
<1>1. PICK g \in Goroutine : Queued(c, g)
  BY Zenon DEF TakeJob, JobInv, JobShape, Queued
<1>2. /\ UNCHANGED <<call, chans, made, calls>> /\ Head(queue[c]) = g /\ loop[c].pc = "select"
      /\ loop' = [loop EXCEPT ![c].pc = "broadcast", ![c].job = g]
      /\ queue' = [queue EXCEPT ![c] = << >>]
  BY <1>1, SMTT(30) DEF TakeJob, LoopAt, Queued
<1>3. /\ \A d \in Channel \ {c} : loop'[d] = loop[d] /\ queue'[d] = queue[d]
      /\ loop'[c].pc = "broadcast" /\ loop'[c].job = g
  BY <1>2, Zenon DEF JobInv, JobShape, FieldInv, LoopState
<1>4. CountInv'
  BY <1>2, Zenon DEF WaitInv, CountInv, Unmade
<1>5. ChanInv'
  BY <1>2, <1>3, Zenon DEF WaitInv, ChanInv
<1>6. \A d \in Channel, h \in Goroutine : Queued(d, h) \/ Busy(d, h) => Queued(d, h)' \/ Busy(d, h)'
  <2>1. \A h \in Goroutine : Queued(c, h) => h = g
    BY <1>1, SMTT(30) DEF Queued
  <2>2. Busy(c, g)' /\ \A h \in Goroutine : ~Busy(c, h)
    BY <1>2, <1>3, Zenon DEF Busy
  <2>3. \A d \in Channel \ {c}, h \in Goroutine :
            Queued(d, h) \/ Busy(d, h) => Queued(d, h)' \/ Busy(d, h)'
    BY <1>3, Zenon DEF Queued, Busy
  <2> QED BY <2>1, <2>2, <2>3, Zenon
<1>7. \A h \in Goroutine : CallFits(h)'
  BY <1>2, <1>6, Zenon DEF WaitInv, CallFits
<1> QED BY <1>4, <1>5, <1>7, Zenon DEF WaitInv

(* A loop that is at its select takes the zero job or the stop signal.     *)
LEMMA IdleLoopWaitInv ==
    ASSUME FieldInv, JobInv, WaitInv, NEW c \in Channel, TakeZeroJob(c) \/ StopLoop(c) PROVE WaitInv'
<1>1. /\ UNCHANGED <<call, chans, made, calls, queue>> /\ loop[c].pc = "select"
      /\ \E pc : loop' = [loop EXCEPT ![c].pc = pc]
  BY Zenon DEF TakeZeroJob, StopLoop, LoopAt
<1>2. \A d \in Channel \ {c} : loop'[d] = loop[d]
  BY <1>1, Zenon DEF JobInv, JobShape
<1>3. CountInv'
  BY <1>1, Zenon DEF WaitInv, CountInv, Unmade
<1>4. ChanInv'
  BY <1>1, <1>2, Zenon DEF WaitInv, ChanInv
<1>5. \A d \in Channel, h \in Goroutine : Queued(d, h) \/ Busy(d, h) => Queued(d, h)' \/ Busy(d, h)'
  BY <1>1, <1>2, Zenon DEF Queued, Busy
<1>6. \A h \in Goroutine : CallFits(h)'
  BY <1>1, <1>5, Zenon DEF WaitInv, CallFits
<1> QED BY <1>3, <1>4, <1>6, Zenon DEF WaitInv

(* The loop answers the caller whose job it had; the others keep theirs.   *)
LEMMA BroadcastWaitInv ==
    ASSUME FieldInv, JobInv, WaitInv, NEW c \in Channel, Broadcast(c) PROVE WaitInv'
<1> DEFINE g == loop[c].job
<1>1. PICK result : call' = [call EXCEPT ![g].pc = "return", ![g].result = result]
  BY Zenon DEF Broadcast
<1>2. /\ UNCHANGED <<queue, chans, made, calls>> /\ loop[c].pc = "broadcast"
      /\ loop' = [loop EXCEPT ![c] = [NoLoop EXCEPT !.pc = "select"]]
  BY Zenon DEF Broadcast, LoopAt
<1>3. /\ \A h \in Goroutine : h # g => call'[h] = call[h]
      /\ g \in Goroutine => call'[g].pc = "return"
      /\ \A d \in Channel \ {c} : loop'[d] = loop[d]
  BY <1>1, <1>2, Zenon DEF FieldInv, CallState
<1>4. CountInv'
  <2>1. Unmade' \subseteq Unmade
    BY <1>3, Zenon DEF Unmade
  <2> QED BY <1>2, <2>1, KeepCount, Zenon DEF WaitInv
<1>5. ChanInv'
  BY <1>2, <1>3, Zenon DEF WaitInv, ChanInv
<1>6. \A d \in Channel, h \in Goroutine :
          h # g => (Queued(d, h) \/ Busy(d, h) => Queued(d, h)' \/ Busy(d, h)')
  BY <1>2, <1>3, Zenon DEF Queued, Busy
<1>7. \A h \in Goroutine : CallFits(h)'
  BY <1>2, <1>3, <1>6, SMTT(30) DEF WaitInv, CallFits
<1> QED BY <1>4, <1>5, <1>7, Zenon DEF WaitInv

LEMMA NextWaitInv == FieldInv /\ PoolInv /\ JobInv /\ WaitInv /\ [Next]_vars => WaitInv'
<1> SUFFICES ASSUME FieldInv, PoolInv, JobInv, WaitInv, [Next]_vars PROVE WaitInv'
  BY Zenon
<1>1. ASSUME NEW g \in Goroutine, CallStep(g) PROVE WaitInv'
  <2>1. CASE Lookup(g)
    <3>1. call[g].pc = "lookup" /\ call[g].addr \in Address
      BY <2>1, Zenon DEF Lookup, At, WaitInv, CallFits
    <3>2. CASE chans[call[g].addr] = 0
      <4>1. /\ call' = [call EXCEPT ![g].pc = "make"]
            /\ UNCHANGED <<chans, made, queue, loop, calls>>
        BY <2>1, <3>2, Zenon DEF Lookup, Goto, svcVars
      <4>2. /\ \A h \in Goroutine \ {g} : call'[h] = call[h]
            /\ call'[g].pc = "make" /\ call'[g].addr = call[g].addr
        BY <4>1, Zenon DEF FieldInv, CallState
      <4>3. Unmade' \subseteq Unmade
        BY <3>1, <4>2, Zenon DEF Unmade
      <4>4. CallFits(g)'
        BY <3>1, <4>2, Zenon DEF CallFits
      <4> QED BY <4>1, <4>2, <4>3, <4>4, KeepCount, MoveWaitInv, Zenon DEF WaitInv
    <3>3. CASE chans[call[g].addr] # 0
      <4>1. chans[call[g].addr] \in 1 .. made
        BY <3>1, <3>3, SMTT(30) DEF WaitInv, ChanInv, CountInv
      <4> QED BY <2>1, <3>1, <3>3, <4>1, SendWaitInv, Zenon DEF Lookup
    <3> QED BY <3>2, <3>3, Zenon
  <2>2. CASE WakeAndSend(g)
    <3>1. call[g].pc = "sleep" /\ call[g].addr \in Address /\ chans[call[g].addr] # 0
      BY <2>2, Zenon DEF WakeAndSend, At, WaitInv, CallFits
    <3>2. chans[call[g].addr] \in 1 .. made
      BY <3>1, SMTT(30) DEF WaitInv, ChanInv, CountInv
    <3> QED BY <2>2, <3>1, <3>2, SendWaitInv, Zenon DEF WakeAndSend
  <2>3. CASE SendBlocked(g)
    <3>1. call[g].pc = "blocked" /\ call[g].ch \in 1 .. made
      BY <2>3, Zenon DEF SendBlocked, At, WaitInv, CallFits
    <3> QED BY <2>3, <3>1, SendWaitInv, Zenon DEF SendBlocked
  <2>4. CASE Return(g)
    <3>1. CASE Exit("exited")
      BY <3>1, ExitWaitInv, Zenon
    <3>2. CASE call' = [call EXCEPT ![g] = NoCall] /\ UNCHANGED <<svcVars, calls>>
      <4>1. UNCHANGED <<chans, made, queue, loop, calls>>
        BY <3>2, Zenon DEF svcVars
      <4>2. /\ \A h \in Goroutine \ {g} : call'[h] = call[h]
            /\ call'[g].pc = "idle"
        BY <3>2, Zenon DEF JobInv, JobShape, NoCall
      <4>3. Unmade' \subseteq Unmade
        BY <4>2, Zenon DEF Unmade
      <4>4. CallFits(g)'
        BY <4>2, Zenon DEF CallFits
      <4> QED BY <4>1, <4>2, <4>3, <4>4, KeepCount, MoveWaitInv, Zenon DEF WaitInv
    <3> QED BY <2>4, <3>1, <3>2, Zenon DEF Return
  <2> QED BY <1>1, <2>1, <2>2, <2>3, <2>4, MakeWaitInv, Zenon DEF CallStep
<1>2. ASSUME UNCHANGED <<call, chans, made, queue, loop, calls>> PROVE WaitInv'
  BY <1>2, Zenon DEF WaitInv, CountInv, Unmade, ChanInv, CallFits, Queued, Busy
<1>3. ASSUME NEW c \in Channel, LoopStep(c) \/ StopLoop(c) PROVE WaitInv'
  BY <1>3, TakeWaitInv, IdleLoopWaitInv, BroadcastWaitInv, Zenon DEF LoopStep
<1>4. CASE ConcurrentMapWrites
  BY <1>4, ExitWaitInv, Zenon DEF ConcurrentMapWrites
<1>5. CASE MonitorShutdown \/ StopStep
  BY <1>2, <1>5, ExitWaitInv, Zenon
  DEF MonitorShutdown, StopStep, StopOthers, CloseChans, ExitNode, Step, svcVars
<1>6. CASE UNCHANGED vars
  BY <1>2, <1>6, Zenon DEF vars
<1> QED BY <1>1, <1>3, <1>4, <1>5, <1>6, BeginWaitInv, Zenon DEF Next

-----------------------------------------------------------------------------
(* Types. *)

LEMMA ZeroFits == 0 \in 0 .. MaxCalls
  BY ChainAssumption, SMTT(30)

LEMMA NoCallFits == NoCall \in CallState /\ NoLoop \in LoopState
  BY ZeroFits, ChainAssumption, Zenon DEF NoCall, NoLoop, CallState, LoopState, Address

LEMMA InitFieldInv == Init => FieldInv
<1>1. 0 \in Nat
  BY SMTT(30)
<1> QED BY <1>1, NoCallFits, Zenon DEF Init, FieldInv, Phase

LEMMA ExitFieldInv == ASSUME NEW how \in Phase, Exit(how) PROVE FieldInv'
<1>1. 0 \in Nat
  BY SMTT(30)
<1> QED BY <1>1, NoCallFits, Zenon DEF Exit, FieldInv

(* A made channel is one of Channel.                                       *)
LEMMA MadeFits ==
    ASSUME WaitInv, NEW c \in 1 .. made PROVE c \in Channel /\ c \in 0 .. MaxCalls
<1>1. made \in Nat /\ made <= MaxCalls
  <2>1. Cardinality(Unmade) \in Nat
    BY FS_CardinalityType, Zenon DEF WaitInv, CountInv
  <2> QED BY <2>1, ChainAssumption, SMTT(30) DEF WaitInv, CountInv
<1> QED BY <1>1, ChainAssumption, SMTT(30) DEF Channel

LEMMA BeginFieldInv ==
    ASSUME FieldInv, PoolInv, NEW g \in Goroutine, BeginCall(g) PROVE FieldInv'
<1>1. ASSUME NEW addr \in Address \cup {NoAddress}, NEW found, NEW decode \in BOOLEAN,
             Begin(g, addr, found, decode)
      PROVE  FieldInv'
  <2>1. PICK ok \in found : call' = [call EXCEPT ![g] =
                    [pc |-> IF ok THEN "lookup" ELSE "return", addr |-> addr, ch |-> 0,
                     decode |-> decode, result |-> IF ok THEN "none" ELSE "err"]]
    BY <1>1, Zenon DEF Begin
  <2>2. [pc |-> IF ok THEN "lookup" ELSE "return", addr |-> addr, ch |-> 0,
         decode |-> decode, result |-> IF ok THEN "none" ELSE "err"] \in CallState
    BY ZeroFits, Zenon DEF CallState
  <2>3. call' \in [Goroutine -> CallState]
    BY <2>1, <2>2, Zenon DEF FieldInv
  <2> QED BY <1>1, <2>3, Zenon DEF FieldInv, Begin, svcVars
<1>2. Node \in Address /\ \A a \in DOMAIN pool : a \in Address
  BY Zenon DEF Address, PoolInv, Calling
<1>3. ASSUME NEW account, NEW decode \in BOOLEAN, Pooled(g, account, decode) PROVE FieldInv'
  BY <1>1, <1>2, <1>3, Zenon DEF Pooled
<1>4. ASSUME NEW account, NEW decode \in BOOLEAN, Own(g, account, decode) PROVE FieldInv'
  BY <1>1, <1>2, <1>4, Zenon DEF Own
<1> QED
  BY <1>3, <1>4, Zenon
  DEF BeginCall, OrderReady, StoreOrder, CompleteOrder, RenewOrder, MigrateOrder,
      TerminateOrder, UpdatePermission, Reset, ReportFaults, RecoverFaults,
      Create, ClaimReward, AddVstorage, RemoveVstorage, UpdateDidBinding

LEMMA SendFieldInv ==
    ASSUME FieldInv, WaitInv, NEW g \in Goroutine, NEW c \in 1 .. made, Send(g, c)
    PROVE  FieldInv'
<1>1. CASE c \in closed
  BY <1>1, ExitFieldInv, Zenon DEF Send, Phase
<1>2. CASE c \notin closed
  <2>1. PICK pc \in {"wait", "blocked"}, ch \in {0, c} :
            call' = [call EXCEPT ![g].pc = pc, ![g].ch = ch]
    BY <1>2, Zenon DEF Send
  <2>2. ch \in 0 .. MaxCalls
    BY ZeroFits, MadeFits, Zenon
  <2>3. [call[g] EXCEPT !.pc = pc, !.ch = ch] \in CallState
    <3>1. call[g] \in CallState
      BY Zenon DEF FieldInv
    <3> QED BY <2>2, <3>1, Zenon DEF CallState
  <2>4. call' \in [Goroutine -> CallState]
    BY <2>1, <2>3, Zenon DEF FieldInv
  <2> QED BY <1>2, <2>4, Zenon DEF FieldInv, Send
<1> QED BY <1>1, <1>2, Zenon

LEMMA CallFieldInv ==
    ASSUME FieldInv, WaitInv, NEW g \in Goroutine, CallStep(g) PROVE FieldInv'
<1>1. ASSUME NEW pc \in {"make", "sleep"}, Goto(g, pc) PROVE call' \in [Goroutine -> CallState]
  <2>1. call[g] \in CallState
    BY Zenon DEF FieldInv
  <2>2. [call[g] EXCEPT !.pc = pc] \in CallState
    BY <2>1, Zenon DEF CallState
  <2> QED BY <1>1, <2>2, Zenon DEF Goto, FieldInv
<1>2. call[g].pc \in {"lookup", "sleep"} /\ chans[call[g].addr] # 0 => chans[call[g].addr] \in 1 .. made
  <2>1. call[g].pc \in {"lookup", "sleep"} => chans[call[g].addr] \in 0 .. made
    BY Zenon DEF WaitInv, ChanInv, CallFits
  <2> QED BY <2>1, SMTT(30) DEF WaitInv, CountInv
<1>3. CASE Lookup(g)
  <2>1. CASE chans[call[g].addr] = 0
    BY <1>1, <1>3, <2>1, Zenon DEF Lookup, FieldInv, svcVars
  <2>2. CASE chans[call[g].addr] # 0
    BY <1>2, <1>3, <2>2, SendFieldInv, Zenon DEF Lookup, At
  <2> QED BY <2>1, <2>2, Zenon
<1>4. CASE MakeChan(g)
  <2>1. loop' \in [Channel -> LoopState]
    BY <1>4, Zenon DEF MakeChan, FieldInv, LoopState
  <2>2. made' \in Nat
    BY <1>4, SMTT(30) DEF MakeChan, WaitInv, CountInv
  <2>3. chans' \in [Address -> Nat]
    BY <1>4, <2>2, Zenon DEF MakeChan, FieldInv
  <2> QED BY <1>1, <1>4, <2>1, <2>3, Zenon DEF MakeChan, FieldInv
<1>5. CASE WakeAndSend(g)
  <2>1. chans[call[g].addr] # 0
    BY <1>5, Zenon DEF WakeAndSend, At, WaitInv, CallFits
  <2> QED BY <1>2, <1>5, <2>1, SendFieldInv, Zenon DEF WakeAndSend, At
<1>6. CASE SendBlocked(g)
  <2>1. call[g].ch \in 1 .. made
    BY <1>6, Zenon DEF SendBlocked, At, WaitInv, CallFits
  <2> QED BY <1>6, <2>1, SendFieldInv, Zenon DEF SendBlocked
<1>7. CASE Return(g)
  <2>1. CASE Exit("exited")
    BY <2>1, ExitFieldInv, Zenon DEF Phase
  <2>2. CASE ~Exit("exited")
    <3>1. /\ call' = [call EXCEPT ![g] = NoCall] /\ tx' = [tx EXCEPT ![g] = FALSE]
          /\ phase' = IF g = Main /\ phase = "starting" THEN "running" ELSE phase
          /\ UNCHANGED <<chans, closed, loop>>
      BY <1>7, <2>2, Zenon DEF Return, svcVars
    <3>2. phase' \in Phase
      BY <3>1, Zenon DEF FieldInv, Phase
    <3> QED BY <3>1, <3>2, NoCallFits, Zenon DEF FieldInv
  <2> QED BY <2>1, <2>2, Zenon
<1> QED BY <1>3, <1>4, <1>5, <1>6, <1>7, Zenon DEF CallStep

LEMMA LoopFieldInv ==
    ASSUME FieldInv, JobInv, NEW c \in Channel, LoopStep(c) \/ StopLoop(c) PROVE FieldInv'
<1>1. CASE TakeJob(c)
  <2>1. PICK g \in Goroutine : Queued(c, g)
    BY <1>1, Zenon DEF TakeJob, JobInv, JobShape, Queued
  <2>2. Head(queue[c]) = g
    BY <2>1, SMTT(30) DEF Queued
  <2>3. loop' \in [Channel -> LoopState]
    BY <1>1, <2>2, Zenon DEF TakeJob, FieldInv, LoopState
  <2> QED BY <1>1, <2>3, Zenon DEF TakeJob, FieldInv
<1>2. CASE TakeZeroJob(c)
  <2>1. loop' \in [Channel -> LoopState]
    BY <1>2, Zenon DEF TakeZeroJob, FieldInv, LoopState
  <2> QED BY <1>2, <2>1, Zenon DEF TakeZeroJob, FieldInv
<1>3. CASE StopLoop(c)
  <2>1. loop' \in [Channel -> LoopState]
    BY <1>3, Zenon DEF StopLoop, FieldInv, LoopState
  <2>2. phase' \in Phase
    BY <1>3, Zenon DEF StopLoop, Phase
  <2> QED BY <1>3, <2>1, <2>2, Zenon DEF StopLoop, FieldInv
<1>4. CASE Broadcast(c)
  <2> DEFINE g == loop[c].job
  <2>1. PICK done \in BOOLEAN, result \in {"err", "ok"} :
            /\ tx' = [tx EXCEPT ![g] = done]
            /\ call' = [call EXCEPT ![g].pc = "return", ![g].result = result]
    <3>1. PICK answer \in {"err", "code", "ok"} :
            /\ \E done \in IF answer = "err" THEN BOOLEAN ELSE {answer = "ok"} :
                tx' = [tx EXCEPT ![g] = done]
            /\ \E result \in IF answer # "ok" THEN {"err"}
                             ELSE {"ok"} \cup (IF call[g].decode THEN {"err"} ELSE {}) :
                call' = [call EXCEPT ![g].pc = "return", ![g].result = result]
      BY <1>4, Zenon DEF Broadcast
    <3>2. \E done \in BOOLEAN : tx' = [tx EXCEPT ![g] = done]
      BY <3>1, Zenon
    <3>3. \E result \in {"err", "ok"} :
             call' = [call EXCEPT ![g].pc = "return", ![g].result = result]
      BY <3>1, Zenon
    <3> QED BY <3>2, <3>3, Zenon
  <2>2. tx' \in [Goroutine -> BOOLEAN]
    BY <2>1, Zenon DEF FieldInv
  <2>3. call' \in [Goroutine -> CallState]
    <3>1. g \in Goroutine /\ call[g] \in CallState
      BY <2>1, Zenon DEF FieldInv, LoopState
    <3>2. [call[g] EXCEPT !.pc = "return", !.result = result] \in CallState
      BY <3>1, Zenon DEF CallState
    <3> QED BY <2>1, <3>2, Zenon DEF FieldInv
  <2>4. [NoLoop EXCEPT !.pc = "select"] \in LoopState
    BY NoCallFits, Zenon DEF LoopState
  <2>5. loop' \in [Channel -> LoopState]
    BY <1>4, <2>4, Zenon DEF Broadcast, FieldInv
  <2> QED BY <1>4, <2>2, <2>3, <2>5, Zenon DEF Broadcast, FieldInv
<1> QED BY <1>1, <1>2, <1>3, <1>4, Zenon DEF LoopStep

LEMMA NextFieldInv == FieldInv /\ PoolInv /\ JobInv /\ WaitInv /\ [Next]_vars => FieldInv'
<1> SUFFICES ASSUME FieldInv, PoolInv, JobInv, WaitInv, [Next]_vars PROVE FieldInv'
  BY Zenon
<1>1. ASSUME NEW to \in Phase, phase' = to, UNCHANGED <<chans, closed, loop, call, tx>>
      PROVE  FieldInv'
  BY <1>1, Zenon DEF FieldInv
<1>2. CASE ConcurrentMapWrites \/ ExitNode
  BY <1>2, ExitFieldInv, Zenon DEF ConcurrentMapWrites, ExitNode, Phase
<1>3. CASE MonitorShutdown \/ StopOthers
  BY <1>1, <1>3, ExitFieldInv, Zenon DEF MonitorShutdown, StopOthers, Step, svcVars, Phase
<1>4. CASE CloseChans
  <2>1. \A a \in Address : chans[a] # 0 => chans[a] \in 1 .. made
    BY SMTT(30) DEF WaitInv, ChanInv, CountInv
  <2>2. closed' \subseteq Channel
    BY <1>4, <2>1, MadeFits, Zenon DEF CloseChans
  <2> QED BY <1>4, <2>2, Zenon DEF CloseChans, FieldInv, Phase
<1>5. CASE UNCHANGED vars
  BY <1>5, Zenon DEF vars, FieldInv
<1> QED
  BY <1>2, <1>3, <1>4, <1>5, BeginFieldInv, CallFieldInv, LoopFieldInv, Zenon DEF Next, StopStep

-----------------------------------------------------------------------------
(* The invariants hold together in every reachable state.                  *)
LEMMA ChainInvariance == Spec => [](FieldInv /\ PoolInv /\ JobInv /\ WaitInv /\ TxInv)
<1> QED
  BY InitFieldInv, NextFieldInv, InitPoolInv, NextPoolInv, InitJobInv, NextJobInv,
     InitWaitInv, NextWaitInv, InitTxInv, NextTxInv, PTL
  DEF Spec

(* The state of the chain service keeps its type: in particular no call    *)
(* makes more channels than there are calls, and Stop closes only channels *)
(* that were made.                                                         *)
THEOREM ChainTypeCorrect == Spec => []TypeOK
<1>1. FieldInv /\ PoolInv /\ JobInv /\ WaitInv => TypeOK
  <2> SUFFICES ASSUME FieldInv, PoolInv, JobInv, WaitInv PROVE TypeOK
    BY Zenon
  <2>1. Cardinality(Unmade) \in Nat
    BY FS_CardinalityType, Zenon DEF WaitInv, CountInv
  <2>2. made \in 0 .. MaxCalls /\ calls \in 0 .. MaxCalls /\ 0 .. made \subseteq 0 .. MaxCalls
    BY <2>1, ChainAssumption, SMTT(30) DEF WaitInv, CountInv
  <2>3. chans \in [Address -> 0 .. MaxCalls]
    <3>1. \A a \in Address : chans[a] \in 0 .. MaxCalls
      BY <2>2, Zenon DEF WaitInv, ChanInv
    <3> QED BY <3>1, Zenon DEF FieldInv
  <2> QED
    BY <2>2, <2>3, Zenon
    DEF TypeOK, FieldInv, PoolInv, Calling, JobInv, JobShape, Phase, CallState, LoopState
<1> QED BY <1>1, ChainInvariance, PTL

(* Two calls never sign with the same address of the pool, and an address  *)
(* is marked as in use exactly while a call holds it.                      *)
THEOREM AddressAlwaysExclusive == Spec => []AddressIsExclusive
<1>1. PoolInv => AddressIsExclusive
  BY Zenon DEF PoolInv
<1> QED BY <1>1, ChainInvariance, PTL

(* Two transactions signed by one address of the pool are never in the     *)
(* channels and loops together, although the map of channels is not locked *)
(* and a signer may have several loops.                                    *)
THEOREM OneTxAlways == Spec => []OneTxPerPoolAddress
<1>1. PoolInv /\ JobInv => OneTxPerPoolAddress
  <2> SUFFICES ASSUME PoolInv, JobInv, NEW a \in DOMAIN pool \ {Node},
                      NEW g \in Goroutine, NEW h \in Goroutine,
                      call[g].addr = a, call[h].addr = a,
                      NEW p \in Places(g), NEW q \in Places(h)
               PROVE  p = q
    BY Zenon DEF OneTxPerPoolAddress
  <2>1. PICK c \in Channel : \/ p = <<"queue", c>> /\ Queued(c, g)
                             \/ p = <<"loop", c>> /\ Busy(c, g)
    BY Zenon DEF Places, Queued, Busy
  <2>2. PICK d \in Channel : \/ q = <<"queue", d>> /\ Queued(d, h)
                             \/ q = <<"loop", d>> /\ Busy(d, h)
    BY Zenon DEF Places, Queued, Busy
  <2>3. call[g].pc = "wait" /\ call[h].pc = "wait"
    BY <2>1, <2>2, Zenon DEF JobInv, AtMostOnce
  <2>4. g = h
    BY <2>3, SMTT(30) DEF Holds, PoolInv, AddressIsExclusive
  <2> QED BY <2>1, <2>2, <2>4, Zenon DEF JobInv, AtMostOnce
<1> QED BY <1>1, ChainInvariance, PTL

(* A method that reports success had its own message run by the chain,     *)
(* although loops serve many callers and answers get lost.                 *)
THEOREM SuccessAlwaysOnChain == Spec => []SuccessIsOnChain
<1>1. TxInv => SuccessIsOnChain
  BY Zenon DEF TxInv
<1> QED BY <1>1, ChainInvariance, PTL

(* A caller waits exactly while its job is in one channel or in one loop:  *)
(* no result is lost and none comes twice, whatever callers share a        *)
(* channel, block on it or replace it in the map.                          *)
THEOREM OneJobAlways == Spec => []OneJobPerCall
<1>1. JobInv /\ WaitInv => OneJobPerCall
  <2> SUFFICES ASSUME JobInv, WaitInv, NEW g \in Goroutine
               PROVE  /\ \A p, q \in Places(g) : p = q
                      /\ Places(g) # {} <=> call[g].pc = "wait"
    BY Zenon DEF OneJobPerCall
  <2>1. ASSUME NEW p \in Places(g)
        PROVE  \E c \in Channel : \/ p = <<"queue", c>> /\ Queued(c, g)
                                  \/ p = <<"loop", c>> /\ Busy(c, g)
    BY Zenon DEF Places, Queued, Busy
  <2>2. \A p, q \in Places(g) : p = q
    BY <2>1, Zenon DEF JobInv, AtMostOnce
  <2>3. Places(g) # {} => call[g].pc = "wait"
    BY <2>1, Zenon DEF JobInv, AtMostOnce
  <2>4. ASSUME call[g].pc = "wait" PROVE Places(g) # {}
    <3>1. PICK c \in Channel : Queued(c, g) \/ Busy(c, g)
      BY <2>4, Zenon DEF WaitInv, CallFits
    <3>2. <<"queue", c>> \in Places(g) \/ <<"loop", c>> \in Places(g)
      BY <3>1, Zenon DEF Places, Queued, Busy
    <3> QED BY <3>2, Zenon
  <2> QED BY <2>2, <2>3, <2>4, Zenon
<1> QED BY <1>1, ChainInvariance, PTL
=============================================================================
