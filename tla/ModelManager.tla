---------------------------- MODULE ModelManager ----------------------------
(***************************************************************************)
(* node/model/manager.go and the cache service under it: the requests on   *)
(* one data model (one data id with its alias) that the API and the RPC    *)
(* handler pass on.  Requests run concurrently; between two network calls  *)
(* a request touches the cache, which holds pointers: a model found in the *)
(* cache is the same object for every request that finds it, and Load      *)
(* writes to it.                                                           *)
(*                                                                         *)
(* The chain and the storage providers are external.  A file uploaded      *)
(* before (module Upload) becomes a model with ModelCreateFile.            *)
(***************************************************************************)
EXTENDS Upload, Functions

CONSTANTS
    Task,           \* requests on the model
    Account,        \* who signs a request
    Owner,          \* the owner of the model
    FirstLength,    \* the length of the content the model is created with
    MaxCommits,     \* bound on the commits, the refused ones included
    Large,          \* commits with a content above ContentLimit
    CacheCapacity,  \* entries of the cache of an account
    MaxModelFaults  \* bound on the failures of one behaviour

ASSUME ModelAssumption ==
    /\ Owner \in Account
    /\ FirstLength \in Length
    /\ MaxCommits \in Nat \ {0}
    /\ {CacheCapacity, MaxModelFaults} \subseteq Nat

VARIABLES
    status,     \* on the chain, the model is "none", "live" or "deleted"
    commits,    \* the commits of its metadata, oldest first
    order,      \* the order under way for it: its commit and staged content
    commitIds,  \* commit ids given out by clients
    caches,     \* LruCacheSvc.Caches: entries of an account, oldest use first
    heap,       \* the models that requests and caches point to
    task,       \* the requests and where their goroutines are
    named,      \* a load that named a commit was there
    modelFaults

chainVars == <<status, commits, order, commitIds>>

modelVars == <<chainVars, caches, heap, task, named, modelFaults>>

vars == <<uploadVars, modelVars>>

\* What the CID of a commit is the hash of.
Body(commit) == IF commit = 1 THEN Content(FirstLength) ELSE <<0, commit>>

Keyword == {"dataId", "alias"}

\* An entry of a cache; an order, or a model that requests share.
Entry == [key : Keyword \X Nat, obj : Nat]

Order == [commit : Nat, content : Bytes]

ASSUME AbsentModel == Absent \notin Seq(Entry) /\ Absent \notin Order

NoTask == [pc |-> "idle", kind |-> "none", account |-> Owner, keyword |-> "dataId", commit |-> 0,
           meta |-> 0, obj |-> 0, content |-> << >>, floor |-> 0]

\* A gateway starts, with the model on the chain or not.
Init ==
    /\ UploadInit
    /\ status \in {"none", "live"}
    /\ commits = IF status = "live" THEN <<1>> ELSE << >>
    /\ order = Absent
    /\ commitIds = 1
    /\ caches = [a \in Account |-> Absent]
    /\ heap = << >>
    /\ task = [t \in Task |-> NoTask]
    /\ named = FALSE
    /\ modelFaults = 0

-----------------------------------------------------------------------------
(* LruCacheSvc, with the promise of Lru: the entry used longest ago goes.  *)

\* Where the entry of a key is: 0 for nowhere.
Position(cache, key) ==
    IF \E i \in DOMAIN cache : cache[i].key = key
    THEN CHOOSE i \in DOMAIN cache : cache[i].key = key
    ELSE 0

Without(cache, i) == [j \in 1 .. Len(cache) - 1 |-> cache[IF j < i THEN j ELSE j + 1]]

\* What loadModel finds: 0 for nothing.
Cached(account, key) ==
    IF caches[account] = Absent \/ Position(caches[account], key) = 0
    THEN 0 ELSE caches[account][Position(caches[account], key)].obj

Refreshed(cache, key) ==
    IF Position(cache, key) = 0 THEN cache
    ELSE Append(Without(cache, Position(cache, key)), cache[Position(cache, key)])

\* Mutant of AfterGet: loadModel does not make the cache of the account.
AfterGetOnly(cache, key) == IF cache = Absent THEN Absent ELSE Refreshed(cache, key)

\* loadModel makes the cache of the account when there is none; a hit makes
\* the entry the one used last.
AfterGet(cache, key) == IF cache = Absent THEN << >> ELSE Refreshed(cache, key)

\* Room for an entry: its old place, or the one of the entry used longest ago.
Room(cache, key) ==
    IF Position(cache, key) # 0 THEN Without(cache, Position(cache, key))
    ELSE IF CacheCapacity > 0 /\ Len(cache) >= CacheCapacity THEN Tail(cache) ELSE cache

Put(cache, key, obj) == Append(Room(cache, key), [key |-> key, obj |-> obj])

\* cacheModel: the two entries of a model.  Put on an account without a cache
\* dereferences a nil pointer.
cacheModel(cache, commit, obj) ==
    Put(Put(cache, <<"dataId", commit>>, obj), <<"alias", commit>>, obj)

\* What cacheModel leaves of a content above the limit, in the model itself.
Kept(commit, content) == IF commit \in Large THEN << >> ELSE content

-----------------------------------------------------------------------------
(* The chain, as QueryMeta and CommitModel use it.                         *)

Latest == IF commits = << >> THEN 0 ELSE commits[Len(commits)]

Becomes(t, r) == task' = [task EXCEPT ![t] = r]

\* A request that failed is of no more interest.
At(r, pc) ==
    IF pc \in {"failed", "panicked"} THEN [NoTask EXCEPT !.pc = pc, !.account = r.account]
    ELSE [r EXCEPT !.pc = pc]

Moves(t, pc) == Becomes(t, At(task[t], pc))

ModelFault == modelFaults < MaxModelFaults /\ modelFaults' = modelFaults + 1

\* StoreOrder or OrderReady: the chain takes one order at a time, on top of
\* the last commit.
Accepts(last) ==
    /\ order = Absent
    /\ IF last = 0 THEN status = "none" ELSE status = "live" /\ last = Latest

\* The order completes: providers hold a content with the CID of the order.
OrderCompletes ==
    /\ order # Absent
    /\ order.content = Body(order.commit)
    /\ commits' = Append(commits, order.commit)
    /\ status' = "live"
    /\ order' = Absent
    /\ UNCHANGED <<uploadVars, commitIds, caches, heap, task, named, modelFaults>>

OrderExpires ==
    /\ order # Absent
    /\ order' = Absent
    /\ UNCHANGED <<uploadVars, status, commits, commitIds, caches, heap, task, named, modelFaults>>

-----------------------------------------------------------------------------
(* Load.                                                                   *)

Request(t, r) ==
    /\ task[t].pc = "idle"
    /\ Becomes(t, r)
    /\ UNCHANGED <<uploadVars, caches, heap, modelFaults>>

\* A commit of 0 stands for the latest one.
ModelLoad(t) ==
    \E a \in Account, k \in Keyword, c \in 0 .. commitIds :
        /\ Request(t, [NoTask EXCEPT !.pc = "query", !.kind = "load", !.account = a,
                            !.keyword = k, !.commit = c, !.floor = Latest])
        /\ named' = (named \/ c # 0)
        /\ UNCHANGED chainVars

\* QueryMeta, first thing in Load and Update.
QueryMeta(t) ==
    /\ task[t].pc = "query"
    /\ Becomes(t, At([task[t] EXCEPT !.meta = Latest],
                     IF status = "live" THEN "lookup" ELSE "failed"))
    /\ UNCHANGED <<uploadVars, chainVars, caches, heap, named, modelFaults>>

\* The cached model answers the request.
Hit(t, obj) ==
    /\ obj # 0
    /\ heap[obj].content # << >>
    /\ task[t].commit \in {0, heap[obj].commit}
    /\ task[t].meta = heap[obj].commit

\* Mutant of Lookup: the cached model is not compared with the metadata.
LookupAny(t) ==
    LET key == <<task[t].keyword, task[t].meta>>
        obj == Cached(Owner, key)
        older == {i \in 1 .. Len(heap) : heap[i].content # << >>}
    IN
    /\ task[t].pc = "lookup"
    /\ task[t].kind = "load"
    /\ caches' = [caches EXCEPT ![Owner] = AfterGet(@, key)]
    /\ \/ \E o \in older : task' = [task EXCEPT ![t].obj = o, ![t].pc = "respond"]
       \/ older = {} /\ task' = [task EXCEPT ![t].obj = obj, ![t].pc = "prepare"]
    /\ UNCHANGED <<uploadVars, chainVars, heap, named, modelFaults>>

Lookup(t) ==
    LET key == <<task[t].keyword, task[t].meta>>
        obj == Cached(Owner, key)
    IN
    /\ task[t].pc = "lookup"
    /\ task[t].kind = "load"
    /\ caches' = [caches EXCEPT ![Owner] = AfterGet(@, key)]
    /\ task' = [task EXCEPT ![t].obj = obj,
                            ![t].pc = IF Hit(t, obj) THEN "respond" ELSE "prepare"]
    /\ UNCHANGED <<uploadVars, chainVars, heap, named, modelFaults>>

\* A commit that is named is looked for in the metadata, and the metadata of
\* its height queried.  The model gets the commit, in place when it came from
\* the cache; its content comes later.
Prepare(t) ==
    LET r == task[t]
        target == IF r.commit = 0 THEN r.meta ELSE r.commit
        seen == {commits[i] : i \in {j \in DOMAIN commits : \A k \in 1 .. j - 1 : commits[k] # r.meta}}
    IN
    /\ r.pc = "prepare"
    /\ IF target \notin seen
       THEN Moves(t, "failed") /\ UNCHANGED heap
       ELSE /\ heap' = IF r.obj = 0 THEN Append(heap, [commit |-> target, content |-> << >>])
                       ELSE [heap EXCEPT ![r.obj].commit = target]
            /\ task' = [task EXCEPT ![t].meta = target, ![t].pc = "fetch",
                                    ![t].obj = IF @ = 0 THEN Len(heap) + 1 ELSE @]
    /\ UNCHANGED <<uploadVars, chainVars, caches, named, modelFaults>>

\* Mutant of Fetch: the content is the one of the latest commit by now.
FetchLatest(t) ==
    LET r == task[t] IN
    /\ r.pc = "fetch"
    /\ r.kind = "load"
    /\ caches[r.account] # Absent
    /\ heap' = [heap EXCEPT ![r.obj].content = Kept(Latest, Body(Latest))]
    /\ caches' = [caches EXCEPT ![r.account] = cacheModel(@, heap[r.obj].commit, r.obj)]
    /\ Moves(t, "respond")
    /\ UNCHANGED <<uploadVars, chainVars, named, modelFaults>>

\* FetchContent brings the content of the CID of the metadata.  The model is
\* then cached for the account of the request, whose cache may not be there.
Fetch(t) ==
    LET r == task[t] IN
    /\ r.pc = "fetch"
    /\ r.kind = "load"
    /\ IF caches[r.account] = Absent
       THEN /\ heap' = [heap EXCEPT ![r.obj].content = Kept(r.meta, Body(r.meta))]
            /\ Moves(t, "panicked")
            /\ UNCHANGED caches
       ELSE /\ heap' = [heap EXCEPT ![r.obj].content = Kept(r.meta, Body(r.meta))]
            /\ caches' = [caches EXCEPT ![r.account] = cacheModel(@, heap[r.obj].commit, r.obj)]
            /\ Moves(t, "respond")
    /\ UNCHANGED <<uploadVars, chainVars, named, modelFaults>>

\* The response is read from the model.
Respond(t) ==
    /\ task[t].pc = "respond"
    /\ LET model == heap[task[t].obj] IN
        Becomes(t, [NoTask EXCEPT !.pc = "ok", !.kind = "load", !.floor = task[t].floor,
                        !.meta = model.commit, !.content = model.content])
    /\ UNCHANGED <<uploadVars, chainVars, caches, heap, named, modelFaults>>

-----------------------------------------------------------------------------
(* Create and Update.                                                      *)

ModelCreate(t) ==
    /\ Request(t, [NoTask EXCEPT !.pc = "exists", !.kind = "create", !.commit = 1,
                        !.content = Body(1)])
    /\ UNCHANGED <<chainVars, named>>

\* ModelCreateFile: the record of the CID leads to the uploaded file.
ModelCreateFile(t) ==
    LET file == UploadedFile(FirstLength) IN
    /\ Request(t, IF file = Absent
                  THEN At(NoTask, "failed")
                  ELSE [NoTask EXCEPT !.pc = "exists", !.kind = "create", !.commit = 1,
                            !.content = file])
    /\ UNCHANGED <<chainVars, named>>

\* The client's proposal names the last commit it knows and a new one.
ModelUpdate(t) ==
    \E last \in Range(commits) :
        /\ commitIds < MaxCommits
        /\ commitIds' = commitIds + 1
        /\ Request(t, [NoTask EXCEPT !.pc = "query", !.kind = "update", !.commit = commitIds + 1,
                            !.floor = last])
        /\ UNCHANGED <<status, commits, order, named>>

\* The first commit of a model is its data id, so that these two keys are the
\* ones of a model that was created here.
CreateLookup(t) ==
    LET hit == \E k \in Keyword : Cached(Owner, <<k, 1>>) # 0 IN
    /\ task[t].pc = "exists"
    /\ caches' = [caches EXCEPT ![Owner] =
            AfterGet(AfterGet(@, <<"dataId", 1>>), <<"alias", 1>>)]
    /\ Moves(t, IF hit THEN "failed" ELSE "conflict")
    /\ UNCHANGED <<uploadVars, chainVars, heap, named, modelFaults>>

\* Metadata on the chain is a conflict; a query that fails is none.  An empty
\* content is refused.
CreateQuery(t) ==
    /\ task[t].pc = "conflict"
    /\ \/ /\ Moves(t, IF status = "live" \/ task[t].content = << >> THEN "failed" ELSE "commit")
          /\ UNCHANGED modelFaults
       \/ /\ Moves(t, IF task[t].content = << >> THEN "failed" ELSE "commit")
          /\ ModelFault
    /\ UNCHANGED <<uploadVars, chainVars, caches, heap, named>>

\* Update wants the model of the last commit, from the cache when that is
\* also the last one of the metadata.
UpdateLookup(t) ==
    LET r == task[t]
        key == <<r.keyword, r.floor>>
        obj == Cached(Owner, key)
        usable == /\ obj # 0
                  /\ heap[obj].content # << >>
                  /\ heap[obj].commit = r.floor
                  /\ heap[obj].commit = r.meta
    IN
    /\ r.pc = "lookup"
    /\ r.kind = "update"
    /\ caches' = [caches EXCEPT ![Owner] = AfterGet(@, key)]
    /\ task' = [task EXCEPT ![t].obj = IF usable THEN obj ELSE 0,
                            ![t].pc = IF usable THEN "patch" ELSE "fetch"]
    /\ UNCHANGED <<uploadVars, chainVars, heap, named, modelFaults>>

UpdateFetch(t) ==
    /\ task[t].pc = "fetch"
    /\ task[t].kind = "update"
    /\ task' = [task EXCEPT ![t].content = Body(task[t].meta), ![t].pc = "patch"]
    /\ UNCHANGED <<uploadVars, chainVars, caches, heap, named, modelFaults>>

\* The client's patch turns the content of its last commit into the one of
\* the new commit, and another content into something else.
ApplyPatch(base, last, commit) == IF base = Body(last) THEN Body(commit) ELSE <<0, 0>>

\* Mutant of Patch: the CID of the patched content is not checked.
PatchUnchecked(t) ==
    LET r == task[t]
        base == IF r.obj = 0 THEN r.content ELSE heap[r.obj].content
    IN
    /\ r.pc = "patch"
    /\ task' = [task EXCEPT ![t].content = ApplyPatch(base, r.floor, r.commit),
                            ![t].obj = 0, ![t].pc = "commit"]
    /\ UNCHANGED <<uploadVars, chainVars, caches, heap, named, modelFaults>>

\* The patched content must have the size and the CID of the proposal.
Patch(t) ==
    LET r == task[t]
        base == IF r.obj = 0 THEN r.content ELSE heap[r.obj].content
        new == ApplyPatch(base, r.floor, r.commit)
    IN
    /\ r.pc = "patch"
    /\ Becomes(t, At([r EXCEPT !.content = new, !.obj = 0],
                     IF new = Body(r.commit) THEN "commit" ELSE "failed"))
    /\ UNCHANGED <<uploadVars, chainVars, caches, heap, named, modelFaults>>

\* Mutant of CommitModel: it waits until the chain takes the order.
CommitModelWaits(t) ==
    LET r == task[t] IN
    /\ r.pc = "commit"
    /\ Accepts(IF r.kind = "create" THEN 0 ELSE r.floor)
    /\ order' = [commit |-> r.commit, content |-> r.content]
    /\ Becomes(t, [NoTask EXCEPT !.pc = "ok", !.kind = r.kind])
    /\ UNCHANGED <<uploadVars, status, commits, commitIds, caches, heap, named, modelFaults>>

\* CommitModel stages the content and sends the order; a new model is cached
\* at once, although the order has yet to complete.
CommitModel(t) ==
    LET r == task[t]
        last == IF r.kind = "create" THEN 0 ELSE r.floor
    IN
    /\ r.pc = "commit"
    /\ IF Accepts(last)
       THEN /\ order' = [commit |-> r.commit, content |-> r.content]
            /\ IF caches[Owner] = Absent
               THEN Moves(t, "panicked") /\ UNCHANGED <<heap, caches>>
               ELSE /\ heap' = Append(heap, [commit |-> r.commit,
                                            content |-> Kept(r.commit, r.content)])
                    /\ caches' = [caches EXCEPT ![Owner] = cacheModel(@, r.commit, Len(heap) + 1)]
                    /\ Becomes(t, [NoTask EXCEPT !.pc = "ok", !.kind = r.kind])
       ELSE Moves(t, "failed") /\ UNCHANGED <<order, heap, caches>>
    /\ UNCHANGED <<uploadVars, status, commits, commitIds, named, modelFaults>>

\* The order is on the chain, but saving its record fails: CommitModel returns
\* the error and nothing is cached.
CommitUnsaved(t) ==
    LET r == task[t] IN
    /\ r.pc = "commit"
    /\ Accepts(IF r.kind = "create" THEN 0 ELSE r.floor)
    /\ ModelFault
    /\ order' = [commit |-> r.commit, content |-> r.content]
    /\ Moves(t, "failed")
    /\ UNCHANGED <<uploadVars, status, commits, commitIds, caches, heap, named>>

-----------------------------------------------------------------------------
(* Delete, and what goes wrong.                                            *)

\* TerminateOrder, then a look into the cache under the bare data id: no
\* entry has that key, so that nothing is evicted.
ModelDelete(t) ==
    /\ Request(t, [NoTask EXCEPT !.pc = "ok", !.kind = "delete"])
    /\ status = "live"
    /\ status' = "deleted"
    /\ order' = Absent
    /\ UNCHANGED <<commits, commitIds, named>>

\* A query, a fetch or a transaction fails, and the request with it.
RequestFails(t) ==
    /\ task[t].pc \in {"query", "prepare", "fetch", "commit"}
    /\ ModelFault
    /\ Moves(t, "failed")
    /\ UNCHANGED <<uploadVars, chainVars, caches, heap, named>>

\* The gateway stops, with the handlers of uploads: the caches are lost.
Crash ==
    /\ UploadCrash
    /\ caches' = [a \in Account |-> Absent]
    /\ heap' = << >>
    /\ task' = [t \in Task |->
            IF task[t].pc \in {"idle", "ok", "failed", "panicked"} THEN task[t]
            ELSE At(task[t], "failed")]
    /\ UNCHANGED <<chainVars, named, modelFaults>>

BeginRequest(t) ==
    ModelLoad(t) \/ ModelCreate(t) \/ ModelCreateFile(t) \/ ModelUpdate(t) \/ ModelDelete(t)

RequestStep(t) ==
    \/ QueryMeta(t) \/ Lookup(t) \/ Prepare(t) \/ Fetch(t) \/ Respond(t)
    \/ CreateLookup(t) \/ CreateQuery(t)
    \/ UpdateLookup(t) \/ UpdateFetch(t) \/ Patch(t) \/ CommitModel(t)

ModelNext ==
    \/ \E t \in Task :
        BeginRequest(t) \/ RequestStep(t) \/ CommitUnsaved(t) \/ RequestFails(t)
    \/ OrderCompletes \/ OrderExpires

UploadsNext ==
    \E c \in Client :
        (\E n \in Length : DoTransport(c, n)) \/ UploadStep(c) \/ UploadFails(c) \/ ConnectionLost(c)

Next == ModelNext \/ (UploadsNext /\ UNCHANGED modelVars) \/ Crash

Working ==
    \/ \E t \in Task : RequestStep(t)
    \/ \E c \in Client : UploadStep(c) /\ UNCHANGED modelVars

\* Requests and handlers of chunks are goroutines, and calls on the network
\* have a deadline or a connection that ends: as long as one can go on, one of
\* them does.
Fairness == WF_vars(Working)

Spec == Init /\ [][Next]_vars /\ Fairness

-----------------------------------------------------------------------------
(* Properties.                                                             *)

\* The type of the state of the model manager (manager.go and the uploads).
TypeOK ==
    /\ UploadTypeOK
    /\ status \in {"none", "live", "deleted"}
    /\ Range(commits) \subseteq 1 .. commitIds
    /\ order # Absent => order.commit \in 1 .. commitIds
    /\ commitIds \in 1 .. MaxCommits
    /\ \A a \in Account : caches[a] # Absent =>
        /\ CacheCapacity > 0 => Len(caches[a]) <= CacheCapacity
        /\ \A i \in DOMAIN caches[a] : caches[a][i].obj \in DOMAIN heap
    /\ \A t \in Task :
        /\ task[t].pc \in {"idle", "query", "lookup", "prepare", "fetch", "respond", "exists",
                          "conflict", "patch", "commit", "ok", "failed", "panicked"}
        /\ task[t].obj \in DOMAIN heap \cup {0}

\* Uploads of the same content have been at work together.
Overlapped == \E c \in Client : client[c].overlap

Loaded(t) == task[t].kind = "load" /\ task[t].pc = "ok"

\* manager.go, Load: the content of the answer is the one of the commit the
\* answer names (or is left out, when it is large), although the model it is
\* read from is shared with the cache and with other requests.  (As long as
\* no load has named a commit: such a load writes an older commit into the
\* cached model of the latest one, before it has the content; and unless
\* uploads of the same content ran at the same time: Create caches what they
\* left behind without a look at its CID, and a load may find it there.)
LoadIsCommit ==
    \A t \in Task :
        (Loaded(t) /\ ~named) =>
            \/ task[t].content = Kept(task[t].meta, Body(task[t].meta))
            \/ Overlapped

\* manager.go, Load: the commit of the answer is one of the chain and no older
\* than the latest commit when the request came in; a model that was cached
\* when its order was sent is not served before the order has completed.
LoadIsFresh ==
    \A t \in Task :
        (Loaded(t) /\ ~named) =>
            /\ task[t].meta \in Range(commits)
            /\ task[t].meta >= task[t].floor

\* manager.go, Create and Update: what CommitModel stages for an order has the
\* CID of the order, also when the model it was patched from was changed in
\* the cache meanwhile, and when it comes from a file that was uploaded in
\* several attempts.  (Uploads of the same content that run at the same time
\* share the record and are excluded.)
StagedIsCid ==
    order # Absent =>
        \/ order.content = Body(order.commit)
        \/ Overlapped

\* manager.go, loadModel and cacheModel: a request of the owner finds the cache
\* that cacheModel puts the model into; only another account's load can meet
\* a cache that is not there.
OwnerNeverPanics ==
    \A t \in Task : task[t].pc = "panicked" => task[t].account # Owner

Pending ==
    \/ \E t \in Task : task[t].pc \notin {"idle", "ok", "failed", "panicked"}
    \/ \E c \in Client : Active(c)

\* manager.go and rpc_handler.go: every request and every upload comes to an
\* answer, or its client is told that it failed; no two wait for one another.
RequestEnds == Pending ~> ~Pending
=============================================================================
