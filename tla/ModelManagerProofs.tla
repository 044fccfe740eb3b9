------------------------ MODULE ModelManagerProofs ------------------------
(***************************************************************************)
(* Proofs about uploads and the requests on a model (Upload and            *)
(* ModelManager), for any number of clients, requests, chunks and commits. *)
(*                                                                         *)
(* UploadInv says what an upload can rely on while no other upload of the  *)
(* same content is at work; ModelInv says what holds of the caches, of the *)
(* models they share with requests, and of each request at each of its     *)
(* steps.                                                                  *)
(*                                                                         *)
(* The steps of uploads, those of requests and those of the chain each     *)
(* have a lemma that says what they preserve; the facts only its proof     *)
(* needs are the named steps of that proof (<1>ChunkFacts and so on).      *)
(***************************************************************************)
EXTENDS ModelManager, TLAPS

\* Steps are left to Zenon, unless they say otherwise.
USE Zenon

-----------------------------------------------------------------------------
(* The inductive invariant, uploads.                                       *)

AtWork(pc) == pc \notin {"new", "ok", "failed"}

ClientPc ==
    {"new", "send", "chunkInfo", "create", "write", "done", "assemble", "writeWhole",
     "answer", "ok", "failed"}

ClientState ==
    [pc : ClientPc, length : Length \cup {0}, next : Nat, info : ReceivedFileInfo \cup {Absent},
     read : Bytes, gone : BOOLEAN, fault : BOOLEAN, overlap : BOOLEAN]

\* A directory: contents by name.
IsFiles(dir) == dir = [x \in DOMAIN dir |-> dir[x]] /\ \A x \in DOMAIN dir : dir[x] \in Bytes

\* The types, with what an upload at work always has.
UploadFields ==
    /\ client \in [Client -> ClientState]
    /\ record \in [Length -> ReceivedFileInfo \cup {Absent}]
    /\ staged = [d \in Peer \X Length |-> staged[d]]
    /\ \A d \in Peer \X Length : IsFiles(staged[d])
    /\ uploadFaults \in 0 .. MaxUploadFaults

\* What holds of an upload, whatever others do.
UploadOK(u) ==
    /\ AtWork(u.pc) => u.length \in Length /\ u.next <= TotalChunks(u.length)
    /\ u.next <= TotalChunks(u.length) + 1
    /\ u.pc \in {"assemble", "writeWhole"} => u.info \in ReceivedFileInfo
    /\ u.pc \notin {"assemble", "writeWhole"} => u.read = << >>
    /\ u.pc \in {"chunkInfo", "create", "write"} => u.next * CHUNK_SIZE < u.length
    /\ u.pc \in {"done", "assemble", "writeWhole"} => u.length <= u.next * CHUNK_SIZE
    /\ u.pc = "new" => ~u.overlap
    /\ u.gone => u.fault
    /\ (u.pc = "failed" /\ ~u.fault /\ ~u.overlap) => u.length % CHUNK_SIZE = 0

\* The record of a content, for a length of 0 there is none.
RecordOK(n, info) ==
    info # Absent => n # 0 /\ Len(info.chunkCids) = TotalChunks(n)

\* ChunkCids when the first m chunks have come.
FirstCids(n, m) ==
    [i \in 1 .. TotalChunks(n) |-> IF i <= m THEN Chunk(n, i - 1) ELSE Absent]

\* The file of this name is complete.
Holds(dir, name) == name \in DOMAIN dir /\ dir[name] = name

\* The files of the first m chunks are complete.
Stored(dir, n, m) == \A i \in 0 .. m - 1 : Holds(dir, Chunk(n, i))

\* The chunks an upload has recorded, and the ones it has read back.
Sent(u) == IF u.pc \in {"create", "write", "answer"} THEN u.next + 1 ELSE u.next

ReadBack(u) == TotalChunks(u.length) - Len(u.info.chunkCids)

\* An upload that is putting the file together: the chunks it has yet to read,
\* and what it has read.
Assembles(p, u) ==
    /\ u.next > 0
    /\ u.info.path = p
    /\ ReadBack(u) \in 0 .. u.next
    /\ \A i \in 1 .. Len(u.info.chunkCids) :
        u.info.chunkCids[i] = FirstCids(u.length, u.next)[i + ReadBack(u)]
    /\ u.read = Content(Cut(u.length, ReadBack(u)))

\* What an upload that has the record and the directory of its content to
\* itself can rely on.
ClientOK(p, u, info, dir) ==
    /\ Sent(u) > 0 => info = [path |-> p, chunkCids |-> FirstCids(u.length, Sent(u))]
    /\ u.pc \in {"send", "chunkInfo", "create", "write", "done", "assemble"} =>
        Stored(dir, u.length, u.next)
    /\ u.pc = "assemble" => Assembles(p, u)
    /\ u.pc = "writeWhole" =>
        u.next = TotalChunks(u.length) /\ u.info.path = p /\ u.read = Content(u.length)
    /\ u.pc = "answer" =>
        \/ u.next * CHUNK_SIZE < u.length /\ Stored(dir, u.length, u.next + 1)
        \/ u.next = TotalChunks(u.length) /\ Holds(dir, Content(u.length))

\* Uploads of the same content at the same time know of it.
Apart ==
    \A c, d \in Client :
        (c # d /\ AtWork(client[c].pc) /\ AtWork(client[d].pc)
            /\ client[c].length = client[d].length) => client[c].overlap

\* Without them a file is empty or complete.
FilesOK ==
    ~Overlapped =>
        \A d \in Peer \X Length : \A x \in DOMAIN staged[d] : staged[d][x] \in {<< >>, x}

UploadInv ==
    /\ UploadFields
    /\ \A c \in Client : UploadOK(client[c])
    /\ \A n \in Length : RecordOK(n, record[n])
    /\ Apart
    /\ \A c \in Client : (AtWork(client[c].pc) /\ ~client[c].overlap) =>
        ClientOK(PeerOf[c], client[c], record[client[c].length],
                 staged[<<PeerOf[c], client[c].length>>])
    /\ FilesOK

-----------------------------------------------------------------------------
(* The inductive invariant, requests.                                      *)

TaskPc ==
    {"idle", "query", "lookup", "prepare", "fetch", "respond", "exists", "conflict",
     "patch", "commit", "ok", "failed", "panicked"}

TaskState ==
    [pc : TaskPc, kind : {"none", "load", "create", "update", "delete"}, account : Account,
     keyword : Keyword, commit : Nat, meta : Nat, obj : Nat, content : Bytes, floor : Nat]

ModelFields ==
    /\ status \in {"none", "live", "deleted"}
    /\ commits \in Seq(Nat)
    /\ order \in Order \cup {Absent}
    /\ commitIds \in 1 .. MaxCommits
    /\ caches \in [Account -> Seq(Entry) \cup {Absent}]
    /\ heap \in Seq(Order)
    /\ task \in [Task -> TaskState]
    /\ named \in BOOLEAN
    /\ modelFaults \in Nat

Newest(cs) == IF cs = << >> THEN 0 ELSE cs[Len(cs)]

\* The content of a model is the one of its commit.
Whole(m) == m.content = Kept(m.commit, Body(m.commit))

\* What is left out, or the content of the commit.
ModelsOK == (~named /\ ~Overlapped) => \A i \in DOMAIN heap : heap[i].content = << >> \/ Whole(heap[i])

\* An entry leads to the model of its commit.
CacheOK(cache, h, nm) ==
    cache # Absent =>
        /\ CacheCapacity > 0 => Len(cache) <= CacheCapacity
        /\ \A i \in 1 .. Len(cache) :
            /\ cache[i].obj \in 1 .. Len(h)
            /\ ~nm => h[cache[i].obj].commit = cache[i].key[2]

ChainOK ==
    /\ status = "none" => commits = << >>
    /\ status = "live" => commits # << >>
    /\ \A i \in 1 .. Len(commits) : commits[i] \in 1 .. commitIds
    /\ order # Absent =>
        /\ order.commit \in 1 .. commitIds
        /\ order.commit > Latest
        /\ ~Overlapped => order.content = Body(order.commit)

KindOK(r) ==
    /\ r.pc \in {"query", "lookup", "fetch"} => r.kind \in {"load", "update"}
    /\ r.pc \in {"prepare", "respond"} => r.kind = "load"
    /\ r.pc \in {"exists", "conflict"} => r.kind = "create"
    /\ r.pc = "patch" => r.kind = "update"
    /\ r.pc = "commit" => r.kind \in {"create", "update"}

\* The owner's cache is there when a request will put a model into it.
OwnerOK(r, cache) ==
    /\ r.pc \in {"prepare", "fetch", "conflict", "patch", "commit"} => cache # Absent
    /\ r.pc = "panicked" => r.account # Owner

\* The commit a request makes is new.
CommitOK(r, ids) ==
    /\ (r.pc \in {"exists", "conflict", "commit"} /\ r.kind = "create") => r.commit = 1
    /\ (r.pc \in {"query", "lookup", "fetch", "patch", "commit"} /\ r.kind = "update") =>
        r.floor < r.commit /\ r.commit <= ids

\* The content it stages is the one of that commit.
StageOK(r, ov) ==
    /\ (r.pc \in {"exists", "conflict"} /\ ~ov) => r.content \in {<< >>, Body(1)}
    /\ (r.pc = "commit" /\ ~ov) => r.content = Body(r.commit)

\* The model it works on, none when it has ended.
PointOK(r, h) ==
    /\ r.obj \in 0 .. Len(h)
    /\ r.pc \in {"idle", "ok", "failed", "panicked"} => r.obj = 0
    /\ (r.pc \in {"fetch", "respond"} /\ r.kind = "load") => r.obj # 0

\* A load that names no commit: what it knows of the chain, the model it works
\* on and the answer.
LoadOK(r, h, cs, ov) ==
    /\ r.commit = 0
    /\ r.pc = "query" => r.floor <= Newest(cs)
    /\ r.pc \in {"lookup", "prepare", "fetch", "respond", "ok"} =>
        (\E i \in 1 .. Len(cs) : cs[i] = r.meta) /\ r.floor <= r.meta
    /\ (r.pc \in {"prepare", "fetch", "respond"} /\ r.obj # 0) => h[r.obj].commit = r.meta
    /\ (r.pc = "respond" /\ ~ov) => Whole(h[r.obj])
    /\ (r.pc = "ok" /\ ~ov) => r.content = Kept(r.meta, Body(r.meta))

TaskOK(r, h, cache, cs, ids, nm, ov) ==
    /\ KindOK(r)
    /\ OwnerOK(r, cache)
    /\ CommitOK(r, ids)
    /\ StageOK(r, ov)
    /\ PointOK(r, h)
    /\ (r.kind = "load" /\ ~nm) => LoadOK(r, h, cs, ov)

ModelInv ==
    /\ ModelFields
    /\ ModelsOK
    /\ \A a \in Account : CacheOK(caches[a], heap, named)
    /\ ChainOK
    /\ \A t \in Task :
        TaskOK(task[t], heap, caches[Owner], commits, commitIds, named, Overlapped)

-----------------------------------------------------------------------------
(* Contents and sequences.                                                 *)

\* Sequences of the same length and elements are equal.
LEMMA SameSequence ==
    ASSUME NEW s \in Seq(Nat), NEW t \in Seq(Nat), Len(s) = Len(t),
           \A i \in 1 .. Len(s) : s[i] = t[i]
    PROVE  s = t
    BY SMTT(30)

\* A file is cut into one chunk at least, and its chunks cover it (client/transport.go).
LEMMA Division ==
    ASSUME NEW n \in Nat
    PROVE  /\ TotalChunks(n) \in Nat \ {0}
           /\ n < TotalChunks(n) * CHUNK_SIZE
           /\ n % CHUNK_SIZE \in Nat
<1>1. n \div CHUNK_SIZE \in Nat /\ n % CHUNK_SIZE \in 0 .. CHUNK_SIZE - 1
    BY UploadAssumption, SMTT(30)
<1>2. n = CHUNK_SIZE * (n \div CHUNK_SIZE) + (n % CHUNK_SIZE)
    BY UploadAssumption, SMTT(30)
<1> QED
    BY <1>1, <1>2, UploadAssumption, SMTT(30) DEF TotalChunks

\* The content of a file, byte by byte.
LEMMA ContentFacts ==
    ASSUME NEW n \in Nat
    PROVE  /\ Content(n) \in Seq(Nat)
           /\ Len(Content(n)) = n
           /\ \A i \in 1 .. n : Content(n)[i] = i
    BY SMTT(30) DEF Content

\* A sequence without its first element.
LEMMA TailFacts ==
    ASSUME NEW S, NEW s \in Seq(S), s # << >>
    PROVE  /\ Tail(s) \in Seq(S)
           /\ Len(s) \in Nat /\ Len(s) > 0
           /\ Len(Tail(s)) = Len(s) - 1
           /\ s[1] \in S
           /\ \A i \in 1 .. Len(Tail(s)) : Tail(s)[i] = s[i + 1]
    BY SMTT(30)

\* A number up to a natural number is a natural number.
LEMMA UpTo ==
    ASSUME NEW k \in Nat, NEW j \in 0 .. k
    PROVE  j \in Nat
    BY SMTT(30)

\* The empty sequence of bytes.
LEMMA NoBytes ==
    << >> \in Bytes
    BY SMTT(30) DEF Bytes

-----------------------------------------------------------------------------
(* The steps of uploads.                                                   *)

\* The bytes after position a, up to position b.
Between(s, a, b) ==
    s \in Seq(Nat) /\ Len(s) = b - a /\ \A i \in 1 .. b - a : s[i] = a + i

\* The directory after a file was written.
Written(new, dir, name, content) ==
    /\ IsFiles(new)
    /\ DOMAIN new = DOMAIN dir \cup {name}
    /\ new[name] = content
    /\ \A x \in DOMAIN dir : x # name => new[x] = dir[x]

\* The state of an upload becomes v, for the same content.
Steps(c, v) ==
    /\ client' = [client EXCEPT ![c] = v]
    /\ v \in ClientState
    /\ v.length = client[c].length
    /\ v.overlap = client[c].overlap

\* Only where the upload is has changed.
Alike(u, v) ==
    /\ v.length = u.length /\ v.next = u.next
    /\ v.info = u.info /\ v.read = u.read
    /\ v.gone = u.gone /\ v.fault = u.fault /\ v.overlap = u.overlap

\* A record with one more chunk in it.
HasChunk(new, info, i, x) == new = [info EXCEPT !.chunkCids[i] = x]

SameSize(new, info) == new \in ReceivedFileInfo /\ Len(new.chunkCids) = Len(info.chunkCids)

\* The record that an upload of the peer p makes.
IsInfo(info, p, cids) == info = [path |-> p, chunkCids |-> cids]

InfoParts(info, p, cids) ==
    info \in ReceivedFileInfo /\ info.path = p /\ info.chunkCids = cids /\ info # Absent

\* What looking its record up makes of the upload.
LooksUp(u, v, info, pc) ==
    /\ v \in ClientState /\ v.pc = pc /\ v.info = info
    /\ v.length = u.length /\ v.next = u.next /\ v.read = u.read
    /\ v.gone = u.gone /\ v.fault = u.fault /\ v.overlap = u.overlap

\* What a step that reads a chunk makes of the upload.
ReadsOn(u, v, content) ==
    /\ v \in ClientState /\ v.pc = u.pc
    /\ v.info \in ReceivedFileInfo /\ v.info.path = u.info.path
    /\ v.info.chunkCids = Tail(u.info.chunkCids)
    /\ v.read = u.read \o content
    /\ v.length = u.length /\ v.next = u.next
    /\ v.gone = u.gone /\ v.fault = u.fault /\ v.overlap = u.overlap

\* What giving up makes of the upload.
GivesUp(u, v) ==
    /\ v \in ClientState /\ v.pc = "failed" /\ v.read = << >>
    /\ v.length = u.length /\ v.next = u.next
    /\ v.gone = u.gone /\ v.fault = u.fault /\ v.overlap = u.overlap

\* What writing the file makes of the upload.
Wrote(u, v) ==
    /\ v \in ClientState /\ v.pc = "answer" /\ v.read = << >>
    /\ v.length = u.length /\ v.next = u.next
    /\ v.gone = u.gone /\ v.fault = u.fault /\ v.overlap = u.overlap

\* What a failure makes of the upload.
Ends(u, v) ==
    /\ v \in ClientState /\ v.pc = "failed" /\ v.length = u.length /\ v.overlap = u.overlap
    /\ UploadOK(v)

Begins(v, n, ov) ==
    /\ v \in ClientState /\ v.pc = "send" /\ v.length = n /\ v.overlap = ov
    /\ UploadOK(v)
    /\ \A p, info, dir : ClientOK(p, v, info, dir)

\* One upload becomes v, not a successful one unless it was answered.
Progress(c, v) ==
    /\ client' = [client EXCEPT ![c] = v]
    /\ v.overlap = client[c].overlap
    /\ v.pc = "ok" => Answer(c)

\* What uploads that ran together have left stays of concern, and an upload
\* becomes a successful one with the answer to its last chunk.
UploadsMove ==
    /\ Overlapped => Overlapped'
    /\ \A d \in Client : (Active(d) /\ client'[d].pc = "ok") => Answer(d)

\* Uploads keep their invariant, and the answer to the last chunk comes with the
\* whole file in its place.
LEMMA UploadSteps ==
    /\ UploadInit => UploadInv
    /\ UploadInv /\ UploadsNext => UploadInv' /\ UploadsMove
    /\ UploadInv /\ UploadCrash => UploadInv' /\ UploadsMove /\ (Overlapped' <=> Overlapped)
    /\ UploadInv /\ UNCHANGED uploadVars => UploadInv'
    /\ \A c \in Client :
        (UploadInv /\ Answer(c) /\ client'[c].pc = "ok" /\ ~client[c].overlap) =>
            UploadedFile(client[c].length)' = Content(client[c].length)

\* A chunk with content is one of the chunks of the record.
<1>InRecord.
    ASSUME NEW n \in Nat, NEW k \in Nat, k * CHUNK_SIZE < n
    PROVE  k + 1 <= TotalChunks(n)
    <2> USE <1>InRecord
    <2>1. n \div CHUNK_SIZE \in Nat /\ n % CHUNK_SIZE \in 0 .. CHUNK_SIZE - 1
        BY UploadAssumption, SMTT(30)
    <2>2. n = CHUNK_SIZE * (n \div CHUNK_SIZE) + (n % CHUNK_SIZE)
        BY UploadAssumption, SMTT(30)
    <2> QED
        BY <2>1, <2>2, UploadAssumption, SMTT(30) DEF TotalChunks

\* An empty chunk has a place in the record only when the length is a multiple
\* of CHUNK_SIZE.
<1>EmptyChunk.
    ASSUME NEW n \in Nat, NEW k \in Nat, n <= k * CHUNK_SIZE, k < TotalChunks(n)
    PROVE  n % CHUNK_SIZE = 0
    <2> USE <1>EmptyChunk
    <2>1. n \div CHUNK_SIZE \in Nat /\ n % CHUNK_SIZE \in 0 .. CHUNK_SIZE - 1
        BY UploadAssumption, SMTT(30)
    <2>2. n = CHUNK_SIZE * (n \div CHUNK_SIZE) + (n % CHUNK_SIZE)
        BY UploadAssumption, SMTT(30)
    <2>3. k <= n \div CHUNK_SIZE
        BY <2>1, SMTT(30) DEF TotalChunks
    <2> QED
        BY <2>1, <2>2, <2>3, UploadAssumption, SMTT(30)

<1>CutFacts.
    ASSUME NEW n \in Nat, NEW k \in Nat
    PROVE  /\ Cut(n, k) \in 0 .. n
           /\ Cut(n, k + 1) \in Cut(n, k) .. n
           /\ Cut(n, k + 1) = Cut(n, k) <=> n <= k * CHUNK_SIZE
           /\ k * CHUNK_SIZE < n => Cut(n, k) = k * CHUNK_SIZE
           /\ n <= k * CHUNK_SIZE => Cut(n, k) = n
    BY <1>CutFacts, UploadAssumption, SMTT(30) DEF Cut

<1>CutOrder.
    ASSUME NEW n \in Nat, NEW k \in Nat
    PROVE  /\ Cut(n, k) \in Nat /\ Cut(n, k + 1) \in Nat
           /\ Cut(n, k) <= Cut(n, k + 1) /\ Cut(n, k + 1) <= n
           /\ k * CHUNK_SIZE < n => Cut(n, k) < Cut(n, k + 1)
    BY <1>CutOrder, UploadAssumption, SMTT(30) DEF Cut

<1>FirstCut.
    ASSUME NEW n \in Nat
    PROVE  Cut(n, 0) = 0
    BY <1>FirstCut, UploadAssumption, SMTT(30) DEF Cut

<1>Slice.
    ASSUME NEW s \in Seq(Nat), NEW a \in Nat, NEW b \in Nat, a <= b, b <= Len(s)
    PROVE  /\ SubSeq(s, a + 1, b) \in Seq(Nat)
           /\ Len(SubSeq(s, a + 1, b)) = b - a
           /\ \A i \in 1 .. b - a : SubSeq(s, a + 1, b)[i] = s[a + i]
    <2> USE <1>Slice
    <2>1. SubSeq(s, a + 1, b) \in Seq(Nat)
        BY SMTT(30)
    <2>2. Len(SubSeq(s, a + 1, b)) = b - a
        BY SMTT(30)
    <2>3. ASSUME NEW i \in 1 .. b - a
          PROVE  SubSeq(s, a + 1, b)[i] = s[a + i]
        BY SMTT(30)
    <2> QED
        BY <2>1, <2>2, <2>3

<1>ContentSlice.
    ASSUME NEW n \in Nat, NEW a \in Nat, NEW b \in Nat, a <= b, b <= n
    PROVE  /\ SubSeq(Content(n), a + 1, b) \in Seq(Nat)
           /\ Len(SubSeq(Content(n), a + 1, b)) = b - a
           /\ \A i \in 1 .. b - a : SubSeq(Content(n), a + 1, b)[i] = a + i
    <2> USE <1>ContentSlice
    <2>1. Content(n) \in Seq(Nat) /\ b <= Len(Content(n))
        BY ContentFacts
    <2>2. ASSUME NEW i \in 1 .. b - a
          PROVE  SubSeq(Content(n), a + 1, b)[i] = a + i
        <3>1. SubSeq(Content(n), a + 1, b)[i] = Content(n)[a + i]
            BY <2>1, <1>Slice
        <3>2. a + i \in 1 .. n
            BY SMTT(30)
        <3> QED
            BY <3>1, <3>2, ContentFacts
    <2> QED
        BY <2>1, <2>2, <1>Slice

<1>ChunkFacts.
    ASSUME NEW n \in Nat, NEW k \in Nat
    PROVE  /\ Chunk(n, k) \in Seq(Nat)
           /\ Len(Chunk(n, k)) = Cut(n, k + 1) - Cut(n, k)
           /\ \A i \in 1 .. Cut(n, k + 1) - Cut(n, k) : Chunk(n, k)[i] = Cut(n, k) + i
    <2> USE <1>ChunkFacts
    <2> DEFINE a == Cut(n, k)
               b == Cut(n, k + 1)
    <2>1. Chunk(n, k) = SubSeq(Content(n), a + 1, b)
        BY DEF Chunk
    <2>2. a \in Nat /\ b \in Nat /\ a <= b /\ b <= n
        BY <1>CutOrder
    <2> HIDE DEF a, b
    <2>3. /\ SubSeq(Content(n), a + 1, b) \in Seq(Nat)
          /\ Len(SubSeq(Content(n), a + 1, b)) = b - a
          /\ \A i \in 1 .. b - a : SubSeq(Content(n), a + 1, b)[i] = a + i
        BY <2>2, <1>ContentSlice
    <2>4. Chunk(n, k) \in Seq(Nat) /\ Len(Chunk(n, k)) = b - a /\ \A i \in 1 .. b - a : Chunk(n, k)[i] = a + i
        BY <2>1, <2>3
    <2> QED
        BY <2>4 DEF a, b

<1>EmptySequence.
    ASSUME NEW s \in Seq(Nat)
    PROVE  s = << >> <=> Len(s) = 0
    BY <1>EmptySequence, SMTT(30)

<1>ChunkEmpty.
    ASSUME NEW n \in Nat, NEW k \in Nat
    PROVE  Chunk(n, k) = << >> <=> n <= k * CHUNK_SIZE
    <2> USE <1>ChunkEmpty
    <2>1. Cut(n, k) \in Nat /\ Cut(n, k + 1) \in Nat /\ (Cut(n, k + 1) = Cut(n, k) <=> n <= k * CHUNK_SIZE)
        BY <1>CutFacts, <1>CutOrder
    <2>2. Cut(n, k + 1) - Cut(n, k) = 0 <=> n <= k * CHUNK_SIZE
        BY <2>1, SMTT(30)
    <2> QED
        BY <2>2, <1>ChunkFacts, <1>EmptySequence

\* The name of a chunk is its own.
<1>ChunksDiffer.
    ASSUME NEW n \in Nat, NEW j \in Nat, NEW k \in Nat, j < k, k * CHUNK_SIZE < n
    PROVE  Chunk(n, j) # Chunk(n, k)
    <2> USE <1>ChunksDiffer
    <2>1. j * CHUNK_SIZE + CHUNK_SIZE <= k * CHUNK_SIZE
        BY UploadAssumption, SMTT(30)
    <2>2. j * CHUNK_SIZE < n /\ j * CHUNK_SIZE # k * CHUNK_SIZE
        BY UploadAssumption, <2>1, SMTT(30)
    <2>3. ASSUME NEW i \in Nat, i * CHUNK_SIZE < n
          PROVE  Chunk(n, i)[1] = i * CHUNK_SIZE + 1
        <3>1. Cut(n, i) = i * CHUNK_SIZE
            BY <2>3, <1>CutFacts
        <3>2. Cut(n, i) \in Nat /\ Cut(n, i + 1) \in Nat /\ Cut(n, i) < Cut(n, i + 1)
            BY <2>3, <1>CutOrder
        <3>3. 1 \in 1 .. Cut(n, i + 1) - Cut(n, i)
            BY <3>2, SMTT(30)
        <3>4. Chunk(n, i)[1] = Cut(n, i) + 1
            BY <3>3, <1>ChunkFacts
        <3> QED
            BY <3>1, <3>4
    <2>4. Chunk(n, j)[1] = j * CHUNK_SIZE + 1 /\ Chunk(n, k)[1] = k * CHUNK_SIZE + 1
        BY <2>2, <2>3
    <2> QED
        BY UploadAssumption, <2>2, <2>4, SMTT(30)

<1>Joined.
    ASSUME NEW s \in Seq(Nat), NEW t \in Seq(Nat)
    PROVE  /\ s \o t \in Seq(Nat)
           /\ Len(s \o t) = Len(s) + Len(t)
           /\ \A i \in 1 .. Len(s) + Len(t) :
                (s \o t)[i] = IF i <= Len(s) THEN s[i] ELSE t[i - Len(s)]
    BY <1>Joined, SMTT(30)

<1>JoinBetween.
    ASSUME NEW s, NEW t, NEW a \in Nat, NEW b \in Nat, a <= b,
           s = Content(a), Between(t, a, b)
    PROVE  s \o t = Content(b)
    <2> USE <1>JoinBetween
    <2> USE DEF Between
    <2>0. s \in Seq(Nat) /\ Len(s) = a /\ \A i \in 1 .. a : s[i] = i
        BY ContentFacts
    <2>1. ASSUME NEW i \in 1 .. b
          PROVE  (s \o t)[i] = i
        <3>1. (s \o t)[i] = IF i <= Len(s) THEN s[i] ELSE t[i - Len(s)]
            <4>1. i \in 1 .. Len(s) + Len(t)
                BY <2>0, SMTT(30)
            <4> QED
                BY <2>0, <4>1, <1>Joined
        <3>2. CASE i <= a
            <4>1. i \in 1 .. a
                BY <3>2, SMTT(30)
            <4> QED
                BY <2>0, <3>1, <3>2, <4>1
        <3>3. CASE ~(i <= a)
            <4>1. i - a \in 1 .. b - a /\ a + (i - a) = i
                BY <3>3, SMTT(30)
            <4> QED
                BY <2>0, <3>1, <3>3, <4>1
        <3> QED
            BY <3>2, <3>3
    <2>2. s \o t \in Seq(Nat) /\ Len(s \o t) = b
        <3>1. s \o t \in Seq(Nat) /\ Len(s \o t) = Len(s) + Len(t)
            BY <2>0, <1>Joined
        <3> QED
            BY <2>0, <3>1, SMTT(30)
    <2>3. \A i \in 1 .. Len(s \o t) : (s \o t)[i] = Content(b)[i]
        BY <2>1, <2>2, ContentFacts
    <2> QED
        BY <2>2, <2>3, ContentFacts, SameSequence

\* Reading one more chunk.
<1>ChunkJoins.
    ASSUME NEW n \in Nat, NEW k \in Nat
    PROVE  Content(Cut(n, k)) \o Chunk(n, k) = Content(Cut(n, k + 1))
    <2> USE <1>ChunkJoins
    <2> DEFINE a == Cut(n, k)
               b == Cut(n, k + 1)
               t == Chunk(n, k)
    <2>1. a \in Nat /\ b \in Nat /\ a <= b
        BY <1>CutOrder
    <2>2. Between(t, a, b)
        BY <1>ChunkFacts DEF Between
    <2> HIDE DEF a, b, t
    <2>4. Content(a) \o t = Content(b)
        BY <2>1, <2>2, <1>JoinBetween
    <2> QED
        BY <2>4 DEF a, b, t

<1>WithFacts.
    ASSUME NEW dir, IsFiles(dir), NEW name, NEW content \in Bytes
    PROVE  Written(With(dir, name, content), dir, name, content)
    BY <1>WithFacts DEF Written, With, IsFiles

<1>StoredKept.
    ASSUME NEW dir, NEW n, NEW m, Stored(dir, n, m), NEW name, NEW content, NEW new,
           Written(new, dir, name, content), \A i \in 0 .. m - 1 : Chunk(n, i) # name
    PROVE  Stored(new, n, m)
    BY <1>StoredKept DEF Stored, Holds, Written

<1>StoredMore.
    ASSUME NEW dir, NEW n, NEW m \in Nat, Stored(dir, n, m), NEW new,
           Written(new, dir, Chunk(n, m), Chunk(n, m))
    PROVE  Stored(new, n, m + 1)
    <2> USE <1>StoredMore
    <2>3. ASSUME NEW i \in 0 .. (m + 1) - 1
          PROVE  Holds(new, Chunk(n, i))
        <3>1. i = m \/ i \in 0 .. m - 1
            BY SMTT(30)
        <3> QED
            BY <3>1 DEF Stored, Holds, Written
    <2> QED
        BY <2>3 DEF Stored

<1>NothingStored.
    ASSUME NEW dir, NEW n
    PROVE  Stored(dir, n, 0)
    <2> USE <1>NothingStored
    <2>1. 0 .. 0 - 1 = {}
        BY SMTT(30)
    <2> QED
        BY <2>1 DEF Stored

<1>CidsFacts.
    ASSUME NEW n \in Nat, NEW m \in Nat
    PROVE  /\ FirstCids(n, m) \in Seq(Bytes \cup {Absent})
           /\ Len(FirstCids(n, m)) = TotalChunks(n)
           /\ DOMAIN FirstCids(n, m) = 1 .. TotalChunks(n)
           /\ \A i \in 1 .. TotalChunks(n) :
                FirstCids(n, m)[i] = IF i <= m THEN Chunk(n, i - 1) ELSE Absent
    <2> USE <1>CidsFacts
    <2>1. TotalChunks(n) \in Nat
        BY Division
    <2>2. ASSUME NEW i \in 1 .. TotalChunks(n)
          PROVE  (IF i <= m THEN Chunk(n, i - 1) ELSE Absent) \in Bytes \cup {Absent}
        <3>1. i - 1 \in Nat
            BY <2>1, SMTT(30)
        <3>2. Chunk(n, i - 1) \in Bytes
            BY <3>1, <1>ChunkFacts DEF Bytes
        <3> QED
            BY <3>2
    <2>3. FirstCids(n, m) \in [1 .. TotalChunks(n) -> Bytes \cup {Absent}]
        BY <2>2 DEF FirstCids
    <2>4. ASSUME NEW S, NEW k \in Nat, NEW f \in [1 .. k -> S]
          PROVE  f \in Seq(S) /\ Len(f) = k
        BY SMTT(30)
    <2>5. FirstCids(n, m) \in Seq(Bytes \cup {Absent}) /\ Len(FirstCids(n, m)) = TotalChunks(n)
        BY <2>1, <2>3, <2>4
    <2> QED
        BY <2>5 DEF FirstCids

\* Chunks past the last place change nothing.
<1>CidsFull.
    ASSUME NEW n \in Nat
    PROVE  FirstCids(n, TotalChunks(n) + 1) = FirstCids(n, TotalChunks(n))
    <2> USE <1>CidsFull
    <2>1. TotalChunks(n) \in Nat
        BY Division
    <2>2. ASSUME NEW i \in 1 .. TotalChunks(n)
          PROVE  i <= TotalChunks(n) + 1 /\ i <= TotalChunks(n)
        BY <2>1, SMTT(30)
    <2> QED
        BY <2>2 DEF FirstCids

\* One more chunk in its place.
<1>CidsMore.
    ASSUME NEW n \in Nat, NEW m \in Nat, m + 1 <= TotalChunks(n)
    PROVE  /\ FirstCids(n, m)[m + 1] = Absent
           /\ [FirstCids(n, m) EXCEPT ![m + 1] = Chunk(n, m)] = FirstCids(n, m + 1)
    <2> USE <1>CidsMore
    <2>1. TotalChunks(n) \in Nat
        BY Division
    <2>2. m + 1 \in 1 .. TotalChunks(n) /\ ~(m + 1 <= m) /\ (m + 1) - 1 = m /\ m + 1 <= m + 1
        BY <2>1, SMTT(30)
    <2>3. ASSUME NEW i \in 1 .. TotalChunks(n), i # m + 1
          PROVE  i <= m + 1 <=> i <= m
        BY <2>1, <2>3, SMTT(30)
    <2>4. FirstCids(n, m)[m + 1] = Absent
        BY <2>2, <1>CidsFacts
    <2>5. ASSUME NEW i \in 1 .. TotalChunks(n)
          PROVE  [FirstCids(n, m) EXCEPT ![m + 1] = Chunk(n, m)][i] = FirstCids(n, m + 1)[i]
        <3>1. m + 1 \in Nat
            BY SMTT(30)
        <3>2. FirstCids(n, m + 1)[i] = IF i <= m + 1 THEN Chunk(n, i - 1) ELSE Absent
            BY <3>1, <1>CidsFacts
        <3>3. FirstCids(n, m)[i] = IF i <= m THEN Chunk(n, i - 1) ELSE Absent
            BY <1>CidsFacts
        <3>4. DOMAIN FirstCids(n, m) = 1 .. TotalChunks(n)
            BY <1>CidsFacts
        <3>5. CASE i = m + 1
            BY <2>2, <3>2, <3>4, <3>5
        <3>6. CASE i # m + 1
            BY <2>3, <3>2, <3>3, <3>4, <3>6
        <3> QED
            BY <3>5, <3>6
    <2>6. [FirstCids(n, m) EXCEPT ![m + 1] = Chunk(n, m)] = FirstCids(n, m + 1)
        BY <2>5 DEF FirstCids
    <2> QED
        BY <2>4, <2>6

<1>PeerFact.
    ASSUME NEW c \in Client
    PROVE  PeerOf[c] \in Peer
    BY <1>PeerFact DEF Peer

<1>StepsFacts.
    ASSUME UploadFields, NEW c \in Client, NEW v, Steps(c, v)
    PROVE  /\ client' \in [Client -> ClientState]
           /\ client'[c] = v
           /\ \A d \in Client : d # c => client'[d] = client[d]
           /\ Overlapped' <=> Overlapped
    <2> USE <1>StepsFacts
    <2>1. client' \in [Client -> ClientState]
        BY DEF UploadFields, Steps
    <2>2. client'[c] = v /\ \A d \in Client : d # c => client'[d] = client[d]
        BY DEF UploadFields, Steps
    <2>3. \A d \in Client : client'[d].overlap = client[d].overlap
        BY <2>2 DEF Steps
    <2>4. Overlapped' <=> Overlapped
        BY <2>3 DEF Overlapped
    <2> QED
        BY <2>1, <2>2, <2>4

<1>AtWorkFacts.
    ASSUME UploadInv, NEW c \in Client, AtWork(client[c].pc)
    PROVE  /\ client[c] \in ClientState
           /\ client[c].length \in Length
           /\ client[c].length \in Nat
           /\ client[c].next \in Nat
           /\ <<PeerOf[c], client[c].length>> \in Peer \X Length
           /\ IsFiles(staged[<<PeerOf[c], client[c].length>>])
    <2> USE <1>AtWorkFacts
    <2>1. client[c] \in ClientState /\ client[c].length \in Length
        BY DEF UploadInv, UploadFields, UploadOK
    <2>2. <<PeerOf[c], client[c].length>> \in Peer \X Length
        BY <2>1, <1>PeerFact
    <2>3. IsFiles(staged[<<PeerOf[c], client[c].length>>])
        BY <2>2 DEF UploadInv, UploadFields
    <2>4. client[c].length \in Nat
        BY <2>1, UploadAssumption
    <2>5. client[c].next \in Nat
        BY <2>1 DEF ClientState
    <2> QED
        BY <2>1, <2>2, <2>3, <2>4, <2>5

\* The other uploads that have their record and directory to themselves do not
\* notice.
<1>ClientStep.
    ASSUME UploadInv, NEW c \in Client, AtWork(client[c].pc), NEW v, Steps(c, v), UploadFields',
           \A m \in Length : m # v.length => record'[m] = record[m],
           \A d \in Peer \X Length : d[2] # v.length => staged'[d] = staged[d],
           RecordOK(v.length, record'[v.length]), UploadOK(v), FilesOK',
           (AtWork(v.pc) /\ ~v.overlap) =>
               ClientOK(PeerOf[c], v, record'[v.length], staged'[<<PeerOf[c], v.length>>])
    PROVE  UploadInv'
    <2> USE <1>ClientStep
    <2>1. client'[c] = v /\ \A d \in Client : d # c => client'[d] = client[d]
        BY <1>StepsFacts DEF UploadInv
    <2>2. \A d \in Client : UploadOK(client[d])'
        BY <2>1 DEF UploadInv
    <2>3. \A n \in Length : RecordOK(n, record[n])'
        BY DEF UploadInv, RecordOK
    <2>4. Apart'
        <3> SUFFICES ASSUME NEW x \in Client, NEW y \in Client, x # y, AtWork(client'[x].pc),
                            AtWork(client'[y].pc), client'[x].length = client'[y].length
                     PROVE  client'[x].overlap
            BY DEF Apart, AtWork
        <3>1. AtWork(client[x].pc) /\ client'[x].length = client[x].length /\ client'[x].overlap = client[x].overlap
            BY <2>1 DEF Steps
        <3>2. AtWork(client[y].pc) /\ client'[y].length = client[y].length
            BY <2>1 DEF Steps
        <3> QED
            BY <3>1, <3>2 DEF UploadInv, Apart
    <2>5. ASSUME NEW d \in Client, AtWork(client'[d].pc), ~client'[d].overlap
          PROVE  ClientOK(PeerOf[d], client'[d], record'[client'[d].length],
                          staged'[<<PeerOf[d], client'[d].length>>])
        <3>1. CASE d = c
            BY <2>1, <2>5, <3>1
        <3>2. CASE d # c
            <4>1. client'[d] = client[d]
                BY <2>1, <3>2
            <4>2. client[d].length # v.length
                BY <2>5, <3>2, <4>1 DEF UploadInv, Apart, Steps
            <4>3. client[d].length \in Length /\ <<PeerOf[d], client[d].length>> \in Peer \X Length
                BY <2>5, <4>1, <1>AtWorkFacts
            <4>4. record'[client[d].length] = record[client[d].length]
                BY <4>2, <4>3
            <4>5. staged'[<<PeerOf[d], client[d].length>>] = staged[<<PeerOf[d], client[d].length>>]
                <5>1. <<PeerOf[d], client[d].length>>[2] = client[d].length
                    OBVIOUS
                <5> QED
                    BY <4>2, <4>3, <5>1
            <4>6. ClientOK(PeerOf[d], client[d], record[client[d].length],
                           staged[<<PeerOf[d], client[d].length>>])
                BY <2>5, <4>1 DEF UploadInv
            <4> QED
                BY <4>1, <4>4, <4>5, <4>6
        <3> QED
            BY <3>1, <3>2
    <2>6. \A d \in Client : (AtWork(client[d].pc) /\ ~client[d].overlap)' =>
            ClientOK(PeerOf[d], client[d], record[client[d].length],
                     staged[<<PeerOf[d], client[d].length>>])'
        BY <2>5 DEF AtWork
    <2> QED
        BY <2>2, <2>3, <2>4, <2>6 DEF UploadInv

\* A step that leaves records and directories alone.
<1>QuietStep.
    ASSUME UploadInv, NEW c \in Client, AtWork(client[c].pc), NEW v, Steps(c, v),
           record' = record, staged' = staged, uploadFaults' \in 0 .. MaxUploadFaults, UploadOK(v),
           (AtWork(v.pc) /\ ~v.overlap) =>
               ClientOK(PeerOf[c], v, record[v.length], staged[<<PeerOf[c], v.length>>])
    PROVE  UploadInv'
    <2> USE <1>QuietStep
    <2>1. client' \in [Client -> ClientState] /\ (Overlapped' <=> Overlapped)
        BY <1>StepsFacts DEF UploadInv
    <2>2. UploadFields'
        BY <2>1 DEF UploadInv, UploadFields, IsFiles
    <2>3. FilesOK'
        BY <2>1 DEF UploadInv, FilesOK
    <2>4. v.length \in Length
        BY <1>AtWorkFacts DEF Steps
    <2>5. RecordOK(v.length, record'[v.length])
        BY <2>4 DEF UploadInv
    <2>6. (AtWork(v.pc) /\ ~v.overlap) =>
                   ClientOK(PeerOf[c], v, record'[v.length], staged'[<<PeerOf[c], v.length>>])
        OBVIOUS
    <2> QED
        BY <2>2, <2>3, <2>5, <2>6, <1>ClientStep

\* A step that writes a file of its content.
<1>WritingStep.
    ASSUME UploadInv, NEW c \in Client, AtWork(client[c].pc), NEW v, Steps(c, v),
           NEW q \in Peer, NEW name, NEW content \in Bytes,
           staged' = [staged EXCEPT ![<<q, v.length>>] = With(@, name, content)],
           record' = record, uploadFaults' = uploadFaults, UploadOK(v),
           ~v.overlap => content \in {<< >>, name},
           \A new :
                (Written(new, staged[<<q, v.length>>], name, content) /\ AtWork(v.pc) /\ ~v.overlap) =>
                    /\ q = PeerOf[c]
                    /\ ClientOK(PeerOf[c], v, record[v.length], new)
    PROVE  UploadInv'
    <2> USE <1>WritingStep
    <2> DEFINE at == <<q, v.length>>
               new == With(staged[at], name, content)
    <2>1. client' \in [Client -> ClientState] /\ (Overlapped' <=> Overlapped) /\ client'[c] = v
        BY <1>StepsFacts DEF UploadInv
    <2>2. v.length \in Length
        BY <1>AtWorkFacts DEF Steps
    <2>3. at \in Peer \X Length
        BY <2>2
    <2>4. IsFiles(staged[at])
        BY <2>3 DEF UploadInv, UploadFields
    <2>5. Written(new, staged[at], name, content)
        BY <2>4, <1>WithFacts
    <2>6. staged' = [staged EXCEPT ![at] = new]
        OBVIOUS
    <2> HIDE DEF new
    <2>7. staged'[at] = new /\ (\A d \in Peer \X Length : d # at => staged'[d] = staged[d])
            /\ staged' = [d \in Peer \X Length |-> staged'[d]]
        BY <2>3, <2>6 DEF UploadInv, UploadFields
    <2>8. \A d \in Peer \X Length : IsFiles(staged'[d])
        BY <2>5, <2>7 DEF UploadInv, UploadFields, Written
    <2>9. UploadFields'
        BY <2>1, <2>7, <2>8 DEF UploadInv, UploadFields, IsFiles
    <2>10. \A d \in Peer \X Length : d[2] # v.length => staged'[d] = staged[d]
        <3>1. at[2] = v.length
            OBVIOUS
        <3> QED
            BY <2>7, <3>1
    <2>11. FilesOK'
        <3> SUFFICES ASSUME ~Overlapped', NEW d \in Peer \X Length, NEW x \in DOMAIN staged'[d]
                     PROVE  staged'[d][x] \in {<< >>, x}
            BY DEF FilesOK
        <3>1. ~Overlapped
            BY <2>1
        <3>2. ~v.overlap
            BY <2>1 DEF Overlapped
        <3>3. CASE d = at
            <4>1. new[x] \in {<< >>, x} \/ (x \in DOMAIN staged[at] /\ new[x] = staged[at][x])
                BY <2>5, <2>7, <3>2, <3>3 DEF Written
            <4> QED
                BY <2>3, <2>7, <3>1, <3>3, <4>1 DEF UploadInv, FilesOK
        <3>4. CASE d # at
            BY <2>7, <3>1, <3>4 DEF UploadInv, FilesOK
        <3> QED
            BY <3>3, <3>4
    <2>12. RecordOK(v.length, record'[v.length])
        BY <2>2 DEF UploadInv
    <2>13. (AtWork(v.pc) /\ ~v.overlap) =>
                   ClientOK(PeerOf[c], v, record'[v.length], staged'[<<PeerOf[c], v.length>>])
        BY <2>5, <2>7
    <2> HIDE DEF at
    <2> QED
        BY <2>9, <2>10, <2>11, <2>12, <2>13, <1>ClientStep

<1>ChunkCase.
    ASSUME NEW n \in Nat, NEW k \in Nat
    PROVE  \/ k * CHUNK_SIZE < n /\ Chunk(n, k) # << >> /\ ~(n <= k * CHUNK_SIZE)
           \/ n <= k * CHUNK_SIZE /\ Chunk(n, k) = << >> /\ ~(k * CHUNK_SIZE < n)
    <2> USE <1>ChunkCase
    <2>1. k * CHUNK_SIZE \in Nat
        BY UploadAssumption, SMTT(30)
    <2>2. (k * CHUNK_SIZE < n /\ ~(n <= k * CHUNK_SIZE)) \/ (n <= k * CHUNK_SIZE /\ ~(k * CHUNK_SIZE < n))
        BY <2>1, SMTT(30)
    <2> QED
        BY <2>2, <1>ChunkEmpty

<1>PcFacts.
    ASSUME NEW u \in ClientState, NEW pc \in ClientPc
    PROVE  /\ [u EXCEPT !.pc = pc] \in ClientState
           /\ [u EXCEPT !.pc = pc].pc = pc
           /\ Alike(u, [u EXCEPT !.pc = pc])
    BY <1>PcFacts DEF ClientState, Alike

<1>GoesStep.
    ASSUME UploadFields, NEW c \in Client, NEW pc \in ClientPc, Goes(c, pc)
    PROVE  \E v : Steps(c, v) /\ v.pc = pc /\ Alike(client[c], v)
    <2> USE <1>GoesStep
    <2> DEFINE v == [client[c] EXCEPT !.pc = pc]
    <2>1. client' = [client EXCEPT ![c] = v]
        BY DEF Goes
    <2>2. client[c] \in ClientState
        BY DEF UploadFields
    <2>3. v \in ClientState /\ v.pc = pc /\ Alike(client[c], v)
        BY <2>2, <1>PcFacts
    <2> HIDE DEF v
    <2> QED
        BY <2>1, <2>3 DEF Steps, Alike

<1>SendChunkInv.
    ASSUME UploadInv, NEW c \in Client, SendChunk(c)
    PROVE  UploadInv'
    <2> USE <1>SendChunkInv
    <2> DEFINE u == client[c]
               pc == IF CurrentChunk(c) = << >> THEN "done" ELSE "chunkInfo"
    <2>1. u.pc = "send" /\ AtWork(u.pc) /\ Goes(c, pc)
        BY DEF SendChunk, AtWork
    <2>2. pc \in ClientPc
        BY DEF ClientPc
    <2>3. PICK v : Steps(c, v) /\ v.pc = pc /\ Alike(u, v)
        BY <2>1, <2>2, <1>GoesStep DEF UploadInv
    <2>4. \/ u.next * CHUNK_SIZE < u.length /\ pc = "chunkInfo"
          \/ u.length <= u.next * CHUNK_SIZE /\ pc = "done"
        BY <2>1, <1>AtWorkFacts, <1>ChunkCase DEF CurrentChunk
    <2>5. UploadOK(u) /\ (~u.overlap => ClientOK(PeerOf[c], u, record[u.length], staged[<<PeerOf[c], u.length>>]))
        BY <2>1 DEF UploadInv
    <2> HIDE DEF u, pc
    <2>6. UploadOK(v)
        BY <2>1, <2>3, <2>4, <2>5 DEF UploadOK, Alike, AtWork
    <2>7. ~v.overlap => ClientOK(PeerOf[c], v, record[v.length], staged[<<PeerOf[c], v.length>>])
        BY <2>1, <2>3, <2>4, <2>5 DEF ClientOK, Sent, Alike
    <2>8. record' = record /\ staged' = staged /\ uploadFaults' \in 0 .. MaxUploadFaults
        BY DEF SendChunk, UploadInv, UploadFields
    <2> QED
        BY <2>1, <2>3, <2>6, <2>7, <2>8, <1>QuietStep DEF u

<1>AnswerFacts.
    ASSUME NEW u \in ClientState, NEW pc \in ClientPc
    PROVE  LET v == [u EXCEPT !.pc = pc, !.next = u.next + 1] IN
           /\ v \in ClientState /\ v.pc = pc /\ v.next = u.next + 1
           /\ v.length = u.length /\ v.info = u.info /\ v.read = u.read
           /\ v.gone = u.gone /\ v.fault = u.fault /\ v.overlap = u.overlap
    <2> USE <1>AnswerFacts
    <2>1. u.next + 1 \in Nat
        BY SMTT(30) DEF ClientState
    <2> QED
        BY <2>1 DEF ClientState

<1>AnswerInv.
    ASSUME UploadInv, NEW c \in Client, Answer(c)
    PROVE  UploadInv'
    <2> USE <1>AnswerInv
    <2> DEFINE u == client[c]
               pc == IF u.gone THEN "failed"
                     ELSE IF u.next + 1 <= TotalChunks(u.length) THEN "send" ELSE "ok"
               v == [u EXCEPT !.pc = pc, !.next = u.next + 1]
    <2>1. u.pc = "answer" /\ AtWork(u.pc)
        BY DEF Answer, AtWork
    <2>2. client' = [client EXCEPT ![c] = v]
        BY DEF Answer
    <2>3. pc \in ClientPc
        BY DEF ClientPc
    <2>4. u \in ClientState /\ u.length \in Nat /\ u.next \in Nat
        BY <2>1, <1>AtWorkFacts
    <2>5. UploadOK(u) /\ (~u.overlap => ClientOK(PeerOf[c], u, record[u.length], staged[<<PeerOf[c], u.length>>]))
        BY <2>1 DEF UploadInv
    <2>6. pc = "failed" => u.gone
        OBVIOUS
    <2>7. pc = "send" => u.next + 1 <= TotalChunks(u.length)
        OBVIOUS
    <2>8. pc \in {"failed", "send", "ok"}
        OBVIOUS
    <2> HIDE DEF u, pc
    <2>9. /\ v \in ClientState /\ v.pc = pc /\ v.next = u.next + 1
          /\ v.length = u.length /\ v.info = u.info /\ v.read = u.read
          /\ v.gone = u.gone /\ v.fault = u.fault /\ v.overlap = u.overlap
        BY <2>3, <2>4, <1>AnswerFacts
    <2> HIDE DEF v
    <2>10. Steps(c, v)
        BY <2>2, <2>9 DEF Steps, u
    <2>11. u.next + 1 <= TotalChunks(u.length) + 1 /\ ~(TotalChunks(u.length) + 1 <= TotalChunks(u.length))
        <3>1. u.next <= TotalChunks(u.length)
            BY <2>1, <2>5 DEF UploadOK
        <3>2. TotalChunks(u.length) \in Nat
            BY <2>4, Division
        <3> QED
            BY <2>4, <3>1, <3>2, SMTT(30)
    <2>12. UploadOK(v)
        BY <2>1, <2>5, <2>6, <2>7, <2>8, <2>9, <2>11 DEF UploadOK, AtWork
    <2>13. ASSUME AtWork(v.pc), ~v.overlap
           PROVE  ClientOK(PeerOf[c], v, record[v.length], staged[<<PeerOf[c], v.length>>])
        <3>1. v.pc = "send" /\ ~u.overlap
            BY <2>8, <2>9, <2>13 DEF AtWork
        <3>2. ClientOK(PeerOf[c], u, record[u.length], staged[<<PeerOf[c], u.length>>])
            BY <2>5, <3>1
        <3>3. u.next + 1 <= TotalChunks(u.length)
            BY <2>7, <2>9, <3>1
        <3>4. Stored(staged[<<PeerOf[c], u.length>>], u.length, u.next + 1)
            BY <2>1, <2>11, <3>2, <3>3 DEF ClientOK
        <3>5. Sent(v) = u.next + 1 /\ Sent(u) = u.next + 1
            BY <2>1, <2>9, <3>1 DEF Sent
        <3> QED
            BY <2>9, <3>1, <3>2, <3>4, <3>5 DEF ClientOK
    <2>14. record' = record /\ staged' = staged /\ uploadFaults' \in 0 .. MaxUploadFaults
        BY DEF Answer, UploadInv, UploadFields
    <2> QED
        BY <2>1, <2>10, <2>12, <2>13, <2>14, <1>QuietStep DEF u

<1>UploadCreateInv.
    ASSUME UploadInv, NEW c \in Client, UploadCreate(c)
    PROVE  UploadInv'
    <2> USE <1>UploadCreateInv
    <2> DEFINE u == client[c]
               n == u.length
               dir == staged[<<PeerOf[c], n>>]
    <2>1. u.pc = "create" /\ AtWork(u.pc) /\ Goes(c, "write") /\ record' = record /\ uploadFaults' = uploadFaults
            /\ staged' = [staged EXCEPT ![<<PeerOf[c], n>>] = With(@, Chunk(n, u.next), << >>)]
        BY DEF UploadCreate, CreateFile, WriteFile, AtWork, CurrentChunk
    <2>2. PICK v : Steps(c, v) /\ v.pc = "write" /\ Alike(u, v)
        BY <2>1, <1>GoesStep DEF UploadInv, ClientPc
    <2>3. n \in Nat /\ u.next \in Nat
        BY <2>1, <1>AtWorkFacts
    <2>4. UploadOK(u) /\ (~u.overlap => ClientOK(PeerOf[c], u, record[n], dir))
        BY <2>1 DEF UploadInv
    <2> HIDE DEF u, n, dir
    <2>5. u.next * CHUNK_SIZE < n
        BY <2>1, <2>4 DEF UploadOK, n
    <2>6. UploadOK(v)
        BY <2>1, <2>2, <2>4 DEF UploadOK, Alike, AtWork
    <2>7. \A i \in 0 .. u.next - 1 : Chunk(n, i) # Chunk(n, u.next)
        <3>1. \A i \in 0 .. u.next - 1 : i \in Nat /\ i < u.next
            BY <2>3, SMTT(30)
        <3> QED
            BY <2>3, <2>5, <3>1, <1>ChunksDiffer
    <2>8. ASSUME NEW new, Written(new, dir, Chunk(n, u.next), << >>), ~v.overlap
          PROVE  ClientOK(PeerOf[c], v, record[n], new)
        <3>1. ClientOK(PeerOf[c], u, record[n], dir)
            BY <2>2, <2>4, <2>8 DEF Alike
        <3>2. Stored(new, n, u.next)
            <4>1. Stored(dir, n, u.next)
                BY <2>1, <3>1 DEF ClientOK, n
            <4> QED
                BY <2>7, <2>8, <4>1, <1>StoredKept
        <3> QED
            BY <2>1, <2>2, <3>1, <3>2 DEF ClientOK, Sent, Alike, n
    <2>9. << >> \in Bytes
        BY SMTT(30) DEF Bytes
    <2>10. v.length = n /\ PeerOf[c] \in Peer
        BY <2>2, <1>PeerFact DEF Alike, n
    <2> QED
        BY <2>1, <2>2, <2>6, <2>8, <2>9, <2>10, <1>WritingStep DEF u, dir

<1>UploadWriteInv.
    ASSUME UploadInv, NEW c \in Client, UploadWrite(c)
    PROVE  UploadInv'
    <2> USE <1>UploadWriteInv
    <2> DEFINE u == client[c]
               n == u.length
               dir == staged[<<PeerOf[c], n>>]
    <2>1. u.pc = "write" /\ AtWork(u.pc) /\ Goes(c, "answer") /\ record' = record /\ uploadFaults' = uploadFaults
            /\ staged' = [staged EXCEPT ![<<PeerOf[c], n>>] = With(@, Chunk(n, u.next), Chunk(n, u.next))]
        BY DEF UploadWrite, WriteFile, AtWork, CurrentChunk
    <2>2. PICK v : Steps(c, v) /\ v.pc = "answer" /\ Alike(u, v)
        BY <2>1, <1>GoesStep DEF UploadInv, ClientPc
    <2>3. n \in Nat /\ u.next \in Nat
        BY <2>1, <1>AtWorkFacts
    <2>4. UploadOK(u) /\ (~u.overlap => ClientOK(PeerOf[c], u, record[n], dir))
        BY <2>1 DEF UploadInv
    <2> HIDE DEF u, n, dir
    <2>5. u.next * CHUNK_SIZE < n
        BY <2>1, <2>4 DEF UploadOK, n
    <2>6. UploadOK(v)
        BY <2>1, <2>2, <2>4 DEF UploadOK, Alike, AtWork
    <2>8. ASSUME NEW new, Written(new, dir, Chunk(n, u.next), Chunk(n, u.next)), ~v.overlap
          PROVE  ClientOK(PeerOf[c], v, record[n], new)
        <3>1. ClientOK(PeerOf[c], u, record[n], dir)
            BY <2>2, <2>4, <2>8 DEF Alike
        <3>2. Stored(new, n, u.next + 1)
            <4>1. Stored(dir, n, u.next)
                BY <2>1, <3>1 DEF ClientOK, n
            <4> QED
                BY <2>3, <2>8, <4>1, <1>StoredMore
        <3> QED
            BY <2>1, <2>2, <2>5, <3>1, <3>2 DEF ClientOK, Sent, Alike, n
    <2>9. Chunk(n, u.next) \in Bytes
        BY <2>3, <1>ChunkFacts DEF Bytes
    <2>10. v.length = n /\ PeerOf[c] \in Peer
        BY <2>2, <1>PeerFact DEF Alike, n
    <2> QED
        BY <2>1, <2>2, <2>6, <2>8, <2>9, <2>10, <1>WritingStep DEF u, dir

<1>NewCids.
    ASSUME NEW n \in Nat
    PROVE  [i \in 1 .. TotalChunks(n) |-> IF i = 1 THEN Chunk(n, 0) ELSE Absent] = FirstCids(n, 1)
    <2> USE <1>NewCids
    <2>1. TotalChunks(n) \in Nat
        BY Division
    <2>2. ASSUME NEW i \in 1 .. TotalChunks(n)
          PROVE  (i <= 1 <=> i = 1) /\ (i = 1 => i - 1 = 0)
        BY <2>1, SMTT(30)
    <2> QED
        BY <2>2 DEF FirstCids

<1>InfoMore.
    ASSUME NEW info \in ReceivedFileInfo, NEW i \in 1 .. Len(info.chunkCids), NEW x \in Bytes,
           NEW new, HasChunk(new, info, i, x)
    PROVE  /\ new \in ReceivedFileInfo
           /\ new = [path |-> info.path, chunkCids |-> [info.chunkCids EXCEPT ![i] = x]]
           /\ Len(new.chunkCids) = Len(info.chunkCids)
    <2> USE <1>InfoMore
    <2>1. info.path \in Peer /\ info.chunkCids \in Seq(Bytes \cup {Absent})
        BY DEF ReceivedFileInfo
    <2>2. ASSUME NEW S, NEW s \in Seq(S), NEW y \in S, i \in 1 .. Len(s)
          PROVE  [s EXCEPT ![i] = y] \in Seq(S) /\ Len([s EXCEPT ![i] = y]) = Len(s)
        BY <2>2, SMTT(30)
    <2>3. [info.chunkCids EXCEPT ![i] = x] \in Seq(Bytes \cup {Absent})
            /\ Len([info.chunkCids EXCEPT ![i] = x]) = Len(info.chunkCids)
        <3>1. x \in Bytes \cup {Absent}
            OBVIOUS
        <3> QED
            BY <2>1, <2>2, <3>1
    <2>4. new = [path |-> info.path, chunkCids |-> [info.chunkCids EXCEPT ![i] = x]]
        BY SMTT(30) DEF ReceivedFileInfo, HasChunk
    <2>5. new.chunkCids = [info.chunkCids EXCEPT ![i] = x]
        BY <2>4
    <2> QED
        BY <2>1, <2>3, <2>4, <2>5 DEF ReceivedFileInfo

<1>InfoTyped.
    ASSUME NEW info \in ReceivedFileInfo, NEW i \in 1 .. Len(info.chunkCids), NEW x \in Bytes,
           NEW new, HasChunk(new, info, i, x)
    PROVE  SameSize(new, info)
    BY <1>InfoTyped, <1>InfoMore DEF SameSize

<1>InfoFields.
    ASSUME NEW p \in Peer, NEW n \in Nat, NEW m \in Nat, NEW info,
           IsInfo(info, p, FirstCids(n, m))
    PROVE  InfoParts(info, p, FirstCids(n, m))
    <2> USE <1>InfoFields
    <2>1. FirstCids(n, m) \in Seq(Bytes \cup {Absent})
        BY <1>CidsFacts
    <2> QED
        BY <2>1, AbsentUpload, SMTT(30) DEF ReceivedFileInfo, IsInfo, InfoParts

\* What handleChunkInfo makes of the record of the content.
<1>RecordMore.
    ASSUME UploadInv, NEW c \in Client, handleChunkInfo(c)
    PROVE  LET n == client[c].length
               info == record'[n]
           IN
           /\ record' \in [Length -> ReceivedFileInfo \cup {Absent}]
           /\ \A m \in Length : m # n => record'[m] = record[m]
           /\ RecordOK(n, info)
           /\ ~client[c].overlap => info = [path |-> PeerOf[c], chunkCids |-> FirstCids(n, client[c].next + 1)]
    <2> USE <1>RecordMore
    <2> DEFINE u == client[c]
               n == u.length
               old == record[n]
               p == PeerOf[c]
               info == IF u.next + 1 = 1 THEN NewInfo(c)
                       ELSE IF old # Absent /\ old.chunkCids[u.next + 1] = Absent
                            THEN [old EXCEPT !.chunkCids[u.next + 1] = CurrentChunk(c)] ELSE old
    <2>1. u.pc = "chunkInfo" /\ AtWork(u.pc) /\ record' = [record EXCEPT ![n] = info]
        BY DEF handleChunkInfo, AtWork
    <2>2. n \in Nat /\ n \in Length /\ u.next \in Nat /\ u.next + 1 \in Nat /\ p \in Peer
        <3>1. n \in Nat /\ n \in Length /\ u.next \in Nat /\ p \in Peer
            BY <2>1, <1>AtWorkFacts, <1>PeerFact
        <3> QED
            BY <3>1, SMTT(30)
    <2>3. u.next * CHUNK_SIZE < n
        BY <2>1 DEF UploadInv, UploadOK
    <2>4. u.next + 1 <= TotalChunks(n)
        BY <2>2, <2>3, <1>InRecord
    <2>5. old \in ReceivedFileInfo \cup {Absent} /\ RecordOK(n, old)
        BY <2>2 DEF UploadInv, UploadFields
    <2>6. CurrentChunk(c) = Chunk(n, u.next) /\ Chunk(n, u.next) \in Bytes
        BY <2>2, <1>ChunkFacts DEF CurrentChunk, Bytes
    <2>7. n # 0
        <3>1. u.next * CHUNK_SIZE \in Nat
            BY <2>2, UploadAssumption, SMTT(30)
        <3> QED
            BY <2>2, <2>3, <3>1, SMTT(30)
    <2>8. ~u.overlap => (u.next > 0 => old = [path |-> p, chunkCids |-> FirstCids(n, u.next)])
        <3>1. ~u.overlap => ClientOK(p, u, old, staged[<<p, n>>])
            BY <2>1 DEF UploadInv
        <3>2. Sent(u) = u.next
            BY <2>1 DEF Sent
        <3> QED
            BY <3>1, <3>2 DEF ClientOK
    <2>9. CASE u.next = 0
        <3>1. u.next + 1 = 1 /\ 1 \in Nat
            BY <2>9, SMTT(30)
        <3>2. info = [path |-> p, chunkCids |-> FirstCids(n, 1)]
            BY <2>2, <2>6, <2>9, <3>1, <1>NewCids DEF NewInfo
        <3> HIDE DEF info, n, p
        <3>3. info \in ReceivedFileInfo /\ info.chunkCids = FirstCids(n, 1)
            <4>1. IsInfo(info, p, FirstCids(n, 1))
                BY <3>2 DEF IsInfo
            <4>2. InfoParts(info, p, FirstCids(n, 1))
                BY <2>2, <3>1, <4>1, <1>InfoFields
            <4> QED
                BY <4>2 DEF InfoParts
        <3>4. RecordOK(n, info)
            BY <2>2, <2>7, <3>1, <3>3, <1>CidsFacts DEF RecordOK
        <3>5. record'[n] = info /\ record' \in [Length -> ReceivedFileInfo \cup {Absent}]
                /\ \A m \in Length : m # n => record'[m] = record[m]
            BY <2>1, <2>2, <3>3 DEF UploadInv, UploadFields
        <3> QED
            BY <3>1, <3>2, <3>4, <3>5 DEF n, p
    <2>10. CASE u.next # 0
        <3>1. u.next + 1 # 1 /\ u.next > 0
            BY <2>2, <2>10, SMTT(30)
        <3>2. info \in ReceivedFileInfo \cup {Absent} /\ RecordOK(n, info)
            <4>1. CASE old # Absent /\ old.chunkCids[u.next + 1] = Absent
                <5>1. old \in ReceivedFileInfo
                    BY <2>5, <4>1
                <5>2. HasChunk(info, old, u.next + 1, Chunk(n, u.next))
                    BY <2>6, <3>1, <4>1 DEF HasChunk
                <5> HIDE DEF info, old, u, n
                <5>3. u.next + 1 \in 1 .. Len(old.chunkCids)
                    <6>1. Len(old.chunkCids) = TotalChunks(n) /\ TotalChunks(n) \in Nat
                        BY <2>2, <2>5, <4>1, Division DEF RecordOK
                    <6> QED
                        BY <2>2, <2>4, <6>1, SMTT(30)
                <5>4. info \in ReceivedFileInfo /\ Len(info.chunkCids) = Len(old.chunkCids)
                    <6>1. SameSize(info, old)
                        BY <2>6, <5>1, <5>2, <5>3, <1>InfoTyped
                    <6> QED
                        BY <6>1 DEF SameSize
                <5> QED
                    BY <2>5, <4>1, <5>4 DEF RecordOK
            <4>2. CASE ~(old # Absent /\ old.chunkCids[u.next + 1] = Absent)
                BY <2>5, <3>1, <4>2
            <4> QED
                BY <4>1, <4>2
        <3>3. ASSUME ~u.overlap
              PROVE  info = [path |-> p, chunkCids |-> FirstCids(n, u.next + 1)]
            <4>1. old = [path |-> p, chunkCids |-> FirstCids(n, u.next)]
                BY <2>8, <3>1, <3>3
            <4> HIDE DEF old, u, n, p
            <4>2. old \in ReceivedFileInfo /\ old.path = p /\ old.chunkCids = FirstCids(n, u.next) /\ old # Absent
                <5>1. IsInfo(old, p, FirstCids(n, u.next))
                    BY <4>1 DEF IsInfo
                <5>2. InfoParts(old, p, FirstCids(n, u.next))
                    BY <2>2, <5>1, <1>InfoFields
                <5> QED
                    BY <5>2 DEF InfoParts
            <4>7. FirstCids(n, u.next)[u.next + 1] = Absent
                    /\ [FirstCids(n, u.next) EXCEPT ![u.next + 1] = Chunk(n, u.next)] = FirstCids(n, u.next + 1)
                BY <2>2, <2>4, <1>CidsMore
            <4>3. old.chunkCids[u.next + 1] = Absent
                    /\ [old.chunkCids EXCEPT ![u.next + 1] = Chunk(n, u.next)] = FirstCids(n, u.next + 1)
                BY <4>2, <4>7
            <4>4. HasChunk(info, old, u.next + 1, Chunk(n, u.next))
                BY <2>6, <3>1, <4>2, <4>3 DEF HasChunk
            <4> HIDE DEF info
            <4>5. u.next + 1 \in 1 .. Len(old.chunkCids)
                <5>1. Len(old.chunkCids) = TotalChunks(n) /\ TotalChunks(n) \in Nat
                    BY <2>2, <4>2, <1>CidsFacts, Division
                <5> QED
                    BY <2>2, <2>4, <5>1, SMTT(30)
            <4>6. info = [path |-> old.path, chunkCids |-> [old.chunkCids EXCEPT ![u.next + 1] = Chunk(n, u.next)]]
                BY <2>6, <4>2, <4>4, <4>5, <1>InfoMore
            <4> QED
                BY <4>2, <4>3, <4>6
        <3> HIDE DEF info, n
        <3>5. record'[n] = info /\ record' \in [Length -> ReceivedFileInfo \cup {Absent}]
                /\ \A m \in Length : m # n => record'[m] = record[m]
            BY <2>1, <2>2, <3>2 DEF UploadInv, UploadFields
        <3> QED
            BY <3>2, <3>3, <3>5 DEF n
    <2> QED
        BY <2>9, <2>10

<1>HandleChunkInfoInv.
    ASSUME UploadInv, NEW c \in Client, handleChunkInfo(c)
    PROVE  UploadInv'
    <2> USE <1>HandleChunkInfoInv
    <2> DEFINE u == client[c]
               n == u.length
               dir == staged[<<PeerOf[c], n>>]
    <2>1. u.pc = "chunkInfo" /\ AtWork(u.pc) /\ Goes(c, "create") /\ staged' = staged /\ uploadFaults' = uploadFaults
        BY DEF handleChunkInfo, AtWork
    <2>2. PICK v : Steps(c, v) /\ v.pc = "create" /\ Alike(u, v)
        BY <2>1, <1>GoesStep DEF UploadInv, ClientPc
    <2>3. /\ record' \in [Length -> ReceivedFileInfo \cup {Absent}]
          /\ \A m \in Length : m # n => record'[m] = record[m]
          /\ RecordOK(n, record'[n])
          /\ ~u.overlap => record'[n] = [path |-> PeerOf[c], chunkCids |-> FirstCids(n, u.next + 1)]
        BY <1>RecordMore
    <2>4. UploadOK(u) /\ (~u.overlap => ClientOK(PeerOf[c], u, record[n], dir))
        BY <2>1 DEF UploadInv
    <2>5. client' \in [Client -> ClientState] /\ (Overlapped' <=> Overlapped)
        BY <2>2, <1>StepsFacts DEF UploadInv
    <2>6. UploadFields'
        BY <2>1, <2>3, <2>5 DEF UploadInv, UploadFields, IsFiles
    <2>7. FilesOK'
        BY <2>1, <2>5 DEF UploadInv, FilesOK
    <2> HIDE DEF u, n, dir
    <2>8. UploadOK(v)
        BY <2>1, <2>2, <2>4 DEF UploadOK, Alike, AtWork
    <2>9. v.length = n /\ v.overlap = u.overlap
        BY <2>2 DEF Alike, n
    <2>10. ASSUME ~v.overlap
           PROVE  ClientOK(PeerOf[c], v, record'[n], dir)
        <3>1. ClientOK(PeerOf[c], u, record[n], dir)
            BY <2>4, <2>9, <2>10
        <3>2. Sent(v) = u.next + 1
            BY <2>2 DEF Sent, Alike
        <3> QED
            BY <2>1, <2>2, <2>3, <2>9, <2>10, <3>1, <3>2 DEF ClientOK, Alike, n
    <2>11. (AtWork(v.pc) /\ ~v.overlap) =>
                   ClientOK(PeerOf[c], v, record'[v.length], staged'[<<PeerOf[c], v.length>>])
        BY <2>1, <2>9, <2>10 DEF dir
    <2>12. \A d \in Peer \X Length : d[2] # v.length => staged'[d] = staged[d]
        BY <2>1
    <2> QED
        BY <2>1, <2>2, <2>3, <2>6, <2>7, <2>8, <2>9, <2>11, <2>12, <1>ClientStep DEF u

<1>DoneFacts.
    ASSUME NEW u \in ClientState, NEW pc \in ClientPc, NEW info \in ReceivedFileInfo \cup {Absent}
    PROVE  LooksUp(u, [u EXCEPT !.info = info, !.pc = pc], info, pc)
    BY <1>DoneFacts DEF ClientState, LooksUp

\* An upload that has sent nothing has nothing to send.
<1>NothingSent.
    ASSUME NEW n \in Nat, n <= 0 * CHUNK_SIZE
    PROVE  n = 0 /\ n % CHUNK_SIZE = 0
    BY <1>NothingSent, UploadAssumption, SMTT(30)

<1>NothingRead.
    ASSUME NEW n \in Nat
    PROVE  Content(Cut(n, 0)) = << >>
    <2> USE <1>NothingRead
    <2>1. Content(0) \in Seq(Nat) /\ Len(Content(0)) = 0
        BY ContentFacts
    <2> QED
        BY <2>1, <1>FirstCut, <1>EmptySequence

<1>BeginsAssembly.
    ASSUME NEW u \in ClientState, u.length \in Nat, u.next > 0, u.read = << >>, NEW p \in Peer,
           IsInfo(u.info, p, FirstCids(u.length, u.next))
    PROVE  Assembles(p, u)
    <2> USE <1>BeginsAssembly
    <2>1. u.next \in Nat /\ TotalChunks(u.length) \in Nat
        BY Division DEF ClientState
    <2>2. InfoParts(u.info, p, FirstCids(u.length, u.next))
        BY <2>1, <1>InfoFields
    <2>3. u.info.path = p /\ u.info.chunkCids = FirstCids(u.length, u.next)
        BY <2>2 DEF InfoParts
    <2>4. Len(u.info.chunkCids) = TotalChunks(u.length)
        BY <2>1, <2>3, <1>CidsFacts
    <2>5. ReadBack(u) = 0 /\ 0 \in 0 .. u.next
        BY <2>1, <2>4, SMTT(30) DEF ReadBack
    <2>6. \A i \in 1 .. Len(u.info.chunkCids) : i + 0 = i
        BY <2>1, <2>4, SMTT(30)
    <2>7. u.read = Content(Cut(u.length, 0))
        BY <1>NothingRead
    <2> QED
        BY <2>3, <2>5, <2>6, <2>7 DEF Assembles

<1>UploadDoneInv.
    ASSUME UploadInv, NEW c \in Client, UploadDone(c)
    PROVE  UploadInv'
    <2> USE <1>UploadDoneInv
    <2> DEFINE u == client[c]
               n == u.length
               p == PeerOf[c]
               dir == staged[<<p, n>>]
               info == record[n]
               pc == IF info = Absent THEN "failed" ELSE "assemble"
               v == [u EXCEPT !.info = info, !.pc = pc]
    <2>1. u.pc = "done" /\ AtWork(u.pc) /\ client' = [client EXCEPT ![c] = v]
        BY DEF UploadDone, AtWork
    <2>2. u \in ClientState /\ n \in Nat /\ n \in Length /\ u.next \in Nat /\ p \in Peer
        BY <2>1, <1>AtWorkFacts, <1>PeerFact
    <2>3. info \in ReceivedFileInfo \cup {Absent} /\ RecordOK(n, info)
        BY <2>2 DEF UploadInv, UploadFields
    <2>4. pc \in ClientPc /\ (info = Absent <=> pc = "failed") /\ (info # Absent <=> pc = "assemble")
        BY DEF ClientPc
    <2>5. UploadOK(u) /\ (~u.overlap => ClientOK(p, u, info, dir))
        BY <2>1 DEF UploadInv
    <2>6. record' = record /\ staged' = staged /\ uploadFaults' \in 0 .. MaxUploadFaults
        BY DEF UploadDone, UploadInv, UploadFields
    <2> HIDE DEF u, pc, info
    <2>7. /\ v \in ClientState /\ v.pc = pc /\ v.info = info
          /\ v.length = u.length /\ v.next = u.next /\ v.read = u.read
          /\ v.gone = u.gone /\ v.fault = u.fault /\ v.overlap = u.overlap
        <3>1. LooksUp(u, v, info, pc)
            BY <2>2, <2>3, <2>4, <1>DoneFacts
        <3> HIDE DEF v
        <3> QED
            BY <3>1 DEF LooksUp
    <2> HIDE DEF v, n, p, dir
    <2>8. Steps(c, v)
        BY <2>1, <2>7 DEF Steps, u
    <2>9. n <= u.next * CHUNK_SIZE
        BY <2>1, <2>5 DEF UploadOK, n
    <2>10. u.next = 0 => n = 0 /\ n % CHUNK_SIZE = 0
        BY <2>2, <2>9, <1>NothingSent
    <2>11. ~u.overlap => u.next = 0 \/ (u.next > 0 /\ IsInfo(info, p, FirstCids(n, u.next)))
        <3>1. Sent(u) = u.next
            BY <2>1 DEF Sent
        <3>2. u.next = 0 \/ u.next > 0
            BY <2>2, SMTT(30)
        <3> QED
            BY <2>5, <3>1, <3>2 DEF ClientOK, IsInfo, n
    <2>12. (~u.overlap /\ info # Absent) => u.next # 0
        BY <2>3, <2>10 DEF RecordOK
    <2>13. (~u.overlap /\ info = Absent) => n % CHUNK_SIZE = 0
        <3>1. ASSUME IsInfo(info, p, FirstCids(n, u.next))
              PROVE  info # Absent
            <4>1. InfoParts(info, p, FirstCids(n, u.next))
                BY <2>2, <3>1, <1>InfoFields
            <4> QED
                BY <4>1 DEF InfoParts
        <3> QED
            BY <2>10, <2>11, <3>1
    <2>14. UploadOK(v)
        BY <2>1, <2>3, <2>4, <2>5, <2>7, <2>13 DEF UploadOK, AtWork, n
    <2>15. ASSUME AtWork(v.pc), ~v.overlap
           PROVE  ClientOK(p, v, info, dir)
        <3>1. pc = "assemble" /\ ~u.overlap
            BY <2>4, <2>7, <2>15 DEF AtWork
        <3>2. u.next > 0 /\ IsInfo(info, p, FirstCids(n, u.next))
            BY <2>4, <2>11, <2>12, <3>1
        <3>3. u.read = << >>
            BY <2>1, <2>5 DEF UploadOK
        <3>4. Assembles(p, v)
            BY <2>2, <2>7, <3>2, <3>3, <1>BeginsAssembly DEF n
        <3>5. Sent(v) = Sent(u)
            BY <2>1, <2>7, <3>1 DEF Sent
        <3> QED
            BY <2>1, <2>5, <2>7, <3>1, <3>4, <3>5 DEF ClientOK
    <2>16. (AtWork(v.pc) /\ ~v.overlap) =>
                ClientOK(PeerOf[c], v, record[v.length], staged[<<PeerOf[c], v.length>>])
        BY <2>7, <2>15 DEF info, dir, p, n
    <2> QED
        BY <2>1, <2>6, <2>8, <2>14, <2>16, <1>QuietStep DEF u

<1>ReadFacts.
    ASSUME NEW u \in ClientState, u.info \in ReceivedFileInfo, u.info.chunkCids # << >>,
           NEW content \in Bytes
    PROVE  ReadsOn(u, [u EXCEPT !.info.chunkCids = Tail(@), !.read = @ \o content], content)
    <2> USE <1>ReadFacts
    <2> DEFINE info == [u.info EXCEPT !.chunkCids = Tail(u.info.chunkCids)]
               v == [u EXCEPT !.info = info, !.read = u.read \o content]
    <2>1. u.info.chunkCids \in Seq(Bytes \cup {Absent}) /\ u.info.path \in Peer
        BY DEF ReceivedFileInfo
    <2>2. Tail(u.info.chunkCids) \in Seq(Bytes \cup {Absent})
        BY <2>1, TailFacts
    <2>3. info \in ReceivedFileInfo /\ info.path = u.info.path /\ info.chunkCids = Tail(u.info.chunkCids)
        BY <2>1, <2>2 DEF ReceivedFileInfo
    <2>4. u.read \o content \in Bytes
        <3>1. u.read \in Seq(Nat) /\ content \in Seq(Nat)
            BY DEF ClientState, Bytes
        <3> QED
            BY <3>1, <1>Joined DEF Bytes
    <2> HIDE DEF info
    <2>5. /\ v \in ClientState /\ v.pc = u.pc /\ v.info = info /\ v.read = u.read \o content
          /\ v.length = u.length /\ v.next = u.next
          /\ v.gone = u.gone /\ v.fault = u.fault /\ v.overlap = u.overlap
        BY <2>3, <2>4 DEF ClientState
    <2>6. v = [u EXCEPT !.info.chunkCids = Tail(@), !.read = @ \o content]
        BY DEF info
    <2> HIDE DEF v
    <2>7. ReadsOn(u, v, content)
        BY <2>3, <2>5 DEF ReadsOn
    <2> QED
        BY <2>6, <2>7

\* An upload that assembles from its own files finds the next chunk, unless it
\* is an empty one.
<1>NextChunk.
    ASSUME NEW u \in ClientState, u.length \in Nat, NEW p, NEW dir, Assembles(p, u),
           Stored(dir, u.length, u.next), u.info \in ReceivedFileInfo, u.info.chunkCids # << >>
    PROVE  /\ ReadBack(u) \in Nat /\ ReadBack(u) < TotalChunks(u.length)
           /\ \/ /\ ReadBack(u) < u.next
                 /\ u.info.chunkCids[1] = Chunk(u.length, ReadBack(u))
                 /\ Holds(dir, Chunk(u.length, ReadBack(u)))
              \/ u.next < TotalChunks(u.length) /\ u.info.chunkCids[1] = Absent
    <2> USE <1>NextChunk
    <2> DEFINE j == ReadBack(u)
               K == TotalChunks(u.length)
               L == Len(u.info.chunkCids)
    <2>1. u.next \in Nat /\ K \in Nat
        BY Division DEF ClientState
    <2>2. L \in Nat /\ L > 0
        BY TailFacts DEF ReceivedFileInfo
    <2>3. j = K - L /\ j \in 0 .. u.next
        BY DEF Assembles, ReadBack
    <2> HIDE DEF j, K, L
    <2>4. j \in Nat /\ j < K /\ 1 \in 1 .. L /\ 1 + j \in 1 .. K /\ (1 + j) - 1 = j
            /\ (1 + j <= u.next => j < u.next /\ j \in 0 .. u.next - 1) /\ (~(1 + j <= u.next) => u.next < K)
        BY <2>1, <2>2, <2>3, SMTT(30)
    <2>5. u.info.chunkCids[1] = FirstCids(u.length, u.next)[1 + j]
        BY <2>4 DEF Assembles, j, L
    <2>6. FirstCids(u.length, u.next)[1 + j] = IF 1 + j <= u.next THEN Chunk(u.length, (1 + j) - 1) ELSE Absent
        BY <2>1, <2>4, <1>CidsFacts DEF K
    <2>7. CASE 1 + j <= u.next
        <3>1. u.info.chunkCids[1] = Chunk(u.length, j)
            BY <2>4, <2>5, <2>6, <2>7
        <3>2. Holds(dir, Chunk(u.length, j))
            BY <2>4, <2>7 DEF Stored
        <3> QED
            BY <2>4, <2>7, <3>1, <3>2 DEF j, K
    <2>8. CASE ~(1 + j <= u.next)
        BY <2>4, <2>5, <2>6, <2>8 DEF j, K
    <2> QED
        BY <2>7, <2>8

<1>OneShorter.
    ASSUME NEW k \in Nat, NEW l \in Nat
    PROVE  k - (l - 1) = (k - l) + 1
    BY <1>OneShorter, SMTT(30)

<1>AssemblesOn.
    ASSUME NEW u \in ClientState, u.length \in Nat, NEW p, Assembles(p, u),
           u.info \in ReceivedFileInfo, u.info.chunkCids # << >>, ReadBack(u) < u.next,
           NEW v, ReadsOn(u, v, Chunk(u.length, ReadBack(u)))
    PROVE  Assembles(p, v)
    <2> USE <1>AssemblesOn
    <2> DEFINE j == ReadBack(u)
               K == TotalChunks(u.length)
               s == u.info.chunkCids
    <2>1. u.next \in Nat /\ K \in Nat
        BY Division DEF ClientState
    <2>2. s \in Seq(Bytes \cup {Absent}) /\ s # << >>
        BY DEF ReceivedFileInfo
    <2>3. Len(s) \in Nat /\ Len(s) > 0 /\ Len(Tail(s)) = Len(s) - 1
            /\ \A i \in 1 .. Len(Tail(s)) : Tail(s)[i] = s[i + 1]
        BY <2>2, TailFacts
    <2>4. j = K - Len(s) /\ j \in 0 .. u.next /\ ReadBack(v) = K - Len(Tail(s))
        BY DEF Assembles, ReadBack, ReadsOn
    <2>5. \A i \in 1 .. Len(s) : s[i] = FirstCids(u.length, u.next)[i + j]
        BY DEF Assembles
    <2> HIDE DEF K, s
    <2>6. j \in Nat /\ ReadBack(v) = j + 1
        <3> DEFINE l == Len(s)
                   m == Len(Tail(s))
        <3>1. l \in Nat /\ m = l - 1 /\ j = K - l /\ ReadBack(v) = K - m
            BY <2>3, <2>4
        <3> HIDE DEF l, m, j
        <3>2. K - (l - 1) = (K - l) + 1
            BY <2>1, <3>1, <1>OneShorter
        <3>3. ReadBack(v) = j + 1
            BY <3>1, <3>2
        <3>4. j \in Nat
            BY <2>1, <2>4, UpTo
        <3> QED
            BY <3>3, <3>4
    <2>7. ReadBack(v) \in 0 .. u.next
        <3>1. j < u.next
            OBVIOUS
        <3> HIDE DEF j
        <3> QED
            BY <2>1, <2>6, <3>1, SMTT(30)
    <2>8. ASSUME NEW i \in 1 .. Len(Tail(s))
          PROVE  Tail(s)[i] = FirstCids(u.length, u.next)[i + ReadBack(v)]
        <3>1. i + 1 \in 1 .. Len(s) /\ (i + 1) + j = i + (j + 1)
            BY <2>3, <2>6, SMTT(30)
        <3>2. s[i + 1] = FirstCids(u.length, u.next)[(i + 1) + j]
            BY <2>5, <3>1
        <3>3. Tail(s)[i] = s[i + 1]
            BY <2>3
        <3> QED
            BY <2>6, <3>1, <3>2, <3>3
    <2>9. v.read = Content(Cut(u.length, j)) \o Chunk(u.length, j)
        BY DEF Assembles, ReadsOn
    <2>10. v.read = Content(Cut(u.length, ReadBack(v)))
        BY <2>6, <2>9, <1>ChunkJoins
    <2>11. v.info.chunkCids = Tail(s) /\ v.length = u.length /\ v.next = u.next /\ v.info.path = p /\ v.next > 0
        BY DEF ReadsOn, Assembles, s
    <2> QED
        BY <2>7, <2>8, <2>10, <2>11 DEF Assembles

<1>GiveUpFacts.
    ASSUME NEW u \in ClientState
    PROVE  GivesUp(u, [u EXCEPT !.pc = "failed", !.info = Absent, !.read = << >>])
    BY <1>GiveUpFacts, NoBytes DEF ClientState, ClientPc, GivesUp

<1>ReadChunkInv.
    ASSUME UploadInv, NEW c \in Client, ReadChunk(c)
    PROVE  UploadInv'
    <2> USE <1>ReadChunkInv
    <2> DEFINE u == client[c]
               n == u.length
               p == PeerOf[c]
               dir == staged[<<p, n>>]
               name == u.info.chunkCids[1]
               content == IF name = Absent THEN Absent ELSE FileAt(u.info.path, n, name)
               failed == [u EXCEPT !.pc = "failed", !.info = Absent, !.read = << >>]
               reads == [u EXCEPT !.info.chunkCids = Tail(@), !.read = @ \o content]
    <2>0. client' = [client EXCEPT ![c] = IF content = Absent THEN failed ELSE reads]
        BY DEF ReadChunk
    <2>1. u.pc = "assemble" /\ AtWork(u.pc) /\ u.info.chunkCids # << >>
        BY DEF ReadChunk, AtWork
    <2>2. u \in ClientState /\ n \in Nat /\ n \in Length /\ u.next \in Nat /\ p \in Peer
        BY <2>1, <1>AtWorkFacts, <1>PeerFact
    <2>3. UploadOK(u) /\ (~u.overlap => ClientOK(p, u, record[n], dir))
        BY <2>1 DEF UploadInv
    <2>4. record' = record /\ staged' = staged /\ uploadFaults' \in 0 .. MaxUploadFaults
        BY DEF ReadChunk, UploadInv, UploadFields
    <2>5. u.info \in ReceivedFileInfo /\ u.info.path \in Peer
        BY <2>1, <2>3 DEF UploadOK, ReceivedFileInfo
    <2>6. <<u.info.path, n>> \in Peer \X Length
        BY <2>2, <2>5
    <2>7. content # Absent => content \in Bytes
        BY <2>6 DEF UploadInv, UploadFields, IsFiles, FileAt
    <2> HIDE DEF u, n, dir, p
    <2>8. n <= u.next * CHUNK_SIZE
        BY <2>1, <2>3 DEF UploadOK, n
    <2>9. ~u.overlap => Stored(dir, n, u.next) /\ Assembles(p, u)
        BY <2>1, <2>3 DEF ClientOK, n
    <2>10. ~u.overlap =>
              /\ ReadBack(u) \in Nat /\ ReadBack(u) < TotalChunks(n)
              /\ \/ ReadBack(u) < u.next /\ name = Chunk(n, ReadBack(u)) /\ Holds(dir, name)
                 \/ u.next < TotalChunks(n) /\ name = Absent
        BY <2>1, <2>2, <2>5, <2>9, <1>NextChunk DEF n
    <2>11. (~u.overlap /\ name # Absent) => ReadBack(u) < u.next /\ content = Chunk(n, ReadBack(u)) /\ content # Absent
        <3>1. ASSUME ~u.overlap, name # Absent
              PROVE  ReadBack(u) < u.next /\ content = Chunk(n, ReadBack(u)) /\ content # Absent
            <4>1. ReadBack(u) \in Nat /\ ReadBack(u) < u.next /\ name = Chunk(n, ReadBack(u)) /\ Holds(dir, name)
                BY <2>10, <3>1
            <4>2. u.info.path = p
                BY <2>9, <3>1 DEF Assembles
            <4>3. content = Chunk(n, ReadBack(u))
                BY <3>1, <4>1, <4>2 DEF FileAt, Holds, dir
            <4>4. Chunk(n, ReadBack(u)) \in Bytes
                BY <2>2, <4>1, <1>ChunkFacts DEF Bytes
            <4>5. Chunk(n, ReadBack(u)) # Absent
                BY <4>4, AbsentUpload
            <4> QED
                BY <4>1, <4>3, <4>5
        <3> QED
            BY <3>1
    <2>12. CASE content = Absent
        <3>1. GivesUp(u, failed)
            BY <2>2, <1>GiveUpFacts
        <3>2. client' = [client EXCEPT ![c] = failed]
            BY <2>0, <2>12
        <3> HIDE DEF failed, reads
        <3>3. Steps(c, failed)
            BY <3>1, <3>2 DEF Steps, GivesUp, u
        <3>4. ~u.overlap => n % CHUNK_SIZE = 0
            <4>1. ~u.overlap => name = Absent
                BY <2>11, <2>12
            <4>2. ~u.overlap => u.next < TotalChunks(n)
                <5>1. ~u.overlap => ReadBack(u) \in Nat /\ (name = Chunk(n, ReadBack(u)) \/ u.next < TotalChunks(n))
                    BY <2>10
                <5>2. ReadBack(u) \in Nat => Chunk(n, ReadBack(u)) # Absent
                    BY <2>2, <1>ChunkFacts, AbsentUpload DEF Bytes
                <5> HIDE DEF name
                <5> QED
                    BY <4>1, <5>1, <5>2
            <4> QED
                BY <2>2, <2>8, <4>2, <1>EmptyChunk
        <3>5. u.next <= TotalChunks(n) + 1
            BY <2>3 DEF UploadOK, n
        <3>6. UploadOK(failed)
            BY <2>3, <3>1, <3>4, <3>5 DEF UploadOK, AtWork, GivesUp, n
        <3>7. ~AtWork(failed.pc)
            BY <3>1 DEF AtWork, GivesUp
        <3> QED
            BY <2>1, <2>4, <3>3, <3>6, <3>7, <1>QuietStep DEF u
    <2>13. CASE content # Absent
        <3>1. ReadsOn(u, reads, content)
            <4>1. content \in Bytes
                BY <2>7, <2>13
            <4> HIDE DEF content
            <4> QED
                BY <2>1, <2>2, <2>5, <4>1, <1>ReadFacts
        <3>2. client' = [client EXCEPT ![c] = reads]
            BY <2>0, <2>13
        <3> HIDE DEF failed, reads
        <3>3. Steps(c, reads)
            BY <3>1, <3>2 DEF Steps, ReadsOn, u
        <3>4. UploadOK(reads)
            BY <2>1, <2>3, <3>1 DEF UploadOK, AtWork, ReadsOn
        <3>5. ASSUME ~u.overlap
              PROVE  ClientOK(p, reads, record[n], dir)
            <4>1. name # Absent
                BY <2>13
            <4>2. ReadBack(u) < u.next /\ content = Chunk(n, ReadBack(u))
                BY <2>11, <3>5, <4>1
            <4>3. ReadsOn(u, reads, Chunk(n, ReadBack(u)))
                BY <3>1, <4>2
            <4>4. Assembles(p, reads)
                BY <2>1, <2>2, <2>5, <2>9, <3>5, <4>2, <4>3, <1>AssemblesOn DEF n
            <4>5. Sent(reads) = Sent(u)
                BY <2>1, <3>1 DEF Sent, ReadsOn
            <4>6. reads.pc = "assemble" /\ reads.length = n /\ reads.next = u.next
                BY <2>1, <3>1 DEF ReadsOn, n
            <4>7. ClientOK(p, u, record[n], dir)
                BY <2>3, <3>5
            <4> QED
                BY <2>9, <3>5, <4>4, <4>5, <4>6, <4>7 DEF ClientOK, n
        <3>6. (AtWork(reads.pc) /\ ~reads.overlap) =>
                ClientOK(PeerOf[c], reads, record[reads.length], staged[<<PeerOf[c], reads.length>>])
            BY <3>1, <3>5 DEF ReadsOn, n, p, dir
        <3> QED
            BY <2>1, <2>4, <3>3, <3>4, <3>6, <1>QuietStep DEF u
    <2> QED
        BY <2>12, <2>13

\* All chunks are read: the content is complete.
<1>AllRead.
    ASSUME NEW u \in ClientState, u.length \in Nat, u.next <= TotalChunks(u.length),
           NEW p, Assembles(p, u), u.info.chunkCids = << >>
    PROVE  u.next = TotalChunks(u.length) /\ u.info.path = p /\ u.read = Content(u.length)
    <2> USE <1>AllRead
    <2> DEFINE K == TotalChunks(u.length)
    <2>1. u.next \in Nat /\ K \in Nat /\ u.length < K * CHUNK_SIZE
        BY Division DEF ClientState
    <2>2. Len(u.info.chunkCids) = 0
        BY SMTT(30)
    <2>3. K - 0 \in 0 .. u.next /\ ReadBack(u) = K - 0 /\ u.next <= K
        BY <2>2 DEF Assembles, ReadBack
    <2> HIDE DEF K
    <2>4. u.next = K /\ ReadBack(u) = K
        BY <2>1, <2>3, SMTT(30)
    <2>5. Cut(u.length, K) = u.length
        <3>1. u.length <= K * CHUNK_SIZE
            <4>1. K * CHUNK_SIZE \in Int
                BY <2>1, UploadAssumption, SMTT(30)
            <4> QED
                BY <2>1, <4>1, SMTT(30)
        <3> QED
            BY <2>1, <3>1, <1>CutFacts
    <2> QED
        BY <2>4, <2>5 DEF Assembles, K

<1>CreateWholeInv.
    ASSUME UploadInv, NEW c \in Client, CreateWhole(c)
    PROVE  UploadInv'
    <2> USE <1>CreateWholeInv
    <2> DEFINE u == client[c]
               n == u.length
               q == u.info.path
    <2>1. u.pc = "assemble" /\ AtWork(u.pc) /\ u.info.chunkCids = << >>
            /\ Goes(c, "writeWhole") /\ record' = record /\ uploadFaults' = uploadFaults
            /\ staged' = [staged EXCEPT ![<<q, n>>] = With(@, Content(n), << >>)]
        BY DEF CreateWhole, CreateFile, WriteFile, AtWork
    <2>2. PICK v : Steps(c, v) /\ v.pc = "writeWhole" /\ Alike(u, v)
        BY <2>1, <1>GoesStep DEF UploadInv, ClientPc
    <2>3. u \in ClientState /\ n \in Nat
        BY <2>1, <1>AtWorkFacts
    <2>4. UploadOK(u) /\ (~u.overlap => ClientOK(PeerOf[c], u, record[n], staged[<<PeerOf[c], n>>]))
        BY <2>1 DEF UploadInv
    <2>5. q \in Peer
        BY <2>1, <2>4 DEF UploadOK, ReceivedFileInfo
    <2> HIDE DEF u, n
    <2>6. UploadOK(v)
        BY <2>1, <2>2, <2>4 DEF UploadOK, Alike, AtWork
    <2>7. ASSUME ~v.overlap, NEW new
          PROVE  q = PeerOf[c] /\ ClientOK(PeerOf[c], v, record[n], new)
        <3>1. ClientOK(PeerOf[c], u, record[n], staged[<<PeerOf[c], n>>])
            BY <2>2, <2>4, <2>7 DEF Alike
        <3>2. u.next <= TotalChunks(n) /\ Assembles(PeerOf[c], u)
            BY <2>1, <2>4, <3>1 DEF UploadOK, ClientOK, n
        <3>3. u.next = TotalChunks(n) /\ q = PeerOf[c] /\ u.read = Content(n)
            BY <2>1, <2>3, <3>2, <1>AllRead DEF n
        <3> QED
            BY <2>1, <2>2, <3>1, <3>3 DEF ClientOK, Sent, Alike, n
    <2>8. v.length = n
        BY <2>2 DEF Alike, n
    <2> HIDE DEF q
    <2> QED
        BY <2>1, <2>2, <2>5, <2>6, <2>7, <2>8, NoBytes, <1>WritingStep DEF u

<1>WroteFacts.
    ASSUME NEW u \in ClientState
    PROVE  Wrote(u, [u EXCEPT !.pc = "answer", !.info = Absent, !.read = << >>])
    BY <1>WroteFacts, NoBytes DEF ClientState, ClientPc, Wrote

<1>WriteWholeInv.
    ASSUME UploadInv, NEW c \in Client, WriteWhole(c)
    PROVE  UploadInv'
    <2> USE <1>WriteWholeInv
    <2> DEFINE u == client[c]
               n == u.length
               q == u.info.path
               v == [u EXCEPT !.pc = "answer", !.info = Absent, !.read = << >>]
    <2>1. u.pc = "writeWhole" /\ AtWork(u.pc)
            /\ client' = [client EXCEPT ![c] = v] /\ record' = record /\ uploadFaults' = uploadFaults
            /\ staged' = [staged EXCEPT ![<<q, n>>] = With(@, Content(n), u.read)]
        BY DEF WriteWhole, AtWork
    <2>2. u \in ClientState /\ n \in Nat /\ u.read \in Bytes
        BY <2>1, <1>AtWorkFacts DEF ClientState
    <2>3. Wrote(u, v)
        BY <2>2, <1>WroteFacts
    <2>4. UploadOK(u) /\ (~u.overlap => ClientOK(PeerOf[c], u, record[n], staged[<<PeerOf[c], n>>]))
        BY <2>1 DEF UploadInv
    <2>5. q \in Peer
        BY <2>1, <2>4 DEF UploadOK, ReceivedFileInfo
    <2> HIDE DEF u, n, v
    <2>6. Steps(c, v)
        BY <2>1, <2>3 DEF Steps, Wrote, u
    <2>7. UploadOK(v)
        BY <2>1, <2>3, <2>4 DEF UploadOK, Wrote, AtWork
    <2>8. ~v.overlap => u.next = TotalChunks(n) /\ q = PeerOf[c] /\ u.read = Content(n)
        BY <2>1, <2>3, <2>4 DEF ClientOK, Wrote, n
    <2>9. ASSUME ~v.overlap, NEW new, Written(new, staged[<<q, n>>], Content(n), u.read)
          PROVE  q = PeerOf[c] /\ ClientOK(PeerOf[c], v, record[n], new)
        <3>1. ClientOK(PeerOf[c], u, record[n], staged[<<PeerOf[c], n>>])
            BY <2>3, <2>4, <2>9 DEF Wrote
        <3>2. Holds(new, Content(n))
            BY <2>8, <2>9 DEF Holds, Written
        <3>3. Sent(u) = u.next /\ Sent(v) = u.next + 1
            BY <2>1, <2>3 DEF Sent, Wrote
        <3>4. u.next \in Nat /\ u.next > 0
            BY <2>2, <2>8, <2>9, Division, SMTT(30)
        <3>5. FirstCids(n, u.next + 1) = FirstCids(n, u.next)
            BY <2>2, <2>8, <2>9, <1>CidsFull
        <3>6. record[n] = [path |-> PeerOf[c], chunkCids |-> FirstCids(n, u.next)]
            BY <3>1, <3>3, <3>4 DEF ClientOK, n
        <3>7. v.pc = "answer" /\ v.length = n /\ v.next = TotalChunks(n)
            BY <2>3, <2>8, <2>9 DEF Wrote, n
        <3> QED
            BY <2>8, <2>9, <3>2, <3>3, <3>5, <3>6, <3>7 DEF ClientOK
    <2>10. v.length = n
        BY <2>3 DEF Wrote, n
    <2> HIDE DEF q
    <2> QED
        BY <2>1, <2>2, <2>5, <2>6, <2>7, <2>8, <2>9, <2>10, <1>WritingStep DEF u

<1>BrokenFacts.
    ASSUME NEW u \in ClientState
    PROVE  Ends(u, Broken(u))
    <2> USE <1>BrokenFacts
    <2> DEFINE v == Broken(u)
    <2>1. /\ v \in ClientState /\ v.pc = "failed" /\ v.length = u.length /\ v.overlap = u.overlap
          /\ v.next = 0 /\ v.fault /\ v.read = << >>
        <3>1. 0 \in Nat
            BY SMTT(30)
        <3> QED
            BY <3>1, NoBytes DEF Broken, NoUpload, ClientState, ClientPc
    <2>2. u.length \in Nat
        <3>1. u.length \in Length \cup {0}
            BY DEF ClientState
        <3>2. 0 \in Nat
            BY SMTT(30)
        <3> QED
            BY <3>1, <3>2, UploadAssumption
    <2>3. 0 <= TotalChunks(u.length) + 1
        <3>1. TotalChunks(u.length) \in Nat
            BY <2>2, Division
        <3> QED
            BY <3>1, SMTT(30)
    <2> HIDE DEF v
    <2>4. UploadOK(v)
        BY <2>1, <2>3 DEF UploadOK, AtWork
    <2> QED
        BY <2>1, <2>4 DEF v, Ends

<1>FaultCounts.
    ASSUME UploadInv, UploadFault
    PROVE  uploadFaults' \in 0 .. MaxUploadFaults
    BY <1>FaultCounts, UploadAssumption, SMTT(30) DEF UploadInv, UploadFields, UploadFault

<1>UploadFailsInv.
    ASSUME UploadInv, NEW c \in Client, UploadFails(c)
    PROVE  UploadInv'
    <2> USE <1>UploadFailsInv
    <2> DEFINE v == Broken(client[c])
    <2>1. AtWork(client[c].pc) /\ client' = [client EXCEPT ![c] = v] /\ record' = record /\ staged' = staged
        BY DEF UploadFails, Active, AtWork
    <2>2. client[c] \in ClientState
        BY DEF UploadInv, UploadFields
    <2>3. v \in ClientState /\ v.pc = "failed" /\ v.length = client[c].length
            /\ v.overlap = client[c].overlap /\ UploadOK(v)
        <3>1. Ends(client[c], v)
            BY <2>2, <1>BrokenFacts
        <3> HIDE DEF v
        <3> QED
            BY <3>1 DEF Ends
    <2> HIDE DEF v
    <2>4. Steps(c, v)
        BY <2>1, <2>3 DEF Steps
    <2>5. uploadFaults' \in 0 .. MaxUploadFaults
        BY <1>FaultCounts DEF UploadFails
    <2>6. ~AtWork(v.pc)
        BY <2>3 DEF AtWork
    <2> QED
        BY <2>1, <2>3, <2>4, <2>5, <2>6, <1>QuietStep

<1>ConnectionLostInv.
    ASSUME UploadInv, NEW c \in Client, ConnectionLost(c)
    PROVE  UploadInv'
    <2> USE <1>ConnectionLostInv
    <2> DEFINE u == client[c]
               v == [u EXCEPT !.gone = TRUE, !.fault = TRUE]
    <2>1. AtWork(u.pc) /\ client' = [client EXCEPT ![c] = v] /\ record' = record /\ staged' = staged
        BY DEF ConnectionLost, Active, AtWork
    <2>2. u \in ClientState
        BY DEF UploadInv, UploadFields
    <2>3. UploadOK(u)
            /\ (~u.overlap => ClientOK(PeerOf[c], u, record[u.length], staged[<<PeerOf[c], u.length>>]))
        BY <2>1 DEF UploadInv
    <2> HIDE DEF u
    <2>4. /\ v \in ClientState /\ v.pc = u.pc /\ v.fault
          /\ v.length = u.length /\ v.next = u.next /\ v.info = u.info /\ v.read = u.read
          /\ v.overlap = u.overlap
        BY <2>2 DEF ClientState
    <2> HIDE DEF v
    <2>5. Steps(c, v)
        BY <2>1, <2>4 DEF Steps, u
    <2>6. uploadFaults' \in 0 .. MaxUploadFaults
        BY <1>FaultCounts DEF ConnectionLost
    <2>7. UploadOK(v)
        BY <2>3, <2>4 DEF UploadOK
    <2>8. ~v.overlap => ClientOK(PeerOf[c], v, record[v.length], staged[<<PeerOf[c], v.length>>])
        <3>1. Sent(v) = Sent(u)
            BY <2>4 DEF Sent
        <3>2. ReadBack(v) = ReadBack(u)
            BY <2>4 DEF ReadBack
        <3>3. Assembles(PeerOf[c], u) => Assembles(PeerOf[c], v)
            BY <2>4, <3>2 DEF Assembles
        <3> QED
            BY <2>3, <2>4, <3>1, <3>3 DEF ClientOK
    <2> QED
        BY <2>1, <2>5, <2>6, <2>7, <2>8, <1>QuietStep DEF u

\* A step that leaves records and directories alone and moves several uploads:
\* each becomes broken, takes note of another one, begins or stays as it is.
<1>ManyStep.
    ASSUME UploadInv, client' \in [Client -> ClientState],
           record' = record, staged' = staged, uploadFaults' \in 0 .. MaxUploadFaults,
           Overlapped => Overlapped', Apart',
           \A c \in Client : UploadOK(client'[c]),
           \A c \in Client : (AtWork(client'[c].pc) /\ ~client'[c].overlap) =>
               \/ client'[c] = client[c]
               \/ ClientOK(PeerOf[c], client'[c], record[client'[c].length],
                           staged[<<PeerOf[c], client'[c].length>>])
    PROVE  UploadInv'
    <2> USE <1>ManyStep
    <2>1. UploadFields'
        BY DEF UploadInv, UploadFields, IsFiles
    <2>2. FilesOK'
        BY DEF UploadInv, FilesOK
    <2>3. \A n \in Length : RecordOK(n, record[n])'
        BY DEF UploadInv
    <2>4. \A c \in Client : (AtWork(client[c].pc) /\ ~client[c].overlap)' =>
            ClientOK(PeerOf[c], client[c], record[client[c].length],
                     staged[<<PeerOf[c], client[c].length>>])'
        BY DEF UploadInv, AtWork
    <2> QED
        BY <2>1, <2>2, <2>3, <2>4 DEF UploadInv

<1>BeginFacts.
    ASSUME NEW n \in Length, NEW ov \in BOOLEAN
    PROVE  Begins([NoUpload EXCEPT !.pc = "send", !.length = n, !.overlap = ov], n, ov)
    <2> USE <1>BeginFacts
    <2> DEFINE v == [NoUpload EXCEPT !.pc = "send", !.length = n, !.overlap = ov]
    <2>1. /\ v \in ClientState /\ v.pc = "send" /\ v.length = n /\ v.overlap = ov
          /\ v.next = 0 /\ ~v.gone /\ v.read = << >>
        <3>1. 0 \in Nat
            BY SMTT(30)
        <3> QED
            BY <3>1, NoBytes DEF NoUpload, ClientState, ClientPc
    <2> HIDE DEF v
    <2>2. n \in Nat
        BY UploadAssumption
    <2>3. 0 <= TotalChunks(n) + 1 /\ 0 <= TotalChunks(n) /\ ~(0 > 0)
        <3>1. TotalChunks(n) \in Nat
            BY <2>2, Division
        <3> QED
            BY <3>1, SMTT(30)
    <2>4. UploadOK(v)
        BY <2>1, <2>3 DEF UploadOK, AtWork
    <2>5. Sent(v) = 0
        BY <2>1 DEF Sent
    <2>6. ASSUME NEW p, NEW info, NEW dir
          PROVE  ClientOK(p, v, info, dir)
        BY <2>1, <2>3, <2>5, <1>NothingStored DEF ClientOK
    <2> QED
        BY <2>1, <2>4, <2>6 DEF v, Begins

<1>DoTransportInv.
    ASSUME UploadInv, NEW c \in Client, NEW n \in Length, DoTransport(c, n)
    PROVE  UploadInv'
    <2> USE <1>DoTransportInv
    <2> DEFINE with == Overlapping(c, n)
               v == [NoUpload EXCEPT !.pc = "send", !.length = n, !.overlap = with # {}]
    <2>1. client[c].pc = "new" /\ record' = record /\ staged' = staged /\ uploadFaults' = uploadFaults
            /\ client' = [d \in Client |-> IF d = c THEN v
                                           ELSE IF d \in with THEN [client[d] EXCEPT !.overlap = TRUE]
                                           ELSE client[d]]
        BY DEF DoTransport
    <2>2. with \subseteq Client \ {c}
            /\ \A d \in Client : d # c => (d \in with <=> AtWork(client[d].pc) /\ client[d].length = n)
        BY DEF Overlapping, Active, AtWork
    <2>3. v \in ClientState /\ v.pc = "send" /\ v.length = n /\ (v.overlap <=> with # {}) /\ UploadOK(v)
            /\ ClientOK(PeerOf[c], v, record[n], staged[<<PeerOf[c], n>>])
        <3> DEFINE ov == with # {}
        <3>1. ov \in BOOLEAN
            OBVIOUS
        <3> HIDE DEF ov, with
        <3> DEFINE w == [NoUpload EXCEPT !.pc = "send", !.length = n, !.overlap = ov]
        <3>2. Begins(w, n, ov)
            BY <3>1, <1>BeginFacts
        <3>3. w = v
            BY DEF ov
        <3> HIDE DEF w, v
        <3> QED
            BY <3>2, <3>3 DEF ov, Begins
    <2>4. \A d \in Client : client[d] \in ClientState /\ UploadOK(client[d])
        BY DEF UploadInv, UploadFields
    <2> HIDE DEF v, with
    <2>5. client'[c] = v
        BY <2>1
    <2>6. ASSUME NEW d \in Client, d # c
          PROVE  /\ client'[d] \in ClientState
                 /\ client'[d].pc = client[d].pc /\ client'[d].length = client[d].length
                 /\ client[d].overlap => client'[d].overlap
                 /\ UploadOK(client'[d])
                 /\ d \in with => client'[d].overlap
                 /\ d \notin with => client'[d] = client[d]
        <3>1. CASE d \in with
            <4> DEFINE u == client[d]
                       w == [u EXCEPT !.overlap = TRUE]
            <4>1. client'[d] = w /\ u \in ClientState /\ UploadOK(u) /\ AtWork(u.pc)
                BY <2>1, <2>2, <2>4, <2>6, <3>1
            <4> HIDE DEF u
            <4>2. /\ w \in ClientState /\ w.pc = u.pc /\ w.overlap
                  /\ w.length = u.length /\ w.next = u.next /\ w.info = u.info /\ w.read = u.read
                  /\ w.gone = u.gone /\ w.fault = u.fault
                BY <4>1 DEF ClientState
            <4> HIDE DEF w
            <4>3. UploadOK(w)
                BY <4>1, <4>2 DEF UploadOK, AtWork
            <4> QED
                BY <3>1, <4>1, <4>2, <4>3 DEF u
        <3>2. CASE d \notin with
            BY <2>1, <2>4, <2>6, <3>2
        <3> QED
            BY <3>1, <3>2
    <2>7. client' \in [Client -> ClientState]
        <3>1. \A d \in Client : client'[d] \in ClientState
            BY <2>3, <2>5, <2>6
        <3> QED
            BY <2>1, <3>1
    <2>8. Overlapped => Overlapped'
        <3>1. ASSUME NEW d \in Client, client[d].overlap
              PROVE  client'[d].overlap
            <4>1. d # c
                BY <2>1, <2>4, <3>1 DEF UploadOK
            <4> QED
                BY <2>6, <3>1, <4>1
        <3> QED
            BY <3>1 DEF Overlapped
    <2>9. Apart'
        <3> SUFFICES ASSUME NEW x \in Client, NEW y \in Client, x # y, AtWork(client'[x].pc),
                            AtWork(client'[y].pc), client'[x].length = client'[y].length
                     PROVE  client'[x].overlap
            BY DEF Apart, AtWork
        <3>1. CASE x = c
            <4>1. y \in with
                BY <2>2, <2>3, <2>5, <2>6, <3>1
            <4> QED
                BY <2>3, <2>5, <3>1, <4>1
        <3>2. CASE y = c
            <4>1. x \in with
                BY <2>2, <2>3, <2>5, <2>6, <3>2
            <4> QED
                BY <2>6, <3>2, <4>1
        <3>3. CASE x # c /\ y # c
            BY <2>6, <3>3 DEF UploadInv, Apart
        <3> QED
            BY <3>1, <3>2, <3>3
    <2>10. \A d \in Client : UploadOK(client'[d])
        BY <2>3, <2>5, <2>6
    <2>11. \A d \in Client : (AtWork(client'[d].pc) /\ ~client'[d].overlap) =>
                   \/ client'[d] = client[d]
                   \/ ClientOK(PeerOf[d], client'[d], record[client'[d].length],
                               staged[<<PeerOf[d], client'[d].length>>])
        BY <2>3, <2>5, <2>6
    <2>12. uploadFaults' \in 0 .. MaxUploadFaults
        BY <2>1 DEF UploadInv, UploadFields
    <2> QED
        BY <2>1, <2>7, <2>8, <2>9, <2>10, <2>11, <2>12, <1>ManyStep

<1>UploadCrashInv.
    ASSUME UploadInv, UploadCrash
    PROVE  UploadInv'
    <2> USE <1>UploadCrashInv
    <2>1. record' = record /\ staged' = staged
            /\ client' = [c \in Client |-> IF AtWork(client[c].pc) THEN Broken(client[c]) ELSE client[c]]
        BY DEF UploadCrash, Active, AtWork
    <2>2. \A c \in Client : client[c] \in ClientState /\ UploadOK(client[c])
        BY DEF UploadInv, UploadFields
    <2>3. ASSUME NEW c \in Client
          PROVE  /\ client'[c] \in ClientState
                 /\ ~AtWork(client'[c].pc)
                 /\ client'[c].overlap = client[c].overlap
                 /\ UploadOK(client'[c])
        <3>1. CASE AtWork(client[c].pc)
            <4>1. client'[c] = Broken(client[c])
                BY <2>1, <3>1
            <4>2. Ends(client[c], client'[c])
                BY <2>2, <4>1, <1>BrokenFacts
            <4> QED
                BY <4>2 DEF Ends, AtWork
        <3>2. CASE ~AtWork(client[c].pc)
            BY <2>1, <2>2, <3>2
        <3> QED
            BY <3>1, <3>2
    <2>4. client' \in [Client -> ClientState]
        BY <2>1, <2>3
    <2>5. Overlapped => Overlapped'
        BY <2>3 DEF Overlapped
    <2>6. Apart'
        BY <2>3 DEF Apart, AtWork
    <2>7. uploadFaults' \in 0 .. MaxUploadFaults
        BY <1>FaultCounts DEF UploadCrash
    <2> QED
        BY <2>1, <2>3, <2>4, <2>5, <2>6, <2>7, <1>ManyStep

<1>UploadStarts.
    ASSUME UploadInit
    PROVE  UploadInv
    <2> USE <1>UploadStarts
    <2>1. /\ NoUpload \in ClientState /\ NoUpload.pc = "new" /\ NoUpload.length = 0 /\ NoUpload.next = 0
          /\ ~NoUpload.gone /\ ~NoUpload.overlap /\ NoUpload.read = << >>
        <3>1. 0 \in Nat
            BY SMTT(30)
        <3> QED
            BY <3>1, NoBytes DEF NoUpload, ClientState, ClientPc
    <2> HIDE DEF NoUpload
    <2>2. UploadOK(NoUpload)
        <3>1. 0 <= TotalChunks(0) + 1
            <4>1. TotalChunks(0) \in Nat
                BY Division, SMTT(30)
            <4> QED
                BY <4>1, SMTT(30)
        <3> QED
            BY <2>1, <3>1 DEF UploadOK, AtWork
    <2>3. UploadFields
        <3>1. IsFiles(<< >>)
            BY SMTT(30) DEF IsFiles
        <3>2. 0 \in 0 .. MaxUploadFaults
            BY UploadAssumption, SMTT(30)
        <3> QED
            BY <2>1, <3>1, <3>2 DEF UploadFields, UploadInit
    <2>4. Apart /\ FilesOK
        <3>1. \A x \in DOMAIN << >> : FALSE
            BY SMTT(30)
        <3> QED
            BY <2>1, <3>1 DEF Apart, FilesOK, UploadInit, AtWork
    <2> QED
        BY <2>1, <2>2, <2>3, <2>4 DEF UploadInv, UploadInit, AtWork, RecordOK

\* Every step of the uploads.
<1>UploadsKeepInv.
    ASSUME UploadInv, UploadsNext
    PROVE  UploadInv'
    <2> USE <1>UploadsKeepInv
    <2>1. PICK c \in Client :
            (\E n \in Length : DoTransport(c, n)) \/ UploadStep(c) \/ UploadFails(c) \/ ConnectionLost(c)
        BY DEF UploadsNext
    <2>2. CASE \E n \in Length : DoTransport(c, n)
        BY <2>2, <1>DoTransportInv
    <2>3. CASE UploadStep(c)
        BY <2>3, <1>SendChunkInv, <1>AnswerInv, <1>HandleChunkInfoInv, <1>UploadCreateInv, <1>UploadWriteInv,
           <1>UploadDoneInv, <1>ReadChunkInv, <1>CreateWholeInv, <1>WriteWholeInv DEF UploadStep
    <2>4. CASE UploadFails(c)
        BY <2>4, <1>UploadFailsInv
    <2>5. CASE ConnectionLost(c)
        BY <2>5, <1>ConnectionLostInv
    <2> QED
        BY <2>1, <2>2, <2>3, <2>4, <2>5

<1>OneMoves.
    ASSUME UploadInv, NEW c \in Client, NEW v, Progress(c, v)
    PROVE  UploadsMove
    <2> USE <1>OneMoves
    <2>1. client \in [Client -> ClientState]
        BY DEF UploadInv, UploadFields
    <2>2. client'[c] = v /\ \A d \in Client : d # c => client'[d] = client[d]
        BY <2>1 DEF Progress
    <2>3. \A d \in Client : client'[d].overlap = client[d].overlap
        BY <2>2 DEF Progress
    <2>4. Overlapped => Overlapped'
        BY <2>3 DEF Overlapped
    <2>5. ASSUME NEW d \in Client, Active(d), client'[d].pc = "ok"
          PROVE  Answer(d)
        <3>1. CASE d = c
            BY <2>2, <2>5, <3>1 DEF Progress
        <3>2. CASE d # c
            BY <2>2, <2>5, <3>2 DEF Active
        <3> QED
            BY <3>1, <3>2
    <2> QED
        BY <2>4, <2>5 DEF UploadsMove

<1>GoesMoves.
    ASSUME UploadInv, NEW c \in Client, NEW pc, pc # "ok", Goes(c, pc)
    PROVE  UploadsMove
    <2> USE <1>GoesMoves
    <2> DEFINE u == client[c]
               v == [u EXCEPT !.pc = pc]
    <2>1. client' = [client EXCEPT ![c] = v]
        BY DEF Goes
    <2>2. u \in ClientState
        BY DEF UploadInv, UploadFields
    <2> HIDE DEF u
    <2>3. v.overlap = u.overlap /\ v.pc = pc
        BY <2>2 DEF ClientState
    <2> HIDE DEF v
    <2>4. Progress(c, v)
        BY <2>1, <2>3 DEF Progress, u
    <2> QED
        BY <2>4, <1>OneMoves

<1>UploadStepMoves.
    ASSUME UploadInv, NEW c \in Client, UploadStep(c)
    PROVE  UploadsMove
    <2> USE <1>UploadStepMoves
    <2> DEFINE u == client[c]
    <2>0. u \in ClientState
        BY DEF UploadInv, UploadFields
    <2>1. CASE SendChunk(c)
        <3> DEFINE pc == IF CurrentChunk(c) = << >> THEN "done" ELSE "chunkInfo"
        <3>1. Goes(c, pc) /\ pc # "ok"
            BY <2>1 DEF SendChunk
        <3> HIDE DEF pc
        <3> QED
            BY <3>1, <1>GoesMoves
    <2>2. CASE Answer(c)
        <3> DEFINE pc == IF u.gone THEN "failed"
                         ELSE IF u.next + 1 <= TotalChunks(u.length) THEN "send" ELSE "ok"
                   v == [u EXCEPT !.pc = pc, !.next = u.next + 1]
        <3>1. client' = [client EXCEPT ![c] = v]
            BY <2>2 DEF Answer
        <3> HIDE DEF u, pc
        <3>2. v.overlap = u.overlap
            BY <2>0 DEF ClientState
        <3> HIDE DEF v
        <3>3. Progress(c, v)
            BY <2>2, <3>1, <3>2 DEF Progress, u
        <3> QED
            BY <3>3, <1>OneMoves
    <2>3. CASE handleChunkInfo(c)
        BY <2>3, <1>GoesMoves DEF handleChunkInfo
    <2>4. CASE UploadCreate(c)
        BY <2>4, <1>GoesMoves DEF UploadCreate, CreateFile, WriteFile
    <2>5. CASE UploadWrite(c)
        BY <2>5, <1>GoesMoves DEF UploadWrite, WriteFile
    <2>6. CASE UploadDone(c)
        <3> DEFINE info == record[u.length]
                   pc == IF info = Absent THEN "failed" ELSE "assemble"
                   v == [u EXCEPT !.info = info, !.pc = pc]
        <3>1. client' = [client EXCEPT ![c] = v] /\ pc # "ok"
            BY <2>6 DEF UploadDone
        <3> HIDE DEF u, pc, info
        <3>2. v.overlap = u.overlap /\ v.pc = pc
            BY <2>0 DEF ClientState
        <3> HIDE DEF v
        <3>3. Progress(c, v)
            BY <3>1, <3>2 DEF Progress, u
        <3> QED
            BY <3>3, <1>OneMoves
    <2>7. CASE ReadChunk(c)
        <3> DEFINE name == u.info.chunkCids[1]
                   content == IF name = Absent THEN Absent ELSE FileAt(u.info.path, u.length, name)
                   failed == [u EXCEPT !.pc = "failed", !.info = Absent, !.read = << >>]
                   reads == [u EXCEPT !.info.chunkCids = Tail(@), !.read = @ \o content]
                   v == IF content = Absent THEN failed ELSE reads
        <3>1. client' = [client EXCEPT ![c] = v] /\ u.pc = "assemble"
            BY <2>7 DEF ReadChunk
        <3> HIDE DEF u, content
        <3>2. failed.overlap = u.overlap /\ failed.pc = "failed"
            BY <2>0 DEF ClientState
        <3>3. reads.overlap = u.overlap /\ reads.pc = u.pc
            BY <2>0 DEF ClientState
        <3> HIDE DEF failed, reads
        <3>4. v.overlap = u.overlap /\ v.pc # "ok"
            BY <3>1, <3>2, <3>3
        <3> HIDE DEF v
        <3>5. Progress(c, v)
            BY <3>1, <3>4 DEF Progress, u
        <3> QED
            BY <3>5, <1>OneMoves
    <2>8. CASE CreateWhole(c)
        BY <2>8, <1>GoesMoves DEF CreateWhole, CreateFile, WriteFile
    <2>9. CASE WriteWhole(c)
        <3> DEFINE v == [u EXCEPT !.pc = "answer", !.info = Absent, !.read = << >>]
        <3>1. client' = [client EXCEPT ![c] = v]
            BY <2>9 DEF WriteWhole
        <3> HIDE DEF u
        <3>2. v.overlap = u.overlap /\ v.pc = "answer"
            BY <2>0 DEF ClientState
        <3> HIDE DEF v
        <3>3. Progress(c, v)
            BY <3>1, <3>2 DEF Progress, u
        <3> QED
            BY <3>3, <1>OneMoves
    <2> QED
        BY <2>1, <2>2, <2>3, <2>4, <2>5, <2>6, <2>7, <2>8, <2>9 DEF UploadStep

<1>DoTransportMoves.
    ASSUME UploadInv, NEW c \in Client, NEW n \in Length, DoTransport(c, n)
    PROVE  UploadsMove
    <2> USE <1>DoTransportMoves
    <2> DEFINE with == Overlapping(c, n)
               v == [NoUpload EXCEPT !.pc = "send", !.length = n, !.overlap = with # {}]
    <2>1. client[c].pc = "new"
            /\ client' = [d \in Client |-> IF d = c THEN v
                                           ELSE IF d \in with THEN [client[d] EXCEPT !.overlap = TRUE]
                                           ELSE client[d]]
        BY DEF DoTransport
    <2>2. ~client[c].overlap
        BY <2>1 DEF UploadInv, UploadOK
    <2> HIDE DEF v, with
    <2>3. ASSUME NEW d \in Client, d # c
          PROVE  client'[d].pc = client[d].pc /\ (client[d].overlap => client'[d].overlap)
        <3> DEFINE u == client[d]
                   w == [u EXCEPT !.overlap = TRUE]
        <3>1. client'[d] = w \/ client'[d] = u
            BY <2>1, <2>3
        <3>2. u \in ClientState
            BY DEF UploadInv, UploadFields
        <3> HIDE DEF u
        <3>3. w.pc = u.pc /\ w.overlap
            BY <3>2 DEF ClientState
        <3> HIDE DEF w
        <3> QED
            BY <3>1, <3>3 DEF u
    <2>4. Overlapped => Overlapped'
        <3>1. \A d \in Client : client[d].overlap => client'[d].overlap
            BY <2>2, <2>3
        <3> QED
            BY <3>1 DEF Overlapped
    <2>5. \A d \in Client : ~(Active(d) /\ client'[d].pc = "ok")
        BY <2>1, <2>3 DEF Active
    <2> QED
        BY <2>4, <2>5 DEF UploadsMove

<1>UploadsNextMoves.
    ASSUME UploadInv, UploadsNext
    PROVE  UploadsMove
    <2> USE <1>UploadsNextMoves
    <2>1. PICK c \in Client :
            (\E n \in Length : DoTransport(c, n)) \/ UploadStep(c) \/ UploadFails(c) \/ ConnectionLost(c)
        BY DEF UploadsNext
    <2> DEFINE u == client[c]
    <2>0. u \in ClientState
        BY DEF UploadInv, UploadFields
    <2>2. CASE \E n \in Length : DoTransport(c, n)
        BY <2>2, <1>DoTransportMoves
    <2>3. CASE UploadStep(c)
        BY <2>3, <1>UploadStepMoves
    <2>4. CASE UploadFails(c)
        <3> DEFINE v == Broken(u)
        <3>1. client' = [client EXCEPT ![c] = v]
            BY <2>4 DEF UploadFails
        <3>2. Ends(u, v)
            BY <2>0, <1>BrokenFacts
        <3> HIDE DEF u, v
        <3>3. Progress(c, v)
            BY <3>1, <3>2 DEF Progress, Ends, u
        <3> QED
            BY <3>3, <1>OneMoves
    <2>5. CASE ConnectionLost(c)
        <3> DEFINE v == [u EXCEPT !.gone = TRUE, !.fault = TRUE]
        <3>1. client' = [client EXCEPT ![c] = v] /\ u.pc # "ok"
            BY <2>5 DEF ConnectionLost, Active
        <3> HIDE DEF u
        <3>2. v.overlap = u.overlap /\ v.pc = u.pc
            BY <2>0 DEF ClientState
        <3> HIDE DEF v
        <3>3. Progress(c, v)
            BY <3>1, <3>2 DEF Progress, u
        <3> QED
            BY <3>3, <1>OneMoves
    <2> QED
        BY <2>1, <2>2, <2>3, <2>4, <2>5

<1>CrashMoves.
    ASSUME UploadInv, UploadCrash
    PROVE  UploadsMove /\ (Overlapped' <=> Overlapped)
    <2> USE <1>CrashMoves
    <2>1. client' = [c \in Client |-> IF Active(c) THEN Broken(client[c]) ELSE client[c]]
        BY DEF UploadCrash
    <2>2. ASSUME NEW c \in Client
          PROVE  client'[c].overlap = client[c].overlap /\ ~(Active(c) /\ client'[c].pc = "ok")
        <3>1. client[c] \in ClientState
            BY DEF UploadInv, UploadFields
        <3>2. Ends(client[c], Broken(client[c]))
            BY <3>1, <1>BrokenFacts
        <3>3. CASE Active(c)
            <4>1. client'[c] = Broken(client[c])
                BY <2>1, <3>3
            <4>2. Ends(client[c], client'[c])
                BY <3>2, <4>1
            <4> QED
                BY <4>2 DEF Ends
        <3>4. CASE ~Active(c)
            BY <2>1, <3>4
        <3> QED
            BY <3>3, <3>4
    <2>3. Overlapped' <=> Overlapped
        BY <2>2 DEF Overlapped
    <2> QED
        BY <2>2, <2>3 DEF UploadsMove

\* Requests leave the uploads alone.
<1>UploadsRest.
    ASSUME UploadInv, UNCHANGED uploadVars
    PROVE  UploadInv'
    <2> USE <1>UploadsRest
    <2>1. client' = client /\ record' = record /\ staged' = staged /\ uploadFaults' = uploadFaults
        BY DEF uploadVars
    <2>2. UploadFields'
        BY <2>1 DEF UploadInv, UploadFields, IsFiles
    <2>3. Apart' /\ FilesOK'
        BY <2>1 DEF UploadInv, Apart, FilesOK, Overlapped, AtWork
    <2>4. \A c \in Client : (AtWork(client[c].pc) /\ ~client[c].overlap)' =>
            ClientOK(PeerOf[c], client[c], record[client[c].length],
                     staged[<<PeerOf[c], client[c].length>>])'
        BY <2>1 DEF UploadInv, AtWork
    <2>5. (\A c \in Client : UploadOK(client[c])') /\ \A n \in Length : RecordOK(n, record[n])'
        BY <2>1 DEF UploadInv
    <2> QED
        BY <2>2, <2>3, <2>4, <2>5 DEF UploadInv

\* The answer to the last chunk comes with the whole file in its place.
<1>AnswerIsWhole.
    ASSUME UploadInv, NEW c \in Client, Answer(c), client'[c].pc = "ok", ~client[c].overlap
    PROVE  UploadedFile(client[c].length)' = Content(client[c].length)
    <2> USE <1>AnswerIsWhole
    <2> DEFINE u == client[c]
               n == u.length
               p == PeerOf[c]
               dir == staged[<<p, n>>]
               pc == IF u.gone THEN "failed"
                     ELSE IF u.next + 1 <= TotalChunks(n) THEN "send" ELSE "ok"
    <2>1. u.pc = "answer" /\ AtWork(u.pc) /\ record' = record /\ staged' = staged
        BY DEF Answer, AtWork
    <2>2. u \in ClientState /\ n \in Nat /\ n \in Length /\ u.next \in Nat /\ p \in Peer
        BY <2>1, <1>AtWorkFacts, <1>PeerFact
    <2>3. ClientOK(p, u, record[n], dir)
        BY <2>1 DEF UploadInv
    <2>4. client' = [client EXCEPT ![c] = [u EXCEPT !.pc = pc, !.next = u.next + 1]]
        BY DEF Answer
    <2>5. client'[c].pc = pc /\ client'[c].length = n
        <3> DEFINE v == [u EXCEPT !.pc = pc, !.next = u.next + 1]
        <3>1. client'[c] = v
            BY <2>4 DEF UploadInv, UploadFields
        <3> HIDE DEF u, pc
        <3>2. v.pc = pc /\ v.length = u.length
            BY <2>2 DEF ClientState
        <3> QED
            BY <3>1, <3>2
    <2>6. ~(u.next + 1 <= TotalChunks(n))
        BY <2>5
    <2>7. ~(u.next * CHUNK_SIZE < n)
        BY <2>2, <2>6, <1>InRecord
    <2>8. Holds(dir, Content(n))
        BY <2>1, <2>3, <2>7 DEF ClientOK
    <2>9. u.next + 1 > 0 /\ u.next + 1 \in Nat
        BY <2>2, SMTT(30)
    <2>10. record[n] = [path |-> p, chunkCids |-> FirstCids(n, u.next + 1)]
        BY <2>1, <2>3, <2>9 DEF ClientOK, Sent
    <2>11. record[n] \in ReceivedFileInfo /\ record[n].path = p
        <3> DEFINE cids == FirstCids(n, u.next + 1)
        <3>1. cids \in Seq(Bytes \cup {Absent})
            BY <2>2, <2>9, <1>CidsFacts
        <3> HIDE DEF cids, p
        <3>2. [path |-> p, chunkCids |-> cids] \in ReceivedFileInfo /\ [path |-> p, chunkCids |-> cids].path = p
            BY <2>2, <3>1 DEF ReceivedFileInfo
        <3> QED
            BY <2>10, <3>2 DEF cids
    <2>12. record[n] # Absent
        BY <2>11, AbsentUpload
    <2> HIDE DEF u, n, p
    <2>13. /\ record'[client'[c].length] # Absent /\ record'[client'[c].length].path = p
           /\ Content(n) \in DOMAIN staged'[<<p, client'[c].length>>]
           /\ staged'[<<p, client'[c].length>>][Content(n)] = Content(n)
        BY <2>1, <2>5, <2>8, <2>11, <2>12 DEF Holds
    <2>14. UploadedFile(client[c].length)' = Content(n)
        BY <2>5, <2>13 DEF UploadedFile, FileAt
    <2> QED
        BY <2>14 DEF n, u

<1> QED
    BY <1>UploadStarts, <1>UploadsKeepInv, <1>UploadsNextMoves, <1>UploadCrashInv, <1>CrashMoves,
       <1>UploadsRest, <1>AnswerIsWhole

-----------------------------------------------------------------------------
(* The caches.                                                             *)

\* The entries of a cache are entries of another one.
From(new, cache) ==
    /\ new \in Seq(Entry)
    /\ \A i \in 1 .. Len(new) : \E j \in 1 .. Len(cache) : new[i] = cache[j]

\* Position finds the entry of a key, if the cache has one.
LEMMA PositionFacts ==
    ASSUME NEW cache \in Seq(Entry), NEW key
    PROVE  Position(cache, key) # 0 =>
               Position(cache, key) \in 1 .. Len(cache) /\ cache[Position(cache, key)].key = key
<1>1. DOMAIN cache = 1 .. Len(cache)
    BY SMTT(30)
<1>2. CASE \E i \in DOMAIN cache : cache[i].key = key
    <2> DEFINE j == CHOOSE i \in DOMAIN cache : cache[i].key = key
    <2>1. j \in DOMAIN cache /\ cache[j].key = key
        BY <1>2
    <2>2. Position(cache, key) = j
        BY <1>2 DEF Position
    <2> HIDE DEF j
    <2> QED
        BY <1>1, <2>1, <2>2
<1>3. CASE ~\E i \in DOMAIN cache : cache[i].key = key
    BY <1>3 DEF Position
<1> QED
    BY <1>2, <1>3

\* A function on 1 .. n is a sequence of length n.
LEMMA FunctionSequence ==
    ASSUME NEW S, NEW k \in Nat, NEW f \in [1 .. k -> S]
    PROVE  f \in Seq(S) /\ Len(f) = k
    BY SMTT(30)

\* A cache without the entry at i has the others, one fewer.
LEMMA WithoutFacts ==
    ASSUME NEW cache \in Seq(Entry), NEW i \in 1 .. Len(cache)
    PROVE  From(Without(cache, i), cache) /\ Len(Without(cache, i)) = Len(cache) - 1
<1> DEFINE at(j) == IF j < i THEN j ELSE j + 1
           k == Len(cache) - 1
           new == [j \in 1 .. k |-> cache[at(j)]]
<1>1. Without(cache, i) = new
    BY DEF Without
<1>2. k \in Nat /\ \A j \in 1 .. k : at(j) \in 1 .. Len(cache)
    BY SMTT(30)
<1>3. \A j \in 1 .. Len(cache) : cache[j] \in Entry
    BY SMTT(30)
<1> HIDE DEF at, k
<1>4. new \in [1 .. k -> Entry] /\ \A j \in 1 .. k : new[j] = cache[at(j)]
    BY <1>2, <1>3
<1> HIDE DEF new
<1>5. new \in Seq(Entry) /\ Len(new) = k
    BY <1>2, <1>4, FunctionSequence
<1> QED
    BY <1>1, <1>2, <1>4, <1>5 DEF From, k

\* A sequence with one more element at its end.
Longer(new, s, e, S) ==
    /\ new \in Seq(S)
    /\ Len(s) \in Nat
    /\ Len(new) = Len(s) + 1
    /\ new[Len(s) + 1] = e
    /\ \A i \in 1 .. Len(s) : new[i] = s[i]
    /\ \A i \in 1 .. Len(s) + 1 : i \in 1 .. Len(s) \/ i = Len(s) + 1
    /\ \A i \in 1 .. Len(s) : i \in 1 .. Len(s) + 1
    /\ Len(s) + 1 \in 1 .. Len(s) + 1

\* An entry more at the end of a cache.
LEMMA AppendFacts ==
    ASSUME NEW S, NEW s \in Seq(S), NEW e \in S
    PROVE  Longer(Append(s, e), s, e, S)
    BY SMTT(30) DEF Longer

\* The entries of a cache are entries of another one, or this one.
FromOr(new, cache, e) ==
    /\ new \in Seq(Entry)
    /\ \A i \in 1 .. Len(new) : new[i] = e \/ \E j \in 1 .. Len(cache) : new[i] = cache[j]

\* The entries of a longer cache come from the shorter one, or are the new one.
LEMMA FromAppend ==
    ASSUME NEW cache, NEW room, From(room, cache), NEW e \in Entry
    PROVE  FromOr(Append(room, e), cache, e) /\ Len(room) \in Nat /\ Len(Append(room, e)) = Len(room) + 1
<1>1. room \in Seq(Entry)
    BY DEF From
<1>2. Longer(Append(room, e), room, e, Entry)
    BY <1>1, AppendFacts
<1>3. ASSUME NEW i \in 1 .. Len(room) + 1
      PROVE  Append(room, e)[i] = e \/ \E j \in 1 .. Len(cache) : Append(room, e)[i] = cache[j]
    BY <1>2 DEF From, Longer
<1> QED
    BY <1>2, <1>3 DEF FromOr, Longer

\* The entries of a cache come from it.
LEMMA FromSelf ==
    ASSUME NEW cache \in Seq(Entry)
    PROVE  From(cache, cache) /\ Len(cache) \in Nat
<1>1. Len(cache) \in Nat
    BY SMTT(30)
<1> QED
    BY <1>1 DEF From

\* A refreshed entry (LruCache.get) moves to the end; the entries stay the same.
LEMMA RefreshedFacts ==
    ASSUME NEW cache \in Seq(Entry), NEW key
    PROVE  From(Refreshed(cache, key), cache) /\ Len(Refreshed(cache, key)) = Len(cache)
<1> DEFINE p == Position(cache, key)
           room == Without(cache, p)
           e == cache[p]
<1>1. CASE p = 0
    BY <1>1, FromSelf DEF Refreshed
<1>2. CASE p # 0
    <2>1. p \in 1 .. Len(cache)
        BY <1>2, PositionFacts
    <2>2. Refreshed(cache, key) = Append(room, e)
        BY <1>2 DEF Refreshed
    <2> HIDE DEF p
    <2>3. From(room, cache) /\ Len(room) = Len(cache) - 1
        BY <2>1, WithoutFacts
    <2>4. e \in Entry /\ Len(cache) \in Nat
        BY <2>1, SMTT(30)
    <2>5. \E j \in 1 .. Len(cache) : e = cache[j]
        BY <2>1
    <2> HIDE DEF room, e
    <2>6. FromOr(Append(room, e), cache, e) /\ Len(Append(room, e)) = Len(room) + 1
        BY <2>3, <2>4, FromAppend
    <2>7. From(Append(room, e), cache)
        BY <2>5, <2>6 DEF From, FromOr
    <2>8. (Len(cache) - 1) + 1 = Len(cache)
        BY <2>4, SMTT(30)
    <2> QED
        BY <2>2, <2>3, <2>6, <2>7, <2>8
<1> QED
    BY <1>1, <1>2

\* Evicting the oldest entry leaves room for one.
LEMMA RoomFacts ==
    ASSUME NEW cache \in Seq(Entry), NEW key,
           CacheCapacity > 0 => Len(cache) <= CacheCapacity
    PROVE  /\ From(Room(cache, key), cache)
           /\ CacheCapacity > 0 => Len(Room(cache, key)) + 1 <= CacheCapacity
<1> DEFINE p == Position(cache, key)
<1>0. Len(cache) \in Nat /\ CacheCapacity \in Nat
    BY FromSelf, ModelAssumption
<1>1. CASE p # 0
    <2>1. p \in 1 .. Len(cache)
        BY <1>1, PositionFacts
    <2>2. Room(cache, key) = Without(cache, p)
        BY <1>1 DEF Room
    <2> HIDE DEF p
    <2>3. From(Without(cache, p), cache) /\ Len(Without(cache, p)) = Len(cache) - 1
        BY <2>1, WithoutFacts
    <2>4. (Len(cache) - 1) + 1 = Len(cache)
        BY <1>0, SMTT(30)
    <2> QED
        BY <2>2, <2>3, <2>4
<1>2. CASE p = 0 /\ CacheCapacity > 0 /\ Len(cache) >= CacheCapacity
    <2>1. Room(cache, key) = Tail(cache)
        BY <1>2 DEF Room
    <2>2. cache # << >>
        <3>1. cache = << >> => Len(cache) = 0
            BY SMTT(30)
        <3>2. Len(cache) # 0
            BY <1>0, <1>2, SMTT(30)
        <3> QED
            BY <3>1, <3>2
    <2>3. /\ Tail(cache) \in Seq(Entry) /\ Len(Tail(cache)) = Len(cache) - 1
          /\ \A i \in 1 .. Len(Tail(cache)) : Tail(cache)[i] = cache[i + 1]
        BY <2>2, TailFacts
    <2>4. (Len(cache) - 1) + 1 = Len(cache) /\ \A i \in 1 .. Len(cache) - 1 : i + 1 \in 1 .. Len(cache)
        BY <1>0, SMTT(30)
    <2>5. From(Tail(cache), cache)
        BY <2>3, <2>4 DEF From
    <2> QED
        BY <2>1, <2>3, <2>4, <2>5
<1>3. CASE p = 0 /\ ~(CacheCapacity > 0 /\ Len(cache) >= CacheCapacity)
    <2>1. Room(cache, key) = cache
        BY <1>3 DEF Room
    <2>2. CacheCapacity > 0 => Len(cache) + 1 <= CacheCapacity
        BY <1>0, <1>3, SMTT(30)
    <2> QED
        BY <2>1, <2>2, FromSelf
<1> QED
    BY <1>1, <1>2, <1>3

\* A look into a cache that is not there makes one, and keeps a sound one sound.
LEMMA AfterGetFacts ==
    ASSUME NEW cache \in Seq(Entry) \cup {Absent}, NEW key, NEW h, NEW nm, CacheOK(cache, h, nm)
    PROVE  /\ AfterGet(cache, key) \in Seq(Entry)
           /\ AfterGet(cache, key) # Absent
           /\ CacheOK(AfterGet(cache, key), h, nm)
<1>1. CASE cache = Absent
    <2>1. AfterGet(cache, key) = << >>
        BY <1>1 DEF AfterGet
    <2>2. << >> \in Seq(Entry) /\ Len(<< >>) = 0 /\ \A i \in 1 .. 0 : FALSE
        BY SMTT(30)
    <2>3. CacheCapacity > 0 => 0 <= CacheCapacity
        BY ModelAssumption, SMTT(30)
    <2>4. << >> # Absent
        BY <2>2, AbsentModel
    <2>5. CacheOK(<< >>, h, nm)
        BY <2>2, <2>3 DEF CacheOK
    <2> QED
        BY <2>1, <2>2, <2>4, <2>5
<1>2. CASE cache # Absent
    <2>1. AfterGet(cache, key) = Refreshed(cache, key) /\ cache \in Seq(Entry)
        BY <1>2 DEF AfterGet
    <2>2. From(Refreshed(cache, key), cache) /\ Len(Refreshed(cache, key)) = Len(cache)
        BY <2>1, RefreshedFacts
    <2>3. Refreshed(cache, key) \in Seq(Entry) /\ Refreshed(cache, key) # Absent
        BY <2>2, AbsentModel DEF From
    <2>4. CacheOK(Refreshed(cache, key), h, nm)
        BY <1>2, <2>2 DEF From, CacheOK
    <2> QED
        BY <2>1, <2>3, <2>4
<1> QED
    BY <1>1, <1>2

\* A put keeps a cache sound, within its capacity included.
LEMMA PutFacts ==
    ASSUME NEW cache \in Seq(Entry), NEW k \in Keyword, NEW commit \in Nat, NEW obj \in Nat,
           NEW h, NEW nm, CacheOK(cache, h, nm), obj \in 1 .. Len(h), ~nm => h[obj].commit = commit
    PROVE  /\ Put(cache, <<k, commit>>, obj) \in Seq(Entry)
           /\ CacheOK(Put(cache, <<k, commit>>, obj), h, nm)
<1> DEFINE key == <<k, commit>>
           e == [key |-> key, obj |-> obj]
           room == Room(cache, key)
           new == Append(room, e)
<1>1. e \in Entry /\ e.obj = obj /\ e.key = key /\ key[2] = commit
    BY DEF Entry
<1>2. Put(cache, <<k, commit>>, obj) = new
    BY DEF Put
<1>3. cache # Absent
    BY AbsentModel
<1>4. CacheCapacity > 0 => Len(cache) <= CacheCapacity
    BY <1>3 DEF CacheOK
<1> HIDE DEF e, key
<1>5. From(room, cache) /\ (CacheCapacity > 0 => Len(room) + 1 <= CacheCapacity)
    BY <1>4, RoomFacts
<1> HIDE DEF room
<1>6. FromOr(new, cache, e) /\ Len(new) = Len(room) + 1
    BY <1>1, <1>5, FromAppend
<1> HIDE DEF new
<1>7. CacheOK(new, h, nm)
    <2>1. ASSUME NEW i \in 1 .. Len(new)
          PROVE  new[i].obj \in 1 .. Len(h) /\ (~nm => h[new[i].obj].commit = new[i].key[2])
        <3>1. CASE new[i] = e
            BY <1>1, <3>1
        <3>2. CASE new[i] # e
            BY <1>3, <1>6, <3>2 DEF FromOr, CacheOK
        <3> QED
            BY <3>1, <3>2
    <2> QED
        BY <1>5, <1>6, <2>1 DEF CacheOK
<1> QED
    BY <1>2, <1>6, <1>7 DEF FromOr

\* cacheModel, which puts the model under both of its keys, keeps a cache sound.
LEMMA cacheModelFacts ==
    ASSUME NEW cache \in Seq(Entry), NEW commit \in Nat, NEW obj \in Nat,
           NEW h, NEW nm, CacheOK(cache, h, nm), obj \in 1 .. Len(h), ~nm => h[obj].commit = commit
    PROVE  /\ cacheModel(cache, commit, obj) \in Seq(Entry)
           /\ cacheModel(cache, commit, obj) # Absent
           /\ CacheOK(cacheModel(cache, commit, obj), h, nm)
<1> DEFINE one == Put(cache, <<"dataId", commit>>, obj)
           two == Put(one, <<"alias", commit>>, obj)
<1>1. "dataId" \in Keyword /\ "alias" \in Keyword
    BY DEF Keyword
<1>2. one \in Seq(Entry) /\ CacheOK(one, h, nm)
    BY <1>1, PutFacts
<1> HIDE DEF one
<1>3. two \in Seq(Entry) /\ CacheOK(two, h, nm)
    BY <1>1, <1>2, PutFacts
<1>4. cacheModel(cache, commit, obj) = two
    BY DEF cacheModel, one
<1> HIDE DEF two
<1>5. two # Absent
    BY <1>3, AbsentModel
<1> QED
    BY <1>3, <1>4, <1>5

\* What a look into a cache finds is a model, and that of the commit asked for.
LEMMA CachedFacts ==
    ASSUME ModelInv, NEW a \in Account, NEW key
    PROVE  Cached(a, key) # 0 =>
               /\ Cached(a, key) \in 1 .. Len(heap)
               /\ ~named => heap[Cached(a, key)].commit = key[2]
<1> DEFINE cache == caches[a]
           p == Position(cache, key)
<1>1. CASE cache = Absent \/ p = 0
    BY <1>1 DEF Cached
<1>2. CASE ~(cache = Absent \/ p = 0)
    <2>1. Cached(a, key) = cache[p].obj
        BY <1>2 DEF Cached
    <2>2. cache \in Seq(Entry) /\ cache # Absent /\ CacheOK(cache, heap, named)
        BY <1>2 DEF ModelInv, ModelFields
    <2>3. p \in 1 .. Len(cache) /\ cache[p].key = key
        BY <1>2, <2>2, PositionFacts
    <2> HIDE DEF cache, p
    <2> QED
        BY <2>1, <2>2, <2>3 DEF CacheOK
<1> QED
    BY <1>1, <1>2

-----------------------------------------------------------------------------
(* A step of a request, and what the others notice of it.                  *)

\* The models stay, and stay models of their commits; the chain grows.
Grows ==
    /\ Len(heap) <= Len(heap')
    /\ ~named' => \A i \in 1 .. Len(heap) :
        /\ heap'[i].commit = heap[i].commit
        /\ (~Overlapped' /\ Whole(heap[i])) => Whole(heap'[i])
    /\ caches[Owner] # Absent => caches'[Owner] # Absent
    /\ Len(commits) <= Len(commits')
    /\ \A i \in 1 .. Len(commits) : commits'[i] = commits[i]
    /\ Newest(commits) <= Newest(commits')
    /\ commitIds <= commitIds'
    /\ named => named'
    /\ Overlapped => Overlapped'

\* Numbers up to m are numbers up to n when m <= n.
LEMMA Within ==
    ASSUME NEW m \in Nat, NEW n \in Nat, m <= n
    PROVE  /\ \A i \in 0 .. m : i \in 0 .. n /\ (i # 0 => i \in 1 .. m)
           /\ \A i \in 1 .. m : i \in 1 .. n
    BY SMTT(30)

\* The indices of a sequence of models.
LEMMA HeapDomain ==
    ASSUME NEW s \in Seq(Order)
    PROVE  DOMAIN s = 1 .. Len(s)
    BY SMTT(30)

\* The order of natural numbers is transitive.
LEMMA Ordered ==
    ASSUME NEW i \in Nat, NEW m \in Nat, NEW n \in Nat, i <= m, m <= n
    PROVE  i <= n
    BY SMTT(30)

\* The order of natural numbers is reflexive.
LEMMA SelfOrder ==
    ASSUME NEW m \in Nat
    PROVE  m <= m
    BY SMTT(30)

\* What the types say of the models and of the commits.
LEMMA Lengths ==
    ASSUME ModelFields
    PROVE  /\ Len(heap) \in Nat /\ Len(commits) \in Nat /\ commitIds \in Nat
           /\ Newest(commits) \in Nat /\ Latest = Newest(commits)
           /\ DOMAIN heap = 1 .. Len(heap)
           /\ \A i \in 1 .. Len(commits) : commits[i] \in Nat
           /\ \A i \in 1 .. Len(heap) : heap[i] \in Order
           /\ commits # << >> => Len(commits) \in 1 .. Len(commits) /\ Newest(commits) = commits[Len(commits)]
<1>1. commits \in Seq(Nat) /\ heap \in Seq(Order) /\ commitIds \in 1 .. MaxCommits
    BY DEF ModelFields
<1>2. Len(heap) \in Nat /\ Len(commits) \in Nat /\ DOMAIN heap = 1 .. Len(heap)
    BY <1>1, SMTT(30)
<1>3. commitIds \in Nat
    BY <1>1, ModelAssumption, SMTT(30)
<1>4. /\ \A i \in 1 .. Len(commits) : commits[i] \in Nat
      /\ \A i \in 1 .. Len(heap) : heap[i] \in Order
      /\ commits # << >> => Len(commits) \in 1 .. Len(commits)
    BY <1>1, SMTT(30)
<1>5. Newest(commits) \in Nat
    <2>1. 0 \in Nat
        BY SMTT(30)
    <2> QED
        BY <1>4, <2>1 DEF Newest
<1>6. Latest = Newest(commits)
    BY DEF Latest, Newest
<1> QED
    BY <1>2, <1>3, <1>4, <1>5, <1>6 DEF Newest

\* What a request relies on survives the steps of the others.
LEMMA TaskStable ==
    ASSUME ModelFields, ModelFields', Grows, NEW r \in TaskState,
           TaskOK(r, heap, caches[Owner], commits, commitIds, named, Overlapped)
    PROVE  TaskOK(r, heap', caches'[Owner], commits', commitIds', named', Overlapped')
<1>1. Len(heap) \in Nat /\ Len(commits) \in Nat /\ commitIds \in Nat /\ Newest(commits) \in Nat
    BY Lengths
<1>2. Len(heap') \in Nat /\ Len(commits') \in Nat /\ commitIds' \in Nat /\ Newest(commits') \in Nat
    <2>1. commits' \in Seq(Nat) /\ heap' \in Seq(Order) /\ commitIds' \in 1 .. MaxCommits
        BY DEF ModelFields
    <2>2. Len(heap') \in Nat /\ Len(commits') \in Nat
        BY <2>1, SMTT(30)
    <2>3. commitIds' \in Nat
        BY <2>1, ModelAssumption, SMTT(30)
    <2>4. Newest(commits') \in Nat
        BY <2>1, SMTT(30) DEF Newest
    <2> QED
        BY <2>2, <2>3, <2>4
<1>3. r.commit \in Nat /\ r.floor \in Nat
    BY DEF TaskState
<1>4. OwnerOK(r, caches'[Owner])
    BY DEF TaskOK, OwnerOK, Grows
<1>5. CommitOK(r, commitIds')
    <2>1. r.commit <= commitIds => r.commit <= commitIds'
        BY <1>1, <1>2, <1>3, Ordered DEF Grows
    <2> QED
        BY <2>1 DEF TaskOK, CommitOK
<1>6. StageOK(r, Overlapped')
    BY DEF TaskOK, StageOK, Grows
<1>7. r.obj \in 0 .. Len(heap) /\ r.obj \in 0 .. Len(heap') /\ (r.obj # 0 => r.obj \in 1 .. Len(heap))
    <2>1. r.obj \in 0 .. Len(heap)
        BY DEF TaskOK, PointOK
    <2> QED
        BY <1>1, <1>2, <2>1, Within DEF Grows
<1>8. PointOK(r, heap')
    BY <1>7 DEF TaskOK, PointOK
<1>9. ASSUME r.kind = "load", ~named'
      PROVE  LoadOK(r, heap', commits', Overlapped')
    <2>1. LoadOK(r, heap, commits, Overlapped)
        BY <1>9 DEF TaskOK, Grows
    <2>2. r.floor <= Newest(commits) => r.floor <= Newest(commits')
        BY <1>1, <1>2, <1>3, Ordered DEF Grows
    <2>3. (\E i \in 1 .. Len(commits) : commits[i] = r.meta) =>
                \E i \in 1 .. Len(commits') : commits'[i] = r.meta
        <3>1. \A i \in 1 .. Len(commits) : i \in 1 .. Len(commits')
            BY <1>1, <1>2, Within DEF Grows
        <3> QED
            BY <3>1 DEF Grows
    <2>5. r.obj # 0 => heap'[r.obj].commit = heap[r.obj].commit
        BY <1>7, <1>9 DEF Grows
    <2>6. (r.obj # 0 /\ ~Overlapped' /\ Whole(heap[r.obj])) => Whole(heap'[r.obj])
        BY <1>7, <1>9 DEF Grows
    <2>7. (r.pc = "respond" /\ ~Overlapped') => Whole(heap'[r.obj])
        <3>1. r.pc = "respond" => r.obj # 0
            BY <1>9 DEF TaskOK, PointOK
        <3>2. (r.pc = "respond" /\ ~Overlapped') => Whole(heap[r.obj])
            BY <2>1 DEF LoadOK, Grows
        <3> QED
            BY <2>6, <3>1, <3>2
    <2>8. (r.pc = "ok" /\ ~Overlapped') => r.content = Kept(r.meta, Body(r.meta))
        BY <2>1 DEF LoadOK, Grows
    <2>9. (r.pc \in {"prepare", "fetch", "respond"} /\ r.obj # 0) => heap'[r.obj].commit = r.meta
        BY <2>1, <2>5 DEF LoadOK
    <2> QED
        BY <2>1, <2>2, <2>3, <2>7, <2>8, <2>9 DEF LoadOK
<1>10. KindOK(r)
    BY DEF TaskOK
<1> QED
    BY <1>4, <1>5, <1>6, <1>8, <1>9, <1>10 DEF TaskOK

\* One request moves on.
LEMMA OneRequest ==
    ASSUME ModelInv, NEW t \in Task, NEW r \in TaskState, Becomes(t, r),
           status' \in {"none", "live", "deleted"}, commits' \in Seq(Nat),
           order' \in Order \cup {Absent}, commitIds' \in 1 .. MaxCommits,
           caches' \in [Account -> Seq(Entry) \cup {Absent}], heap' \in Seq(Order),
           named' \in BOOLEAN, modelFaults' \in Nat,
           Grows, ModelsOK', ChainOK', \A a \in Account : CacheOK(caches'[a], heap', named'),
           TaskOK(r, heap', caches'[Owner], commits', commitIds', named', Overlapped')
    PROVE  ModelInv'
<1>1. task' = [task EXCEPT ![t] = r] /\ task \in [Task -> TaskState] /\ ModelFields
    BY DEF Becomes, ModelInv, ModelFields
<1>2. task' \in [Task -> TaskState] /\ task'[t] = r /\ \A s \in Task : s # t => task'[s] = task[s]
    BY <1>1
<1>3. ModelFields'
    BY <1>2 DEF ModelFields
<1>4. ASSUME NEW s \in Task
      PROVE  TaskOK(task'[s], heap', caches'[Owner], commits', commitIds', named', Overlapped')
    <2>1. CASE s = t
        BY <1>2, <2>1
    <2>2. CASE s # t
        <3>1. task'[s] = task[s] /\ task[s] \in TaskState
            BY <1>1, <1>2, <2>2
        <3>2. TaskOK(task[s], heap, caches[Owner], commits, commitIds, named, Overlapped)
            BY DEF ModelInv
        <3>3. TaskOK(task[s], heap', caches'[Owner], commits', commitIds', named', Overlapped')
            BY <1>1, <1>3, <3>1, <3>2, TaskStable
        <3> QED
            BY <3>1, <3>3
    <2> QED
        BY <2>1, <2>2
<1>5. \A s \in Task : TaskOK(task[s], heap, caches[Owner], commits, commitIds, named, Overlapped)'
    BY <1>4
<1>6. \A a \in Account : CacheOK(caches[a], heap, named)'
    OBVIOUS
<1> QED
    BY <1>3, <1>5, <1>6 DEF ModelInv

\* No request moves.
LEMMA NoRequest ==
    ASSUME ModelInv, ModelFields', Grows, ModelsOK', ChainOK', task' = task,
           \A a \in Account : CacheOK(caches'[a], heap', named')
    PROVE  ModelInv'
<1>1. task \in [Task -> TaskState] /\ ModelFields
    BY DEF ModelInv, ModelFields
<1>2. ASSUME NEW s \in Task
      PROVE  TaskOK(task'[s], heap', caches'[Owner], commits', commitIds', named', Overlapped')
    <2>1. task'[s] = task[s] /\ task[s] \in TaskState
        BY <1>1
    <2>2. TaskOK(task[s], heap, caches[Owner], commits, commitIds, named, Overlapped)
        BY DEF ModelInv
    <2>3. TaskOK(task[s], heap', caches'[Owner], commits', commitIds', named', Overlapped')
        BY <1>1, <2>1, <2>2, TaskStable
    <2> QED
        BY <2>1, <2>3
<1>3. \A s \in Task : TaskOK(task[s], heap, caches[Owner], commits, commitIds, named, Overlapped)'
    BY <1>2
<1>4. \A a \in Account : CacheOK(caches[a], heap, named)'
    OBVIOUS
<1> QED
    BY <1>3, <1>4 DEF ModelInv

\* One request moves on; the chain, the caches and the models stay as they are.
LEMMA PlainStep ==
    ASSUME ModelInv, NEW t \in Task, NEW r \in TaskState, Becomes(t, r),
           UNCHANGED <<uploadVars, chainVars, caches, heap>>,
           named' \in BOOLEAN, named => named', modelFaults' \in Nat,
           TaskOK(r, heap, caches[Owner], commits, commitIds, named', Overlapped)
    PROVE  ModelInv'
<1>1. /\ client' = client /\ status' = status /\ commits' = commits /\ order' = order
      /\ commitIds' = commitIds /\ caches' = caches /\ heap' = heap
    BY DEF uploadVars, chainVars
<1>2. Overlapped' <=> Overlapped
    BY <1>1 DEF Overlapped
<1>3. ModelFields
    BY DEF ModelInv
<1>4. Len(heap) \in Nat /\ Len(commits) \in Nat /\ commitIds \in Nat /\ Newest(commits) \in Nat
    BY <1>3, Lengths
<1>5. Grows
    BY <1>1, <1>2, <1>4, SelfOrder DEF Grows
<1>6. ModelsOK'
    BY <1>1, <1>2 DEF ModelInv, ModelsOK
<1>7. ChainOK'
    <2>1. Latest' = Latest
        BY <1>1 DEF Latest
    <2> QED
        BY <1>1, <1>2, <2>1 DEF ModelInv, ChainOK
<1>8. \A a \in Account : CacheOK(caches'[a], heap', named')
    BY <1>1 DEF ModelInv, CacheOK
<1>9. TaskOK(r, heap', caches'[Owner], commits', commitIds', named', Overlapped')
    <2>1. Overlapped' = Overlapped
        BY <1>2 DEF Overlapped
    <2> QED
        BY <1>1, <2>1
<1>10. /\ status' \in {"none", "live", "deleted"} /\ commits' \in Seq(Nat)
       /\ order' \in Order \cup {Absent} /\ commitIds' \in 1 .. MaxCommits
       /\ caches' \in [Account -> Seq(Entry) \cup {Absent}] /\ heap' \in Seq(Order)
    BY <1>1, <1>3 DEF ModelFields
<1> QED
    BY <1>5, <1>6, <1>7, <1>8, <1>9, <1>10, OneRequest

\* A request that failed, or panicked for another account.
LEMMA AtEnd ==
    ASSUME NEW r \in TaskState, NEW pc \in {"failed", "panicked"}, pc = "panicked" => r.account # Owner,
           NEW h, Len(h) \in Nat, NEW cache, NEW cs, NEW ids, NEW nm, NEW ov
    PROVE  At(r, pc) \in TaskState /\ TaskOK(At(r, pc), h, cache, cs, ids, nm, ov)
<1> DEFINE v == [NoTask EXCEPT !.pc = pc, !.account = r.account]
<1>1. At(r, pc) = v
    BY DEF At
<1>2. 0 \in Nat /\ 0 \in 0 .. Len(h)
    BY SMTT(30)
<1>3. r.account \in Account
    BY DEF TaskState
<1>4. v \in TaskState /\ v.pc = pc /\ v.kind = "none" /\ v.account = r.account /\ v.obj = 0
    BY <1>2, <1>3, NoBytes DEF NoTask, TaskState, TaskPc, Keyword
<1> HIDE DEF v
<1>5. KindOK(v) /\ OwnerOK(v, cache) /\ CommitOK(v, ids) /\ StageOK(v, ov) /\ PointOK(v, h)
    BY <1>2, <1>4 DEF KindOK, OwnerOK, CommitOK, StageOK, PointOK
<1> QED
    BY <1>1, <1>4, <1>5 DEF TaskOK

\* A request with these fields.
IsTask(v, pc, kind, account, keyword, commit, meta, obj, content, floor) ==
    /\ v \in TaskState
    /\ v.pc = pc /\ v.kind = kind /\ v.account = account /\ v.keyword = keyword
    /\ v.commit = commit /\ v.meta = meta /\ v.obj = obj /\ v.content = content
    /\ v.floor = floor

\* A request at one of its steps.
LEMMA AtFacts ==
    ASSUME NEW r \in TaskState, NEW pc \in TaskPc, pc \notin {"failed", "panicked"}
    PROVE  IsTask(At(r, pc), pc, r.kind, r.account, r.keyword, r.commit, r.meta, r.obj, r.content, r.floor)
<1> DEFINE v == [r EXCEPT !.pc = pc]
<1>1. At(r, pc) = v
    BY DEF At
<1>2. IsTask(v, pc, r.kind, r.account, r.keyword, r.commit, r.meta, r.obj, r.content, r.floor)
    BY DEF TaskState, IsTask
<1> QED
    BY <1>1, <1>2

\* What the invariant says of one request.
LEMMA TaskFacts ==
    ASSUME ModelInv, NEW t \in Task
    PROVE  /\ task[t] \in TaskState
           /\ TaskOK(task[t], heap, caches[Owner], commits, commitIds, named, Overlapped)
           /\ named \in BOOLEAN /\ modelFaults \in Nat
           /\ Len(heap) \in Nat
    BY Lengths DEF ModelInv, ModelFields

\* The faults counted stay a natural number.
LEMMA FaultsCount ==
    ASSUME ModelInv, ModelFault
    PROVE  modelFaults' \in Nat
    BY SMTT(30) DEF ModelInv, ModelFields, ModelFault

\* A request fails, or panics for another account; the rest stays as it is.
LEMMA FailStep ==
    ASSUME ModelInv, NEW t \in Task, Moves(t, "failed"),
           UNCHANGED <<uploadVars, chainVars, caches, heap, named>>, modelFaults' \in Nat
    PROVE  ModelInv'
<1> DEFINE r == At(task[t], "failed")
<1>1. task[t] \in TaskState /\ Len(heap) \in Nat /\ named \in BOOLEAN /\ named' = named
    BY TaskFacts
<1>2. r \in TaskState /\ TaskOK(r, heap, caches[Owner], commits, commitIds, named', Overlapped)
    BY <1>1, AtEnd
<1>3. Becomes(t, r) /\ UNCHANGED <<uploadVars, chainVars, caches, heap>>
    BY DEF Moves
<1>4. named' \in BOOLEAN
    BY <1>1
<1>5. named => named'
    BY <1>1, SMTT(30)
<1> HIDE DEF r
<1> QED
    BY <1>2, <1>3, <1>4, <1>5, PlainStep

\* A request that has not come in yet.
LEMMA NoTaskFacts ==
    NoTask \in TaskState
<1>1. 0 \in Nat
    BY SMTT(30)
<1> QED
    BY <1>1, NoBytes, ModelAssumption DEF NoTask, TaskState, TaskPc, Keyword

\* The contents of commits and of files.
LEMMA BodyFacts ==
    ASSUME NEW c \in Nat
    PROVE  Body(c) \in Bytes /\ Kept(c, Body(c)) \in Bytes
<1>1. FirstLength \in Nat
    BY ModelAssumption, UploadAssumption
<1>2. Content(FirstLength) \in Bytes
    BY <1>1, ContentFacts DEF Bytes
<1>3. <<0, c>> \in Bytes
    BY SMTT(30) DEF Bytes
<1>4. Body(c) \in Bytes
    BY <1>2, <1>3 DEF Body
<1> QED
    BY <1>4, NoBytes DEF Kept

\* A request that has come to an end other than that of a load.
LEMMA DoneTask ==
    ASSUME NEW kind \in {"create", "update", "delete"}, NEW h, Len(h) \in Nat,
           NEW cache, NEW cs, NEW ids, NEW nm, NEW ov
    PROVE  /\ [NoTask EXCEPT !.pc = "ok", !.kind = kind] \in TaskState
           /\ TaskOK([NoTask EXCEPT !.pc = "ok", !.kind = kind], h, cache, cs, ids, nm, ov)
<1> DEFINE v == [NoTask EXCEPT !.pc = "ok", !.kind = kind]
<1>1. 0 \in Nat /\ 0 \in 0 .. Len(h)
    BY SMTT(30)
<1>2. v \in TaskState /\ v.pc = "ok" /\ v.kind = kind /\ v.obj = 0
    BY <1>1, NoBytes, ModelAssumption DEF NoTask, TaskState, TaskPc, Keyword
<1> HIDE DEF v
<1>3. kind # "load"
    OBVIOUS
<1>4. TaskOK(v, h, cache, cs, ids, nm, ov)
    BY <1>1, <1>2, <1>3 DEF TaskOK, KindOK, OwnerOK, CommitOK, StageOK, PointOK
<1> QED
    BY <1>2, <1>4 DEF v

\* The models and the caches stay as they are.
LEMMA ChainMoves ==
    ASSUME ModelInv, UNCHANGED <<uploadVars, caches, heap>>, named => named', named' => named,
           Len(commits) <= Len(commits'), \A i \in 1 .. Len(commits) : commits'[i] = commits[i],
           Newest(commits) <= Newest(commits'), commitIds <= commitIds'
    PROVE  Grows /\ ModelsOK' /\ \A a \in Account : CacheOK(caches'[a], heap', named')
<1>1. client' = client /\ caches' = caches /\ heap' = heap
    BY DEF uploadVars
<1>2. Overlapped' <=> Overlapped
    BY <1>1 DEF Overlapped
<1>3. Len(heap) <= Len(heap')
    BY <1>1, Lengths, SelfOrder DEF ModelInv
<1>4. Grows
    BY <1>1, <1>2, <1>3 DEF Grows
<1>5. ModelsOK'
    BY <1>1, <1>2 DEF ModelInv, ModelsOK
<1>6. ASSUME NEW a \in Account
      PROVE  CacheOK(caches'[a], heap', named')
    <2>1. CacheOK(caches[a], heap, named) /\ caches'[a] = caches[a]
        BY <1>1 DEF ModelInv
    <2>2. ~named' => ~named
        OBVIOUS
    <2> QED
        BY <1>1, <2>1, <2>2 DEF CacheOK
<1> QED
    BY <1>4, <1>5, <1>6

-----------------------------------------------------------------------------
(* The steps of requests.                                                  *)

\* Steps that leave caches and models alone.
PlainSteps(t) ==
    \/ BeginRequest(t) \/ RequestFails(t) \/ QueryMeta(t) \/ Respond(t)
    \/ CreateQuery(t) \/ UpdateFetch(t) \/ Patch(t)

\* Requests begin, fail, and go on without a change of caches and models.
LEMMA PlainStepsInv ==
    \A t \in Task : UploadInv /\ ModelInv /\ PlainSteps(t) => ModelInv'

<1>RequestFailsInv.
    ASSUME ModelInv, NEW t \in Task, RequestFails(t)
    PROVE  ModelInv'
    <2> USE <1>RequestFailsInv
    <2>1. Moves(t, "failed") /\ UNCHANGED <<uploadVars, chainVars, caches, heap, named>> /\ ModelFault
        BY DEF RequestFails
    <2>2. modelFaults' \in Nat
        BY <2>1, FaultsCount
    <2> QED
        BY <2>1, <2>2, FailStep

<1>LoadTask.
    ASSUME NEW a \in Account, NEW k \in Keyword, NEW c \in Nat, NEW floor \in Nat
    PROVE  IsTask([NoTask EXCEPT !.pc = "query", !.kind = "load", !.account = a, !.keyword = k,
                                 !.commit = c, !.floor = floor],
                  "query", "load", a, k, c, 0, 0, << >>, floor)
    <2> USE <1>LoadTask
    <2>1. 0 \in Nat
        BY SMTT(30)
    <2> QED
        BY <2>1, NoBytes DEF NoTask, TaskState, TaskPc, IsTask

<1>ModelLoadInv.
    ASSUME ModelInv, NEW t \in Task, ModelLoad(t)
    PROVE  ModelInv'
    <2> USE <1>ModelLoadInv
    <2>1. PICK a \in Account, k \in Keyword, c \in 0 .. commitIds :
            /\ Request(t, [NoTask EXCEPT !.pc = "query", !.kind = "load", !.account = a,
                                !.keyword = k, !.commit = c, !.floor = Latest])
            /\ named' = (named \/ c # 0)
            /\ UNCHANGED chainVars
        BY DEF ModelLoad
    <2> DEFINE r == [NoTask EXCEPT !.pc = "query", !.kind = "load", !.account = a,
                                !.keyword = k, !.commit = c, !.floor = Latest]
    <2>2. commitIds \in Nat /\ Latest = Newest(commits) /\ Newest(commits) \in Nat /\ Len(heap) \in Nat
        BY Lengths DEF ModelInv
    <2>3. c \in Nat /\ Latest \in Nat
        BY <2>2, UpTo
    <2>4. IsTask(r, "query", "load", a, k, c, 0, 0, << >>, Latest)
        BY <2>3, <1>LoadTask
    <2>5. Becomes(t, r) /\ UNCHANGED <<uploadVars, chainVars, caches, heap>> /\ modelFaults' = modelFaults
        BY <2>1 DEF Request
    <2> HIDE DEF r
    <2>6. named' \in BOOLEAN /\ (named => named') /\ (~named' => c = 0)
        BY <2>1
    <2>7. modelFaults' \in Nat
        BY <2>5 DEF ModelInv, ModelFields
    <2>8. TaskOK(r, heap, caches[Owner], commits, commitIds, named', Overlapped)
        <3>1. 0 \in 0 .. Len(heap) /\ Latest <= Latest
            BY <2>2, <2>3, SMTT(30)
        <3>2. KindOK(r) /\ OwnerOK(r, caches[Owner]) /\ CommitOK(r, commitIds) /\ StageOK(r, Overlapped)
                /\ PointOK(r, heap)
            BY <2>4, <3>1 DEF IsTask, KindOK, OwnerOK, CommitOK, StageOK, PointOK
        <3>3. ~named' => LoadOK(r, heap, commits, Overlapped)
            BY <2>2, <2>4, <2>6, <3>1 DEF IsTask, LoadOK
        <3> QED
            BY <3>2, <3>3 DEF TaskOK
    <2>9. r \in TaskState
        BY <2>4 DEF IsTask
    <2> QED
        BY <2>5, <2>6, <2>7, <2>8, <2>9, PlainStep

<1>MetaFacts.
    ASSUME NEW r \in TaskState, NEW meta \in Nat
    PROVE  IsTask([r EXCEPT !.meta = meta],
                  r.pc, r.kind, r.account, r.keyword, r.commit, meta, r.obj, r.content, r.floor)
    BY <1>MetaFacts DEF TaskState, IsTask

<1>QueryMetaInv.
    ASSUME ModelInv, NEW t \in Task, QueryMeta(t)
    PROVE  ModelInv'
    <2> USE <1>QueryMetaInv
    <2> DEFINE r == task[t]
               w == [r EXCEPT !.meta = Latest]
               v == At(w, "lookup")
    <2>1. r.pc = "query" /\ UNCHANGED <<uploadVars, chainVars, caches, heap>> /\ named' = named
            /\ modelFaults' = modelFaults
            /\ Becomes(t, At(w, IF status = "live" THEN "lookup" ELSE "failed"))
        BY DEF QueryMeta
    <2>2. r \in TaskState /\ TaskOK(r, heap, caches[Owner], commits, commitIds, named, Overlapped)
            /\ named \in BOOLEAN /\ modelFaults \in Nat /\ Len(heap) \in Nat
        BY TaskFacts
    <2>3. Latest = Newest(commits) /\ Newest(commits) \in Nat
            /\ (commits # << >> => Len(commits) \in 1 .. Len(commits) /\ Newest(commits) = commits[Len(commits)])
        BY Lengths DEF ModelInv
    <2> HIDE DEF r
    <2>4. IsTask(w, r.pc, r.kind, r.account, r.keyword, r.commit, Latest, r.obj, r.content, r.floor)
        BY <2>2, <2>3, <1>MetaFacts
    <2> HIDE DEF w
    <2>5. w \in TaskState
        BY <2>4 DEF IsTask
    <2>6. CASE status # "live"
        <3>1. Becomes(t, At(w, "failed"))
            BY <2>1, <2>6
        <3>2. At(w, "failed") \in TaskState
                /\ TaskOK(At(w, "failed"), heap, caches[Owner], commits, commitIds, named', Overlapped)
            BY <2>2, <2>5, AtEnd
        <3> QED
            BY <2>1, <2>2, <3>1, <3>2, PlainStep
    <2>7. CASE status = "live"
        <3>1. Becomes(t, v)
            BY <2>1, <2>7
        <3>2. IsTask(v, "lookup", w.kind, w.account, w.keyword, w.commit, w.meta, w.obj, w.content, w.floor)
            <4>1. "lookup" \in TaskPc /\ "lookup" \notin {"failed", "panicked"}
                BY DEF TaskPc
            <4> QED
                BY <2>5, <4>1, AtFacts
        <3> HIDE DEF v
        <3>3. /\ v \in TaskState /\ v.pc = "lookup" /\ v.kind = r.kind /\ v.account = r.account
              /\ v.commit = r.commit /\ v.meta = Latest /\ v.obj = r.obj /\ v.floor = r.floor
            BY <2>4, <3>2 DEF IsTask
        <3>4. KindOK(v) /\ OwnerOK(v, caches[Owner]) /\ CommitOK(v, commitIds) /\ StageOK(v, Overlapped)
                /\ PointOK(v, heap)
            BY <2>1, <2>2, <3>3 DEF TaskOK, KindOK, OwnerOK, CommitOK, StageOK, PointOK
        <3>5. ASSUME v.kind = "load", ~named
              PROVE  LoadOK(v, heap, commits, Overlapped)
            <4>1. LoadOK(r, heap, commits, Overlapped)
                BY <2>2, <3>3, <3>5 DEF TaskOK
            <4>2. commits # << >>
                BY <2>7 DEF ModelInv, ChainOK
            <4>3. \E i \in 1 .. Len(commits) : commits[i] = Latest
                BY <2>3, <4>2
            <4>4. r.floor <= Latest
                BY <2>1, <2>3, <4>1 DEF LoadOK
            <4> QED
                BY <3>3, <4>1, <4>3, <4>4 DEF LoadOK
        <3>6. TaskOK(v, heap, caches[Owner], commits, commitIds, named', Overlapped)
            BY <2>1, <3>4, <3>5 DEF TaskOK
        <3> QED
            BY <2>1, <2>2, <3>1, <3>3, <3>6, PlainStep
    <2> QED
        BY <2>6, <2>7

<1>AnswerTask.
    ASSUME NEW floor \in Nat, NEW m \in Order
    PROVE  IsTask([NoTask EXCEPT !.pc = "ok", !.kind = "load", !.floor = floor,
                                 !.meta = m.commit, !.content = m.content],
                  "ok", "load", Owner, "dataId", 0, m.commit, 0, m.content, floor)
    <2> USE <1>AnswerTask
    <2>1. 0 \in Nat
        BY SMTT(30)
    <2> QED
        BY <2>1, ModelAssumption DEF NoTask, TaskState, TaskPc, Keyword, Order, IsTask

<1>RespondInv.
    ASSUME ModelInv, NEW t \in Task, Respond(t)
    PROVE  ModelInv'
    <2> USE <1>RespondInv
    <2> DEFINE r == task[t]
               m == heap[r.obj]
               v == [NoTask EXCEPT !.pc = "ok", !.kind = "load", !.floor = r.floor,
                                   !.meta = m.commit, !.content = m.content]
    <2>1. r.pc = "respond" /\ UNCHANGED <<uploadVars, chainVars, caches, heap>> /\ named' = named
            /\ modelFaults' = modelFaults /\ Becomes(t, v)
        BY DEF Respond
    <2>2. r \in TaskState /\ TaskOK(r, heap, caches[Owner], commits, commitIds, named, Overlapped)
            /\ named \in BOOLEAN /\ modelFaults \in Nat /\ Len(heap) \in Nat
        BY TaskFacts
    <2>3. r.kind = "load" /\ r.obj # 0 /\ r.obj \in 0 .. Len(heap) /\ r.floor \in Nat
        BY <2>1, <2>2 DEF TaskOK, KindOK, PointOK, TaskState
    <2>4. m \in Order
        <3>1. r.obj \in 1 .. Len(heap)
            BY <2>2, <2>3, SelfOrder, Within
        <3> QED
            BY <3>1, Lengths DEF ModelInv
    <2> HIDE DEF r, m
    <2>5. IsTask(v, "ok", "load", Owner, "dataId", 0, m.commit, 0, m.content, r.floor)
        BY <2>3, <2>4, <1>AnswerTask
    <2> HIDE DEF v
    <2>6. TaskOK(v, heap, caches[Owner], commits, commitIds, named', Overlapped)
        <3>1. 0 \in 0 .. Len(heap)
            BY <2>2, SMTT(30)
        <3>2. KindOK(v) /\ OwnerOK(v, caches[Owner]) /\ CommitOK(v, commitIds) /\ StageOK(v, Overlapped)
                /\ PointOK(v, heap)
            BY <2>5, <3>1 DEF IsTask, KindOK, OwnerOK, CommitOK, StageOK, PointOK
        <3>3. ASSUME ~named
              PROVE  LoadOK(v, heap, commits, Overlapped)
            <4>1. LoadOK(r, heap, commits, Overlapped)
                BY <2>2, <2>3, <3>3 DEF TaskOK
            <4>2. m.commit = r.meta
                BY <2>1, <2>3, <4>1 DEF LoadOK, m
            <4>3. ~Overlapped => m.content = Kept(m.commit, Body(m.commit))
                BY <2>1, <4>1 DEF LoadOK, Whole, m
            <4>4. (\E i \in 1 .. Len(commits) : commits[i] = r.meta) /\ r.floor <= r.meta
                BY <2>1, <4>1 DEF LoadOK
            <4> QED
                BY <2>5, <4>2, <4>3, <4>4 DEF IsTask, LoadOK
        <3> QED
            BY <2>1, <3>2, <3>3 DEF TaskOK
    <2>7. v \in TaskState
        BY <2>5 DEF IsTask
    <2> QED
        BY <2>1, <2>2, <2>6, <2>7, PlainStep

<1>UploadedFacts.
    ASSUME UploadInv
    PROVE  UploadedFile(FirstLength) # Absent =>
               /\ UploadedFile(FirstLength) \in Bytes
               /\ ~Overlapped => UploadedFile(FirstLength) \in {<< >>, Body(1)}
    <2> USE <1>UploadedFacts
    <2> DEFINE n == FirstLength
               d == <<record[n].path, n>>
               x == Content(n)
    <2> SUFFICES ASSUME UploadedFile(n) # Absent
                 PROVE  UploadedFile(n) \in Bytes /\ (~Overlapped => UploadedFile(n) \in {<< >>, Body(1)})
        OBVIOUS
    <2>1. n \in Length
        BY ModelAssumption
    <2>2. record[n] # Absent /\ UploadedFile(n) = FileAt(record[n].path, n, x)
        BY DEF UploadedFile
    <2>3. record[n].path \in Peer
        BY <2>1, <2>2 DEF UploadInv, UploadFields, ReceivedFileInfo
    <2>4. d \in Peer \X Length
        BY <2>1, <2>3
    <2>5. x \in DOMAIN staged[d] /\ UploadedFile(n) = staged[d][x]
        BY <2>2 DEF FileAt
    <2>6. IsFiles(staged[d])
        BY <2>4 DEF UploadInv, UploadFields
    <2>7. ~Overlapped => staged[d][x] \in {<< >>, x}
        BY <2>4, <2>5 DEF UploadInv, FilesOK
    <2>8. x = Body(1)
        BY DEF Body
    <2> HIDE DEF d, x
    <2> QED
        BY <2>5, <2>6, <2>7, <2>8 DEF IsFiles

<1>CreateTask.
    ASSUME NEW content \in Bytes
    PROVE  IsTask([NoTask EXCEPT !.pc = "exists", !.kind = "create", !.commit = 1, !.content = content],
                  "exists", "create", Owner, "dataId", 1, 0, 0, content, 0)
    <2> USE <1>CreateTask
    <2>1. 0 \in Nat /\ 1 \in Nat
        BY SMTT(30)
    <2> QED
        BY <2>1, ModelAssumption DEF NoTask, TaskState, TaskPc, Keyword, IsTask

<1>CreateBegins.
    ASSUME ModelInv, NEW t \in Task, NEW content \in Bytes,
           ~Overlapped => content \in {<< >>, Body(1)},
           Request(t, [NoTask EXCEPT !.pc = "exists", !.kind = "create", !.commit = 1,
                            !.content = content]),
           UNCHANGED <<chainVars, named>>
    PROVE  ModelInv'
    <2> USE <1>CreateBegins
    <2> DEFINE v == [NoTask EXCEPT !.pc = "exists", !.kind = "create", !.commit = 1, !.content = content]
    <2>1. Becomes(t, v) /\ UNCHANGED <<uploadVars, chainVars, caches, heap>> /\ named' = named
            /\ modelFaults' = modelFaults
        BY DEF Request
    <2>2. named \in BOOLEAN /\ modelFaults \in Nat /\ Len(heap) \in Nat
        BY TaskFacts
    <2>3. IsTask(v, "exists", "create", Owner, "dataId", 1, 0, 0, content, 0)
        BY <1>CreateTask
    <2> HIDE DEF v
    <2>4. 0 \in 0 .. Len(heap)
        BY <2>2, SMTT(30)
    <2>5. TaskOK(v, heap, caches[Owner], commits, commitIds, named', Overlapped)
        BY <2>3, <2>4 DEF IsTask, TaskOK, KindOK, OwnerOK, CommitOK, StageOK, PointOK
    <2>6. v \in TaskState
        BY <2>3 DEF IsTask
    <2>7. named' \in BOOLEAN /\ modelFaults' \in Nat
        BY <2>1, <2>2
    <2>8. named => named'
        BY <2>1, SMTT(30)
    <2>9. Becomes(t, v) /\ UNCHANGED <<uploadVars, chainVars, caches, heap>>
        BY <2>1
    <2> QED
        BY <2>5, <2>6, <2>7, <2>8, <2>9, PlainStep

<1>ModelCreateInv.
    ASSUME ModelInv, NEW t \in Task, ModelCreate(t)
    PROVE  ModelInv'
    <2> USE <1>ModelCreateInv
    <2>1. Body(1) \in Bytes
        <3>1. 1 \in Nat
            BY SMTT(30)
        <3> QED
            BY <3>1, BodyFacts
    <2>2. Request(t, [NoTask EXCEPT !.pc = "exists", !.kind = "create", !.commit = 1,
                            !.content = Body(1)])
            /\ UNCHANGED <<chainVars, named>>
        BY DEF ModelCreate
    <2>3. ~Overlapped => Body(1) \in {<< >>, Body(1)}
        OBVIOUS
    <2> QED
        BY <2>1, <2>2, <2>3, <1>CreateBegins

<1>ModelCreateFileInv.
    ASSUME UploadInv, ModelInv, NEW t \in Task, ModelCreateFile(t)
    PROVE  ModelInv'
    <2> USE <1>ModelCreateFileInv
    <2> DEFINE file == UploadedFile(FirstLength)
    <2>1. CASE file = Absent
        <3> DEFINE v == At(NoTask, "failed")
        <3>1. Request(t, v) /\ UNCHANGED <<chainVars, named>>
            BY <2>1 DEF ModelCreateFile
        <3>2. Becomes(t, v) /\ UNCHANGED <<uploadVars, chainVars, caches, heap>> /\ named' = named
                /\ modelFaults' = modelFaults
            BY <3>1 DEF Request
        <3>3. named \in BOOLEAN /\ modelFaults \in Nat /\ Len(heap) \in Nat
            BY TaskFacts
        <3>4. v \in TaskState /\ TaskOK(v, heap, caches[Owner], commits, commitIds, named', Overlapped)
            BY <3>3, NoTaskFacts, AtEnd
        <3> HIDE DEF v
        <3> QED
            BY <3>2, <3>3, <3>4, PlainStep
    <2>2. CASE file # Absent
        <3>1. Request(t, [NoTask EXCEPT !.pc = "exists", !.kind = "create", !.commit = 1,
                            !.content = file])
                /\ UNCHANGED <<chainVars, named>>
            BY <2>2 DEF ModelCreateFile
        <3>2. file \in Bytes /\ (~Overlapped => file \in {<< >>, Body(1)})
            BY <2>2, <1>UploadedFacts
        <3> HIDE DEF file
        <3> QED
            BY <3>1, <3>2, <1>CreateBegins
    <2> QED
        BY <2>1, <2>2

\* The request goes on to its commit, or fails.
<1>CreateQueryInv.
    ASSUME ModelInv, NEW t \in Task, CreateQuery(t)
    PROVE  ModelInv'
    <2> USE <1>CreateQueryInv
    <2> DEFINE r == task[t]
               v == At(r, "commit")
    <2>1. r.pc = "conflict" /\ UNCHANGED <<uploadVars, chainVars, caches, heap>> /\ named' = named
        BY DEF CreateQuery
    <2>2. r \in TaskState /\ TaskOK(r, heap, caches[Owner], commits, commitIds, named, Overlapped)
            /\ named \in BOOLEAN /\ modelFaults \in Nat
        BY TaskFacts
    <2>3. modelFaults' \in Nat
        BY <2>2, FaultsCount DEF CreateQuery
    <2>4. Moves(t, "failed") \/ (Moves(t, "commit") /\ r.content # << >>)
        BY DEF CreateQuery
    <2>5. CASE Moves(t, "failed")
        <3>1. UNCHANGED <<uploadVars, chainVars, caches, heap, named>>
            BY <2>1
        <3> QED
            BY <2>3, <2>5, <3>1, FailStep
    <2>6. CASE Moves(t, "commit") /\ r.content # << >>
        <3>1. Becomes(t, v)
            BY <2>6 DEF Moves
        <3> HIDE DEF r
        <3>2. IsTask(v, "commit", r.kind, r.account, r.keyword, r.commit, r.meta, r.obj, r.content, r.floor)
            <4>1. "commit" \in TaskPc /\ "commit" \notin {"failed", "panicked"}
                BY DEF TaskPc
            <4> QED
                BY <2>2, <4>1, AtFacts
        <3> HIDE DEF v
        <3>3. r.kind = "create" /\ r.commit = 1 /\ caches[Owner] # Absent
                /\ (~Overlapped => r.content = Body(1)) /\ r.obj \in 0 .. Len(heap)
            BY <2>1, <2>2, <2>6 DEF TaskOK, KindOK, CommitOK, OwnerOK, StageOK, PointOK
        <3>4. TaskOK(v, heap, caches[Owner], commits, commitIds, named', Overlapped)
            BY <3>2, <3>3 DEF IsTask, TaskOK, KindOK, OwnerOK, CommitOK, StageOK, PointOK
        <3>5. v \in TaskState
            BY <3>2 DEF IsTask
        <3> QED
            BY <2>1, <2>2, <2>3, <3>1, <3>4, <3>5, PlainStep
    <2> QED
        BY <2>4, <2>5, <2>6

<1>FetchedFacts.
    ASSUME NEW r \in TaskState, NEW content \in Bytes
    PROVE  IsTask([r EXCEPT !.content = content, !.pc = "patch"],
                  "patch", r.kind, r.account, r.keyword, r.commit, r.meta, r.obj, content, r.floor)
    BY <1>FetchedFacts DEF TaskState, TaskPc, IsTask

<1>UpdateFetchInv.
    ASSUME ModelInv, NEW t \in Task, UpdateFetch(t)
    PROVE  ModelInv'
    <2> USE <1>UpdateFetchInv
    <2> DEFINE r == task[t]
               b == Body(r.meta)
               v == [r EXCEPT !.content = b, !.pc = "patch"]
    <2>1. r.pc = "fetch" /\ r.kind = "update" /\ UNCHANGED <<uploadVars, chainVars, caches, heap>>
            /\ named' = named /\ modelFaults' = modelFaults
        BY DEF UpdateFetch
    <2>2. Becomes(t, v)
        BY DEF UpdateFetch, Becomes
    <2>3. r \in TaskState /\ TaskOK(r, heap, caches[Owner], commits, commitIds, named, Overlapped)
            /\ named \in BOOLEAN /\ modelFaults \in Nat
        BY TaskFacts
    <2>4. b \in Bytes
        BY <2>3, BodyFacts DEF TaskState
    <2> HIDE DEF r, b
    <2>5. IsTask(v, "patch", r.kind, r.account, r.keyword, r.commit, r.meta, r.obj, b, r.floor)
        BY <2>3, <2>4, <1>FetchedFacts
    <2> HIDE DEF v
    <2>6. TaskOK(v, heap, caches[Owner], commits, commitIds, named', Overlapped)
        BY <2>1, <2>3, <2>5 DEF IsTask, TaskOK, KindOK, OwnerOK, CommitOK, StageOK, PointOK
    <2>7. v \in TaskState
        BY <2>5 DEF IsTask
    <2> QED
        BY <2>1, <2>2, <2>3, <2>6, <2>7, PlainStep

<1>PatchedFacts.
    ASSUME NEW r \in TaskState, NEW content \in Bytes
    PROVE  IsTask([r EXCEPT !.content = content, !.obj = 0],
                  r.pc, r.kind, r.account, r.keyword, r.commit, r.meta, 0, content, r.floor)
    <2> USE <1>PatchedFacts
    <2>1. 0 \in Nat
        BY SMTT(30)
    <2> QED
        BY <2>1 DEF TaskState, IsTask

<1>PatchInv.
    ASSUME ModelInv, NEW t \in Task, Patch(t)
    PROVE  ModelInv'
    <2> USE <1>PatchInv
    <2> DEFINE r == task[t]
               base == IF r.obj = 0 THEN r.content ELSE heap[r.obj].content
               new == ApplyPatch(base, r.floor, r.commit)
               w == [r EXCEPT !.content = new, !.obj = 0]
               v == At(w, "commit")
    <2>1. r.pc = "patch" /\ UNCHANGED <<uploadVars, chainVars, caches, heap>>
            /\ named' = named /\ modelFaults' = modelFaults
            /\ Becomes(t, At(w, IF new = Body(r.commit) THEN "commit" ELSE "failed"))
        BY DEF Patch
    <2>2. r \in TaskState /\ TaskOK(r, heap, caches[Owner], commits, commitIds, named, Overlapped)
            /\ named \in BOOLEAN /\ modelFaults \in Nat /\ Len(heap) \in Nat
        BY TaskFacts
    <2>3. new \in Bytes
        <3>1. <<0, 0>> \in Bytes
            BY SMTT(30) DEF Bytes
        <3>2. Body(r.commit) \in Bytes
            BY <2>2, BodyFacts DEF TaskState
        <3> HIDE DEF r
        <3> QED
            BY <3>1, <3>2 DEF ApplyPatch
    <2> HIDE DEF r, new
    <2>4. IsTask(w, r.pc, r.kind, r.account, r.keyword, r.commit, r.meta, 0, new, r.floor)
        BY <2>2, <2>3, <1>PatchedFacts
    <2> HIDE DEF w
    <2>5. w \in TaskState
        BY <2>4 DEF IsTask
    <2>6. CASE new # Body(r.commit)
        <3>1. Becomes(t, At(w, "failed"))
            BY <2>1, <2>6
        <3>2. At(w, "failed") \in TaskState
                /\ TaskOK(At(w, "failed"), heap, caches[Owner], commits, commitIds, named', Overlapped)
            BY <2>2, <2>5, AtEnd
        <3> QED
            BY <2>1, <2>2, <3>1, <3>2, PlainStep
    <2>7. CASE new = Body(r.commit)
        <3>1. Becomes(t, v)
            BY <2>1, <2>7
        <3>2. IsTask(v, "commit", w.kind, w.account, w.keyword, w.commit, w.meta, w.obj, w.content, w.floor)
            <4>1. "commit" \in TaskPc /\ "commit" \notin {"failed", "panicked"}
                BY DEF TaskPc
            <4> QED
                BY <2>5, <4>1, AtFacts
        <3> HIDE DEF v
        <3>3. /\ v \in TaskState /\ v.pc = "commit" /\ v.kind = r.kind /\ v.commit = r.commit
              /\ v.obj = 0 /\ v.content = Body(v.commit) /\ v.floor = r.floor
            BY <2>4, <2>7, <3>2 DEF IsTask
        <3>4. r.kind = "update"
            BY <2>1, <2>2 DEF TaskOK, KindOK
        <3>5. 0 \in 0 .. Len(heap)
            BY <2>2, SMTT(30)
        <3>6. TaskOK(v, heap, caches[Owner], commits, commitIds, named', Overlapped)
            BY <2>1, <2>2, <3>3, <3>4, <3>5 DEF TaskOK, KindOK, OwnerOK, CommitOK, StageOK, PointOK
        <3> QED
            BY <2>1, <2>2, <3>1, <3>3, <3>6, PlainStep
    <2> QED
        BY <2>6, <2>7

<1>ModelDeleteInv.
    ASSUME ModelInv, NEW t \in Task, ModelDelete(t)
    PROVE  ModelInv'
    <2> USE <1>ModelDeleteInv
    <2> DEFINE v == [NoTask EXCEPT !.pc = "ok", !.kind = "delete"]
    <2>1. /\ Request(t, v) /\ status' = "deleted" /\ order' = Absent
          /\ commits' = commits /\ commitIds' = commitIds /\ named' = named
        BY DEF ModelDelete
    <2>2. /\ Becomes(t, v) /\ UNCHANGED <<uploadVars, caches, heap>> /\ caches' = caches /\ heap' = heap
          /\ modelFaults' = modelFaults
        BY <2>1 DEF Request
    <2>3. (named => named') /\ (named' => named)
        BY <2>1, SMTT(30)
    <2>4. Len(heap) \in Nat /\ Len(commits) \in Nat /\ commitIds \in Nat /\ Newest(commits) \in Nat
        BY Lengths DEF ModelInv
    <2>5. v \in TaskState /\ TaskOK(v, heap', caches'[Owner], commits', commitIds', named', Overlapped')
        <3>1. "delete" \in {"create", "update", "delete"} /\ Len(heap') \in Nat
            BY <2>2, <2>4
        <3> QED
            BY <3>1, DoneTask
    <2> HIDE DEF v
    <2>6. /\ Len(commits) <= Len(commits') /\ \A i \in 1 .. Len(commits) : commits'[i] = commits[i]
          /\ Newest(commits) <= Newest(commits') /\ commitIds <= commitIds'
        BY <2>1, <2>4, SelfOrder
    <2>7. Grows /\ ModelsOK' /\ \A a \in Account : CacheOK(caches'[a], heap', named')
        BY <2>2, <2>3, <2>6, ChainMoves
    <2>8. ChainOK'
        BY <2>1 DEF ModelInv, ChainOK
    <2>9. /\ status' \in {"none", "live", "deleted"} /\ commits' \in Seq(Nat)
          /\ order' \in Order \cup {Absent} /\ commitIds' \in 1 .. MaxCommits
          /\ caches' \in [Account -> Seq(Entry) \cup {Absent}] /\ heap' \in Seq(Order)
          /\ named' \in BOOLEAN /\ modelFaults' \in Nat
        BY <2>1, <2>2 DEF ModelInv, ModelFields
    <2> QED
        BY <2>2, <2>5, <2>7, <2>8, <2>9, OneRequest

<1>UpdateTask.
    ASSUME NEW c \in Nat, NEW floor \in Nat
    PROVE  IsTask([NoTask EXCEPT !.pc = "query", !.kind = "update", !.commit = c, !.floor = floor],
                  "query", "update", Owner, "dataId", c, 0, 0, << >>, floor)
    <2> USE <1>UpdateTask
    <2>1. 0 \in Nat
        BY SMTT(30)
    <2> QED
        BY <2>1, NoBytes, ModelAssumption DEF NoTask, TaskState, TaskPc, Keyword, IsTask

<1>ModelUpdateInv.
    ASSUME ModelInv, NEW t \in Task, ModelUpdate(t)
    PROVE  ModelInv'
    <2> USE <1>ModelUpdateInv
    <2>1. PICK last \in Range(commits) :
            /\ commitIds < MaxCommits
            /\ commitIds' = commitIds + 1
            /\ Request(t, [NoTask EXCEPT !.pc = "query", !.kind = "update", !.commit = commitIds + 1,
                                !.floor = last])
            /\ UNCHANGED <<status, commits, order, named>>
        BY DEF ModelUpdate
    <2> DEFINE c == commitIds + 1
               v == [NoTask EXCEPT !.pc = "query", !.kind = "update", !.commit = c, !.floor = last]
    <2>2. /\ Becomes(t, v) /\ UNCHANGED <<uploadVars, caches, heap>> /\ caches' = caches /\ heap' = heap
          /\ modelFaults' = modelFaults /\ status' = status /\ commits' = commits /\ order' = order
          /\ named' = named /\ commitIds' = c
        BY <2>1 DEF Request
    <2>3. (named => named') /\ (named' => named)
        BY <2>2, SMTT(30)
    <2>4. Len(heap) \in Nat /\ Len(commits) \in Nat /\ commitIds \in Nat /\ Newest(commits) \in Nat
        BY Lengths DEF ModelInv
    <2>5. last \in 1 .. commitIds
        <3>1. DOMAIN commits = 1 .. Len(commits)
            BY SMTT(30) DEF ModelInv, ModelFields
        <3>2. \E i \in 1 .. Len(commits) : last = commits[i]
            BY <2>1, <3>1 DEF Range
        <3> QED
            BY <3>2 DEF ModelInv, ChainOK
    <2>6. c \in 1 .. MaxCommits /\ c \in Nat /\ last \in Nat /\ last < c /\ c <= c /\ commitIds <= c
            /\ \A i \in 1 .. commitIds : i \in 1 .. c
        BY <2>1, <2>4, <2>5, ModelAssumption, SMTT(30)
    <2> HIDE DEF c
    <2>7. IsTask(v, "query", "update", Owner, "dataId", c, 0, 0, << >>, last)
        BY <2>6, <1>UpdateTask
    <2> HIDE DEF v
    <2>8. TaskOK(v, heap', caches'[Owner], commits', commitIds', named', Overlapped')
        <3>1. 0 \in 0 .. Len(heap')
            BY <2>2, <2>4, SMTT(30)
        <3> QED
            BY <2>2, <2>6, <2>7, <3>1 DEF IsTask, TaskOK, KindOK, OwnerOK, CommitOK, StageOK, PointOK
    <2>9. /\ Len(commits) <= Len(commits') /\ \A i \in 1 .. Len(commits) : commits'[i] = commits[i]
          /\ Newest(commits) <= Newest(commits') /\ commitIds <= commitIds'
        BY <2>2, <2>4, <2>6, SelfOrder
    <2>10. Grows /\ ModelsOK' /\ \A a \in Account : CacheOK(caches'[a], heap', named')
        BY <2>2, <2>3, <2>9, ChainMoves
    <2>11. ChainOK'
        <3>1. Latest' = Latest
            BY <2>2 DEF Latest
        <3>2. Overlapped' <=> Overlapped
            BY <2>2 DEF Overlapped, uploadVars
        <3> QED
            BY <2>2, <2>6, <3>1, <3>2 DEF ModelInv, ChainOK
    <2>12. /\ status' \in {"none", "live", "deleted"} /\ commits' \in Seq(Nat)
           /\ order' \in Order \cup {Absent} /\ commitIds' \in 1 .. MaxCommits
           /\ caches' \in [Account -> Seq(Entry) \cup {Absent}] /\ heap' \in Seq(Order)
           /\ named' \in BOOLEAN /\ modelFaults' \in Nat
        BY <2>2, <2>6 DEF ModelInv, ModelFields
    <2>13. v \in TaskState
        BY <2>7 DEF IsTask
    <2> QED
        BY <2>2, <2>8, <2>10, <2>11, <2>12, <2>13, OneRequest

<1> QED
    <2> SUFFICES ASSUME NEW t \in Task, UploadInv, ModelInv, PlainSteps(t)
                 PROVE  ModelInv'
        OBVIOUS
    <2>1. CASE BeginRequest(t)
        BY <2>1, <1>ModelLoadInv, <1>ModelCreateInv, <1>ModelCreateFileInv, <1>ModelUpdateInv,
           <1>ModelDeleteInv DEF BeginRequest
    <2>2. CASE ~BeginRequest(t)
        BY <2>2, <1>RequestFailsInv, <1>QueryMetaInv, <1>RespondInv, <1>CreateQueryInv,
           <1>UpdateFetchInv, <1>PatchInv DEF PlainSteps
    <2> QED
        BY <2>1, <2>2

\* The order of the chain completes or expires.
LEMMA ChainStepsInv ==
    ModelInv /\ (OrderCompletes \/ OrderExpires) => ModelInv'

<1>OrderExpiresInv.
    ASSUME ModelInv, OrderExpires
    PROVE  ModelInv'
    <2> USE <1>OrderExpiresInv
    <2>1. /\ order' = Absent /\ status' = status /\ commits' = commits /\ commitIds' = commitIds
          /\ UNCHANGED <<uploadVars, caches, heap>> /\ caches' = caches /\ heap' = heap /\ task' = task
          /\ named' = named /\ modelFaults' = modelFaults
        BY DEF OrderExpires
    <2>2. (named => named') /\ (named' => named)
        BY <2>1, SMTT(30)
    <2>3. ModelFields'
        BY <2>1 DEF ModelInv, ModelFields
    <2>4. Len(commits) \in Nat /\ commitIds \in Nat /\ Newest(commits) \in Nat
        BY Lengths DEF ModelInv
    <2>5. /\ Len(commits) <= Len(commits') /\ \A i \in 1 .. Len(commits) : commits'[i] = commits[i]
          /\ Newest(commits) <= Newest(commits') /\ commitIds <= commitIds'
        BY <2>1, <2>4, SelfOrder
    <2>6. Grows /\ ModelsOK' /\ \A a \in Account : CacheOK(caches'[a], heap', named')
        BY <2>1, <2>2, <2>5, ChainMoves
    <2>7. ChainOK'
        BY <2>1 DEF ModelInv, ChainOK
    <2> QED
        BY <2>1, <2>3, <2>6, <2>7, NoRequest

<1>AddsCommit.
    ASSUME NEW cs \in Seq(Nat), NEW c \in Nat, NEW new, Longer(new, cs, c, Nat)
    PROVE  /\ new \in Seq(Nat) /\ new # << >> /\ Newest(new) = c
           /\ Len(cs) <= Len(new)
           /\ \A i \in 1 .. Len(cs) : new[i] = cs[i]
           /\ \A i \in 1 .. Len(new) : i \in 1 .. Len(cs) \/ new[i] = c
    <2> USE <1>AddsCommit
    <2>1. new \in Seq(Nat) /\ Len(cs) \in Nat /\ Len(new) = Len(cs) + 1 /\ new[Len(new)] = c
            /\ (\A i \in 1 .. Len(cs) : new[i] = cs[i])
            /\ \A i \in 1 .. Len(new) : i \in 1 .. Len(cs) \/ new[i] = c
        BY DEF Longer
    <2>2. Len(cs) <= Len(cs) + 1 /\ Len(cs) + 1 # 0
        BY <2>1, SMTT(30)
    <2>3. new # << >>
        <3>1. Len(<< >>) = 0
            BY SMTT(30)
        <3> QED
            BY <2>1, <2>2, <3>1
    <2> QED
        BY <2>1, <2>2, <2>3 DEF Newest

<1>OrderCompletesInv.
    ASSUME ModelInv, OrderCompletes
    PROVE  ModelInv'
    <2> USE <1>OrderCompletesInv
    <2> DEFINE c == order.commit
    <2>1. /\ order # Absent /\ order' = Absent /\ status' = "live" /\ commits' = Append(commits, c)
          /\ commitIds' = commitIds
          /\ UNCHANGED <<uploadVars, caches, heap>> /\ caches' = caches /\ heap' = heap /\ task' = task
          /\ named' = named /\ modelFaults' = modelFaults
        BY DEF OrderCompletes
    <2>2. (named => named') /\ (named' => named)
        BY <2>1, SMTT(30)
    <2>3. c \in 1 .. commitIds /\ c > Latest /\ \A i \in 1 .. Len(commits) : commits[i] \in 1 .. commitIds
        BY <2>1 DEF ModelInv, ChainOK
    <2>4. commits \in Seq(Nat) /\ Len(commits) \in Nat /\ commitIds \in Nat /\ Newest(commits) \in Nat
            /\ Latest = Newest(commits)
        BY Lengths DEF ModelInv, ModelFields
    <2>5. c \in Nat /\ Newest(commits) <= c
        BY <2>3, <2>4, SMTT(30)
    <2> HIDE DEF c
    <2>6. Longer(commits', commits, c, Nat)
        BY <2>1, <2>4, <2>5, AppendFacts
    <2>7. /\ commits' \in Seq(Nat) /\ commits' # << >> /\ Newest(commits') = c
          /\ Len(commits) <= Len(commits')
          /\ \A i \in 1 .. Len(commits) : commits'[i] = commits[i]
          /\ \A i \in 1 .. Len(commits') : i \in 1 .. Len(commits) \/ commits'[i] = c
        BY <2>4, <2>5, <2>6, <1>AddsCommit
    <2>8. ModelFields'
        BY <2>1, <2>7 DEF ModelInv, ModelFields
    <2>9. Newest(commits) <= Newest(commits') /\ commitIds <= commitIds'
        BY <2>1, <2>4, <2>5, <2>7, SelfOrder
    <2>10. Grows /\ ModelsOK' /\ \A a \in Account : CacheOK(caches'[a], heap', named')
        BY <2>1, <2>2, <2>7, <2>9, ChainMoves
    <2>11. ChainOK'
        BY <2>1, <2>3, <2>7 DEF ChainOK
    <2> QED
        BY <2>1, <2>8, <2>10, <2>11, NoRequest

<1> QED
    BY <1>OrderCompletesInv, <1>OrderExpiresInv

\* What is found under a key.
Finds(obj, key) ==
    /\ obj \in Nat
    /\ obj \in 0 .. Len(heap)
    /\ obj # 0 => obj \in DOMAIN heap
    /\ (obj # 0 /\ ~named) => heap[obj].commit = key[2]

\* Requests look for a model in the owner's cache.
LEMMA LookupsInv ==
    \A t \in Task : ModelInv /\ (Lookup(t) \/ UpdateLookup(t) \/ CreateLookup(t)) => ModelInv'

\* One request moves on after a look into the owner's cache.
<1>LookStep.
    ASSUME ModelInv, NEW t \in Task, NEW r \in TaskState, Becomes(t, r),
           NEW new \in Seq(Entry), new # Absent, CacheOK(new, heap, named),
           caches' = [caches EXCEPT ![Owner] = new],
           UNCHANGED <<uploadVars, chainVars, heap>>, named' = named, modelFaults' = modelFaults,
           TaskOK(r, heap, new, commits, commitIds, named, Overlapped)
    PROVE  ModelInv'
    <2>1. /\ client' = client /\ status' = status /\ commits' = commits /\ order' = order
          /\ commitIds' = commitIds /\ heap' = heap /\ named' = named
        BY <1>LookStep DEF uploadVars, chainVars
    <2>2. Overlapped' = Overlapped
        BY <2>1 DEF Overlapped
    <2>3. (named => named') /\ (~named' => ~named) /\ (Overlapped => Overlapped') /\ (~Overlapped' => ~Overlapped)
        BY <2>1, <2>2, SMTT(30)
    <2> USE <1>LookStep
    <2>4. ModelFields
        BY DEF ModelInv
    <2>5. Len(heap) \in Nat /\ Len(commits) \in Nat /\ commitIds \in Nat /\ Newest(commits) \in Nat
        BY <2>4, Lengths
    <2>6. caches'[Owner] = new /\ (\A a \in Account : a # Owner => caches'[a] = caches[a])
            /\ caches' \in [Account -> Seq(Entry) \cup {Absent}]
        BY <2>4, ModelAssumption DEF ModelFields
    <2>7. Grows
        BY <2>1, <2>5, <2>6, <2>3, SelfOrder DEF Grows
    <2>8. ModelsOK'
        BY <2>1, <2>3 DEF ModelInv, ModelsOK
    <2>9. ChainOK'
        <3>1. Latest' = Latest
            BY <2>1 DEF Latest
        <3> QED
            BY <2>1, <2>3, <3>1 DEF ModelInv, ChainOK
    <2>10. \A a \in Account : CacheOK(caches'[a], heap', named')
        BY <2>1, <2>6 DEF ModelInv
    <2>11. TaskOK(r, heap', caches'[Owner], commits', commitIds', named', Overlapped')
        BY <2>1, <2>2, <2>6
    <2>12. /\ status' \in {"none", "live", "deleted"} /\ commits' \in Seq(Nat)
           /\ order' \in Order \cup {Absent} /\ commitIds' \in 1 .. MaxCommits
           /\ heap' \in Seq(Order) /\ named' \in BOOLEAN /\ modelFaults' \in Nat
        BY <2>1, <2>4 DEF ModelFields
    <2> QED
        BY <2>6, <2>7, <2>8, <2>9, <2>10, <2>11, <2>12, OneRequest

<1>OwnerCache.
    ASSUME ModelInv, NEW key
    PROVE  /\ AfterGet(caches[Owner], key) \in Seq(Entry)
           /\ AfterGet(caches[Owner], key) # Absent
           /\ CacheOK(AfterGet(caches[Owner], key), heap, named)
    <2> USE <1>OwnerCache
    <2>1. Owner \in Account
        BY ModelAssumption
    <2>2. caches[Owner] \in Seq(Entry) \cup {Absent} /\ CacheOK(caches[Owner], heap, named)
        BY <2>1 DEF ModelInv, ModelFields
    <2> QED
        BY <2>2, AfterGetFacts

<1>OwnerFinds.
    ASSUME ModelInv, NEW key
    PROVE  Finds(Cached(Owner, key), key)
    <2> USE <1>OwnerFinds
    <2> DEFINE obj == Cached(Owner, key)
    <2>1. Owner \in Account
        BY ModelAssumption
    <2>2. obj # 0 => obj \in 1 .. Len(heap) /\ (~named => heap[obj].commit = key[2])
        BY <2>1, CachedFacts
    <2>3. Len(heap) \in Nat /\ DOMAIN heap = 1 .. Len(heap)
        BY Lengths DEF ModelInv
    <2> HIDE DEF obj
    <2>4. obj \in Nat /\ obj \in 0 .. Len(heap)
        <3>1. CASE obj = 0
            BY <2>3, <3>1, SMTT(30)
        <3>2. CASE obj # 0
            BY <2>2, <2>3, <3>2, SMTT(30)
        <3> QED
            BY <3>1, <3>2
    <2>5. Finds(obj, key)
        BY <2>2, <2>3, <2>4 DEF Finds
    <2> QED
        BY <2>5 DEF obj

<1>FoundFacts.
    ASSUME NEW r \in TaskState, NEW obj \in Nat, NEW pc \in TaskPc
    PROVE  IsTask([r EXCEPT !.obj = obj, !.pc = pc],
                  pc, r.kind, r.account, r.keyword, r.commit, r.meta, obj, r.content, r.floor)
    BY <1>FoundFacts DEF TaskState, IsTask

<1>LookupInv.
    ASSUME ModelInv, NEW t \in Task, Lookup(t)
    PROVE  ModelInv'
    <2> USE <1>LookupInv
    <2> DEFINE r == task[t]
               key == <<r.keyword, r.meta>>
               obj == Cached(Owner, key)
               pc == IF Hit(t, obj) THEN "respond" ELSE "prepare"
               new == AfterGet(caches[Owner], key)
               v == [r EXCEPT !.obj = obj, !.pc = pc]
    <2>1. r.pc = "lookup" /\ r.kind = "load" /\ UNCHANGED <<uploadVars, chainVars, heap>>
            /\ named' = named /\ modelFaults' = modelFaults
        BY DEF Lookup
    <2>2. caches' = [caches EXCEPT ![Owner] = new]
        BY DEF Lookup
    <2>3. Becomes(t, v)
        BY DEF Lookup, Becomes
    <2>4. new \in Seq(Entry) /\ new # Absent /\ CacheOK(new, heap, named)
        BY <1>OwnerCache
    <2>5. Finds(obj, key)
        BY <1>OwnerFinds
    <2>6. r \in TaskState /\ TaskOK(r, heap, caches[Owner], commits, commitIds, named, Overlapped)
        BY TaskFacts
    <2>7. pc \in TaskPc /\ pc \in {"respond", "prepare"}
        BY DEF TaskPc
    <2>8. pc = "respond" => obj # 0 /\ heap[obj].content # << >>
        BY DEF Hit
    <2>9. key[2] = r.meta
        OBVIOUS
    <2> HIDE DEF r, key, obj, pc, new
    <2>10. IsTask(v, pc, r.kind, r.account, r.keyword, r.commit, r.meta, obj, r.content, r.floor)
        BY <2>5, <2>6, <2>7, <1>FoundFacts DEF Finds
    <2> HIDE DEF v
    <2>11. KindOK(v) /\ OwnerOK(v, new) /\ CommitOK(v, commitIds) /\ StageOK(v, Overlapped) /\ PointOK(v, heap)
        BY <2>1, <2>4, <2>5, <2>7, <2>8, <2>10
           DEF IsTask, Finds, KindOK, OwnerOK, CommitOK, StageOK, PointOK
    <2>12. ASSUME ~named
           PROVE  LoadOK(v, heap, commits, Overlapped)
        <3>1. LoadOK(r, heap, commits, Overlapped)
            BY <2>1, <2>6, <2>12 DEF TaskOK
        <3>2. r.commit = 0 /\ (\E i \in 1 .. Len(commits) : commits[i] = r.meta) /\ r.floor <= r.meta
            BY <2>1, <3>1 DEF LoadOK
        <3>3. obj # 0 => heap[obj].commit = r.meta
            BY <2>5, <2>9, <2>12 DEF Finds
        <3>4. (pc = "respond" /\ ~Overlapped) => Whole(heap[obj])
            BY <2>5, <2>8, <2>12 DEF ModelInv, ModelsOK, Finds
        <3> QED
            BY <2>7, <2>10, <3>2, <3>3, <3>4 DEF IsTask, LoadOK
    <2>13. TaskOK(v, heap, new, commits, commitIds, named, Overlapped)
        BY <2>11, <2>12 DEF TaskOK
    <2>14. v \in TaskState
        BY <2>10 DEF IsTask
    <2> QED
        BY <2>1, <2>2, <2>3, <2>4, <2>13, <2>14, <1>LookStep

<1>UpdateLookupInv.
    ASSUME ModelInv, NEW t \in Task, UpdateLookup(t)
    PROVE  ModelInv'
    <2> USE <1>UpdateLookupInv
    <2> DEFINE r == task[t]
               key == <<r.keyword, r.floor>>
               obj == Cached(Owner, key)
               usable == /\ obj # 0
                         /\ heap[obj].content # << >>
                         /\ heap[obj].commit = r.floor
                         /\ heap[obj].commit = r.meta
               found == IF usable THEN obj ELSE 0
               pc == IF usable THEN "patch" ELSE "fetch"
               new == AfterGet(caches[Owner], key)
               v == [r EXCEPT !.obj = found, !.pc = pc]
    <2>1. r.pc = "lookup" /\ r.kind = "update" /\ UNCHANGED <<uploadVars, chainVars, heap>>
            /\ named' = named /\ modelFaults' = modelFaults
        BY DEF UpdateLookup
    <2>2. caches' = [caches EXCEPT ![Owner] = new]
        BY DEF UpdateLookup
    <2>3. Becomes(t, v)
        BY DEF UpdateLookup, Becomes
    <2>4. new \in Seq(Entry) /\ new # Absent /\ CacheOK(new, heap, named)
        BY <1>OwnerCache
    <2>5. Finds(obj, key)
        BY <1>OwnerFinds
    <2>6. r \in TaskState /\ TaskOK(r, heap, caches[Owner], commits, commitIds, named, Overlapped)
            /\ Len(heap) \in Nat
        BY TaskFacts
    <2>7. pc \in TaskPc /\ pc \in {"patch", "fetch"} /\ (found = obj \/ found = 0)
        BY DEF TaskPc
    <2> HIDE DEF r, key, obj, pc, new, found
    <2>8. found \in Nat /\ found \in 0 .. Len(heap)
        <3>1. 0 \in Nat /\ 0 \in 0 .. Len(heap)
            BY <2>6, SMTT(30)
        <3> QED
            BY <2>5, <2>7, <3>1 DEF Finds
    <2>9. IsTask(v, pc, r.kind, r.account, r.keyword, r.commit, r.meta, found, r.content, r.floor)
        BY <2>6, <2>7, <2>8, <1>FoundFacts
    <2> HIDE DEF v
    <2>10. TaskOK(v, heap, new, commits, commitIds, named, Overlapped)
        BY <2>1, <2>4, <2>6, <2>7, <2>8, <2>9
           DEF IsTask, TaskOK, KindOK, OwnerOK, CommitOK, StageOK, PointOK
    <2>11. v \in TaskState
        BY <2>9 DEF IsTask
    <2> QED
        BY <2>1, <2>2, <2>3, <2>4, <2>10, <2>11, <1>LookStep

<1>CreateLookupInv.
    ASSUME ModelInv, NEW t \in Task, CreateLookup(t)
    PROVE  ModelInv'
    <2> USE <1>CreateLookupInv
    <2> DEFINE r == task[t]
               one == AfterGet(caches[Owner], <<"dataId", 1>>)
               new == AfterGet(one, <<"alias", 1>>)
               v == At(r, "conflict")
    <2>1. r.pc = "exists" /\ UNCHANGED <<uploadVars, chainVars, heap>>
            /\ named' = named /\ modelFaults' = modelFaults
        BY DEF CreateLookup
    <2>2. caches' = [caches EXCEPT ![Owner] = new]
        BY DEF CreateLookup
    <2>3. Moves(t, "failed") \/ Moves(t, "conflict")
        BY DEF CreateLookup
    <2>4. one \in Seq(Entry) /\ CacheOK(one, heap, named)
        BY <1>OwnerCache
    <2>5. r \in TaskState /\ TaskOK(r, heap, caches[Owner], commits, commitIds, named, Overlapped)
            /\ Len(heap) \in Nat
        BY TaskFacts
    <2> HIDE DEF one
    <2>6. new \in Seq(Entry) /\ new # Absent /\ CacheOK(new, heap, named)
        BY <2>4, AfterGetFacts
    <2> HIDE DEF new
    <2>7. CASE Moves(t, "failed")
        <3>1. Becomes(t, At(r, "failed"))
            BY <2>7 DEF Moves
        <3>2. At(r, "failed") \in TaskState
                /\ TaskOK(At(r, "failed"), heap, new, commits, commitIds, named, Overlapped)
            BY <2>5, AtEnd
        <3> QED
            BY <2>1, <2>2, <2>6, <3>1, <3>2, <1>LookStep
    <2>8. CASE Moves(t, "conflict")
        <3>1. Becomes(t, v)
            BY <2>8 DEF Moves
        <3> HIDE DEF r
        <3>2. IsTask(v, "conflict", r.kind, r.account, r.keyword, r.commit, r.meta, r.obj, r.content, r.floor)
            <4>1. "conflict" \in TaskPc /\ "conflict" \notin {"failed", "panicked"}
                BY DEF TaskPc
            <4> QED
                BY <2>5, <4>1, AtFacts
        <3> HIDE DEF v
        <3>3. TaskOK(v, heap, new, commits, commitIds, named, Overlapped)
            BY <2>1, <2>5, <2>6, <3>2
               DEF IsTask, TaskOK, KindOK, OwnerOK, CommitOK, StageOK, PointOK
        <3>4. v \in TaskState
            BY <3>2 DEF IsTask
        <3> QED
            BY <2>1, <2>2, <2>6, <3>1, <3>3, <3>4, <1>LookStep
    <2> QED
        BY <2>3, <2>7, <2>8

<1> QED
    BY <1>LookupInv, <1>UpdateLookupInv, <1>CreateLookupInv

\* The models stay models of their commits.
Keeps(new) ==
    /\ new \in Seq(Order)
    /\ Len(heap) <= Len(new)
    /\ ~named => \A i \in 1 .. Len(heap) :
        /\ new[i].commit = heap[i].commit
        /\ (~Overlapped /\ Whole(heap[i])) => Whole(new[i])
    /\ (~named /\ ~Overlapped) => \A i \in 1 .. Len(new) : new[i].content = << >> \/ Whole(new[i])

\* A sequence with another element in one place.
Replaced(new, s, o, e, S) ==
    /\ new \in Seq(S)
    /\ Len(new) = Len(s)
    /\ new[o] = e
    /\ \A i \in 1 .. Len(s) : i # o => new[i] = s[i]

\* A model with another commit or content.
IsModel(v, c, x) == v \in Order /\ v.commit = c /\ v.content = x

\* Requests make models, write to the ones they share, and put them into a cache.
LEMMA ModelStepsInv ==
    \A t \in Task :
        ModelInv /\ (Prepare(t) \/ Fetch(t) \/ CommitUnsaved(t) \/ CommitModel(t)) => ModelInv'

<1>CachesKeep.
    ASSUME ModelInv, NEW new, Keeps(new), NEW a \in Account
    PROVE  CacheOK(caches[a], new, named)
    <2> USE <1>CachesKeep
    <2>1. CacheOK(caches[a], heap, named)
        BY DEF ModelInv
    <2>2. Len(heap) \in Nat
        BY Lengths DEF ModelInv
    <2>3. Len(new) \in Nat /\ Len(heap) <= Len(new)
        BY SMTT(30) DEF Keeps
    <2>4. \A i \in 1 .. Len(heap) : i \in 1 .. Len(new)
        BY <2>2, <2>3, Within
    <2>5. ASSUME caches[a] # Absent, NEW i \in 1 .. Len(caches[a])
          PROVE  caches[a][i].obj \in 1 .. Len(new) /\ (~named => new[caches[a][i].obj].commit = caches[a][i].key[2])
        <3>1. caches[a][i].obj \in 1 .. Len(heap) /\ (~named => heap[caches[a][i].obj].commit = caches[a][i].key[2])
            BY <2>1, <2>5 DEF CacheOK
        <3> QED
            BY <2>4, <3>1 DEF Keeps
    <2> QED
        BY <2>1, <2>5 DEF CacheOK

\* One request moves on and writes to the models, a cache or the order.
<1>ModelStep.
    ASSUME ModelInv, NEW t \in Task, NEW r \in TaskState, Becomes(t, r), Keeps(heap'),
           caches' \in [Account -> Seq(Entry) \cup {Absent}],
           \A a \in Account : CacheOK(caches'[a], heap', named),
           caches[Owner] # Absent => caches'[Owner] # Absent,
           order' \in Order \cup {Absent},
           order' # Absent => order' = order \/
               (/\ order'.commit \in 1 .. commitIds /\ order'.commit > Latest
                /\ ~Overlapped => order'.content = Body(order'.commit)),
           UNCHANGED <<uploadVars, status, commits, commitIds, named>>, modelFaults' \in Nat,
           TaskOK(r, heap', caches'[Owner], commits, commitIds, named, Overlapped)
    PROVE  ModelInv'
    <2>1. client' = client /\ status' = status /\ commits' = commits /\ commitIds' = commitIds /\ named' = named
        BY <1>ModelStep DEF uploadVars
    <2>2. Overlapped' = Overlapped
        BY <2>1 DEF Overlapped
    <2>3. (named => named') /\ (~named' => ~named) /\ (Overlapped => Overlapped') /\ (~Overlapped' => ~Overlapped)
        BY <2>1, <2>2, SMTT(30)
    <2> USE <1>ModelStep
    <2>4. ModelFields
        BY DEF ModelInv
    <2>5. Len(commits) \in Nat /\ commitIds \in Nat /\ Newest(commits) \in Nat
        BY <2>4, Lengths
    <2>6. Grows
        BY <2>1, <2>5, <2>3, SelfOrder DEF Grows, Keeps
    <2>7. ModelsOK'
        <3>1. DOMAIN heap' = 1 .. Len(heap')
            BY HeapDomain DEF Keeps
        <3> QED
            BY <2>3, <3>1 DEF ModelsOK, Keeps
    <2>8. ChainOK'
        <3>1. Latest' = Latest
            BY <2>1 DEF Latest
        <3>2. /\ status = "none" => commits = << >>
              /\ status = "live" => commits # << >>
              /\ \A i \in 1 .. Len(commits) : commits[i] \in 1 .. commitIds
            BY DEF ModelInv, ChainOK
        <3>3. order' # Absent =>
                  (/\ order'.commit \in 1 .. commitIds /\ order'.commit > Latest
                   /\ ~Overlapped => order'.content = Body(order'.commit))
            BY DEF ModelInv, ChainOK
        <3> QED
            BY <2>1, <2>3, <3>1, <3>2, <3>3 DEF ChainOK
    <2>9. \A a \in Account : CacheOK(caches'[a], heap', named')
        BY <2>1
    <2>10. TaskOK(r, heap', caches'[Owner], commits', commitIds', named', Overlapped')
        BY <2>1, <2>2
    <2>11. /\ status' \in {"none", "live", "deleted"} /\ commits' \in Seq(Nat)
           /\ commitIds' \in 1 .. MaxCommits /\ heap' \in Seq(Order) /\ named' \in BOOLEAN
        BY <2>1, <2>4 DEF ModelFields, Keeps
    <2> QED
        BY <2>6, <2>7, <2>8, <2>9, <2>10, <2>11, OneRequest

<1>ReplaceFacts.
    ASSUME NEW S, NEW s \in Seq(S), NEW o \in 1 .. Len(s), NEW e \in S
    PROVE  Replaced([s EXCEPT ![o] = e], s, o, e, S)
    BY <1>ReplaceFacts, SMTT(30) DEF Replaced

\* Another model, without a content or with the one of its commit.
<1>AppendKeeps.
    ASSUME ModelInv, NEW m \in Order, NEW new, Longer(new, heap, m, Order),
           (~named /\ ~Overlapped) => m.content = << >> \/ Whole(m)
    PROVE  Keeps(new)
    <2> USE <1>AppendKeeps
    <2>1. Len(heap) \in Nat /\ DOMAIN heap = 1 .. Len(heap)
        BY Lengths DEF ModelInv
    <2>2. Len(heap) <= Len(heap) + 1
        BY <2>1, SMTT(30)
    <2>3. (~named /\ ~Overlapped) => \A i \in 1 .. Len(heap) : heap[i].content = << >> \/ Whole(heap[i])
        BY <2>1 DEF ModelInv, ModelsOK
    <2>4. ASSUME ~named, ~Overlapped, NEW i \in 1 .. Len(new)
          PROVE  new[i].content = << >> \/ Whole(new[i])
        <3>1. CASE i \in 1 .. Len(heap)
            <4>1. new[i] = heap[i]
                BY <3>1 DEF Longer
            <4> QED
                BY <2>3, <2>4, <3>1, <4>1
        <3>2. CASE i \notin 1 .. Len(heap)
            <4>1. new[i] = m
                BY <2>4, <3>2 DEF Longer
            <4> QED
                BY <2>4, <4>1
        <3> QED
            BY <3>1, <3>2
    <2>5. \A i \in 1 .. Len(heap) : new[i] = heap[i]
        BY DEF Longer
    <2>6. new \in Seq(Order) /\ Len(heap) <= Len(new)
        BY <2>2 DEF Longer
    <2> QED
        BY <2>4, <2>5, <2>6 DEF Keeps

\* A model that gets a content or a commit: the content of its commit, and the
\* commit it has.
<1>ReplaceKeeps.
    ASSUME ModelInv, NEW o \in 1 .. Len(heap), NEW m \in Order, NEW new,
           Replaced(new, heap, o, m, Order),
           ~named => m.commit = heap[o].commit,
           (~named /\ ~Overlapped) => m = heap[o] \/ Whole(m)
    PROVE  Keeps(new)
    <2> USE <1>ReplaceKeeps
    <2>1. Len(heap) \in Nat /\ DOMAIN heap = 1 .. Len(heap)
        BY Lengths DEF ModelInv
    <2>2. Len(heap) <= Len(heap)
        BY <2>1, SelfOrder
    <2>3. new \in Seq(Order) /\ Len(heap) <= Len(new) /\ Len(new) = Len(heap)
        BY <2>2 DEF Replaced
    <2>4. new[o] = m /\ \A i \in 1 .. Len(heap) : i # o => new[i] = heap[i]
        BY DEF Replaced
    <2>5. (~named /\ ~Overlapped) => \A i \in 1 .. Len(heap) : heap[i].content = << >> \/ Whole(heap[i])
        BY <2>1 DEF ModelInv, ModelsOK
    <2>6. ASSUME NEW i \in 1 .. Len(heap), ~named
          PROVE  /\ new[i].commit = heap[i].commit
                 /\ (~Overlapped /\ Whole(heap[i])) => Whole(new[i])
                 /\ ~Overlapped => new[i].content = << >> \/ Whole(new[i])
        <3>1. CASE i = o
            BY <2>4, <2>5, <2>6, <3>1
        <3>2. CASE i # o
            BY <2>4, <2>5, <2>6, <3>2
        <3> QED
            BY <3>1, <3>2
    <2> QED
        BY <2>3, <2>6 DEF Keeps

<1>PreparedFacts.
    ASSUME NEW r \in TaskState, NEW meta \in Nat, NEW obj \in Nat
    PROVE  IsTask([r EXCEPT !.meta = meta, !.pc = "fetch", !.obj = obj],
                  "fetch", r.kind, r.account, r.keyword, r.commit, meta, obj, r.content, r.floor)
    BY <1>PreparedFacts DEF TaskState, TaskPc, IsTask

\* The request goes on to its fetch with a model of the commit.
<1>PreparedStep.
    ASSUME ModelInv, NEW t \in Task, task[t].pc = "prepare", NEW target \in Nat, NEW obj \in Nat,
           target = IF task[t].commit = 0 THEN task[t].meta ELSE task[t].commit,
           Becomes(t, [task[t] EXCEPT !.meta = target, !.pc = "fetch", !.obj = obj]),
           Keeps(heap'), obj \in 1 .. Len(heap'), heap'[obj].commit = target,
           UNCHANGED <<uploadVars, chainVars, caches, named, modelFaults>>
    PROVE  ModelInv'
    <2> USE <1>PreparedStep
    <2> DEFINE r == task[t]
               v == [r EXCEPT !.meta = target, !.pc = "fetch", !.obj = obj]
    <2>1. r \in TaskState /\ TaskOK(r, heap, caches[Owner], commits, commitIds, named, Overlapped)
            /\ modelFaults \in Nat
        BY TaskFacts
    <2>2. /\ UNCHANGED <<uploadVars, status, commits, commitIds, named>> /\ order' = order
          /\ caches' = caches /\ modelFaults' = modelFaults
        BY DEF chainVars
    <2>3. r.pc = "prepare" /\ (r.commit = 0 => target = r.meta) /\ Becomes(t, v)
        OBVIOUS
    <2> HIDE DEF r
    <2>4. IsTask(v, "fetch", r.kind, r.account, r.keyword, r.commit, target, obj, r.content, r.floor)
        BY <2>1, <1>PreparedFacts
    <2> HIDE DEF v
    <2>5. r.kind = "load" /\ caches[Owner] # Absent
        BY <2>1, <2>3 DEF TaskOK, KindOK, OwnerOK
    <2>6. obj # 0 /\ obj \in 0 .. Len(heap')
        <3>1. Len(heap') \in Nat
            BY SMTT(30) DEF Keeps
        <3> QED
            BY <3>1, SMTT(30)
    <2>7. KindOK(v) /\ OwnerOK(v, caches[Owner]) /\ CommitOK(v, commitIds) /\ StageOK(v, Overlapped)
            /\ PointOK(v, heap')
        BY <2>4, <2>5, <2>6 DEF IsTask, KindOK, OwnerOK, CommitOK, StageOK, PointOK
    <2>8. ASSUME ~named
          PROVE  LoadOK(v, heap', commits, Overlapped)
        <3>1. LoadOK(r, heap, commits, Overlapped)
            BY <2>1, <2>5, <2>8 DEF TaskOK
        <3>2. r.commit = 0 /\ target = r.meta
                /\ (\E i \in 1 .. Len(commits) : commits[i] = r.meta) /\ r.floor <= r.meta
            BY <2>3, <3>1 DEF LoadOK
        <3> QED
            BY <2>4, <3>2 DEF IsTask, LoadOK
    <2>9. TaskOK(v, heap', caches'[Owner], commits, commitIds, named, Overlapped)
        BY <2>2, <2>7, <2>8 DEF TaskOK
    <2>10. v \in TaskState
        BY <2>4 DEF IsTask
    <2>11. \A a \in Account : CacheOK(caches'[a], heap', named)
        BY <2>2, <1>CachesKeep
    <2>12. caches' \in [Account -> Seq(Entry) \cup {Absent}] /\ order' \in Order \cup {Absent}
            /\ modelFaults' \in Nat /\ (caches[Owner] # Absent => caches'[Owner] # Absent)
            /\ (order' # Absent => order' = order)
        BY <2>1, <2>2 DEF ModelInv, ModelFields
    <2> QED
        BY <2>2, <2>3, <2>9, <2>10, <2>11, <2>12, <1>ModelStep

<1>OrderFields.
    ASSUME NEW m \in Order
    PROVE  m.commit \in Nat /\ m.content \in Bytes
    BY <1>OrderFields DEF Order

<1>NewModel.
    ASSUME NEW c \in Nat, NEW x \in Bytes
    PROVE  /\ [commit |-> c, content |-> x] \in Order
           /\ [commit |-> c, content |-> x].commit = c
           /\ [commit |-> c, content |-> x].content = x
    BY <1>NewModel DEF Order

<1>Recommitted.
    ASSUME NEW m \in Order, NEW c \in Nat
    PROVE  IsModel([m EXCEPT !.commit = c], c, m.content)
    BY <1>Recommitted DEF Order, IsModel

<1>Refilled.
    ASSUME NEW m \in Order, NEW x \in Bytes
    PROVE  IsModel([m EXCEPT !.content = x], m.commit, x)
    BY <1>Refilled DEF Order, IsModel

<1>SameModel.
    ASSUME NEW m \in Order, NEW n \in Order, m.commit = n.commit, m.content = n.content
    PROVE  m = n
    BY <1>SameModel, SMTT(30) DEF Order

<1>PrepareInv.
    ASSUME ModelInv, NEW t \in Task, Prepare(t)
    PROVE  ModelInv'
    <2> USE <1>PrepareInv
    <2> DEFINE r == task[t]
               target == IF r.commit = 0 THEN r.meta ELSE r.commit
               seen == {commits[i] : i \in {j \in DOMAIN commits : \A k \in 1 .. j - 1 : commits[k] # r.meta}}
    <2>1. r.pc = "prepare" /\ UNCHANGED <<uploadVars, chainVars, caches, named, modelFaults>>
        BY DEF Prepare
    <2>2. r \in TaskState /\ TaskOK(r, heap, caches[Owner], commits, commitIds, named, Overlapped)
            /\ Len(heap) \in Nat /\ modelFaults \in Nat /\ target \in Nat /\ heap \in Seq(Order)
        <3>1. r \in TaskState /\ TaskOK(r, heap, caches[Owner], commits, commitIds, named, Overlapped)
                /\ Len(heap) \in Nat /\ modelFaults \in Nat
            BY TaskFacts
        <3>2. target \in Nat
            BY <3>1 DEF TaskState
        <3> QED
            BY <3>1, <3>2 DEF ModelInv, ModelFields
    <2>3. CASE target \notin seen
        <3>1. Moves(t, "failed") /\ heap' = heap
            BY <2>3 DEF Prepare
        <3>2. UNCHANGED <<uploadVars, chainVars, caches, heap, named>> /\ modelFaults' \in Nat
            BY <2>1, <2>2, <3>1
        <3> QED
            BY <3>1, <3>2, FailStep
    <2>4. CASE target \in seen /\ r.obj = 0
        <3> DEFINE m == [commit |-> target, content |-> << >>]
                   o == Len(heap) + 1
        <3>1. heap' = Append(heap, m)
            BY <2>4 DEF Prepare
        <3>2. task' = [task EXCEPT ![t] = [r EXCEPT !.meta = target, !.pc = "fetch", !.obj = o]]
            BY <2>4 DEF Prepare
        <3>3. m \in Order /\ m.commit = target /\ m.content = << >>
            BY <2>2, NoBytes, <1>NewModel
        <3> HIDE DEF m
        <3>4. Longer(heap', heap, m, Order)
            BY <2>2, <3>1, <3>3, AppendFacts
        <3>5. Keeps(heap')
            BY <3>3, <3>4, <1>AppendKeeps
        <3>6. o \in Nat
            BY <2>2, SMTT(30)
        <3>7. o \in 1 .. Len(heap') /\ heap'[o].commit = target
            BY <3>3, <3>4 DEF Longer
        <3>8. Becomes(t, [r EXCEPT !.meta = target, !.pc = "fetch", !.obj = o])
            BY <3>2 DEF Becomes
        <3> HIDE DEF o
        <3>9. target = IF r.commit = 0 THEN r.meta ELSE r.commit
            OBVIOUS
        <3> HIDE DEF target
        <3> QED
            BY <2>1, <2>2, <3>5, <3>6, <3>7, <3>8, <3>9, <1>PreparedStep
    <2>5. CASE target \in seen /\ r.obj # 0
        <3> DEFINE o == r.obj
                   m == [heap[o] EXCEPT !.commit = target]
        <3>1. heap' = [heap EXCEPT ![o] = m]
            BY <2>5 DEF Prepare
        <3>2. task' = [task EXCEPT ![t] = [r EXCEPT !.meta = target, !.pc = "fetch", !.obj = o]]
            BY <2>5 DEF Prepare
        <3>3. o \in 1 .. Len(heap) /\ o \in Nat
            <4>1. o \in 0 .. Len(heap) /\ o # 0
                BY <2>2, <2>5 DEF TaskOK, PointOK
            <4> QED
                BY <2>2, <4>1, Within, UpTo, SelfOrder
        <3>4. heap[o] \in Order
            BY <3>3, Lengths DEF ModelInv
        <3>5. IsModel(m, target, heap[o].content)
            BY <2>2, <3>4, <1>Recommitted
        <3>6. ~named => target = heap[o].commit
            <4>1. r.kind = "load"
                BY <2>1, <2>2 DEF TaskOK, KindOK
            <4>2. ~named => LoadOK(r, heap, commits, Overlapped)
                BY <2>2, <4>1 DEF TaskOK
            <4> QED
                BY <2>1, <2>5, <4>2 DEF LoadOK
        <3>8. Becomes(t, [r EXCEPT !.meta = target, !.pc = "fetch", !.obj = o])
            BY <3>2 DEF Becomes
        <3>9. target = IF r.commit = 0 THEN r.meta ELSE r.commit
            OBVIOUS
        <3> HIDE DEF o, m, target
        <3>10. m \in Order /\ m.commit = target /\ m.content = heap[o].content
            BY <3>5 DEF IsModel
        <3>11. ~named => m.commit = heap[o].commit
            BY <3>6, <3>10
        <3>12. (~named /\ ~Overlapped) => m = heap[o] \/ Whole(m)
            BY <3>4, <3>10, <3>11, <1>SameModel
        <3>13. Replaced(heap', heap, o, m, Order)
            BY <2>2, <3>1, <3>3, <3>10, <1>ReplaceFacts
        <3>14. Keeps(heap')
            BY <3>3, <3>10, <3>11, <3>12, <3>13, <1>ReplaceKeeps
        <3>15. o \in 1 .. Len(heap') /\ heap'[o].commit = target
            BY <3>3, <3>10, <3>13 DEF Replaced
        <3> QED
            BY <2>1, <2>2, <3>3, <3>8, <3>9, <3>14, <3>15, <1>PreparedStep
    <2> QED
        BY <2>3, <2>4, <2>5

<1>FetchInv.
    ASSUME ModelInv, NEW t \in Task, Fetch(t)
    PROVE  ModelInv'
    <2> USE <1>FetchInv
    <2> DEFINE r == task[t]
               o == r.obj
               x == Kept(r.meta, Body(r.meta))
               m == [heap[o] EXCEPT !.content = x]
    <2>1. r.pc = "fetch" /\ r.kind = "load" /\ UNCHANGED <<uploadVars, status, commits, commitIds, named>>
            /\ order' = order /\ modelFaults' = modelFaults
        BY DEF Fetch, chainVars
    <2>2. heap' = [heap EXCEPT ![o] = m]
        BY DEF Fetch
    <2>3. r \in TaskState /\ TaskOK(r, heap, caches[Owner], commits, commitIds, named, Overlapped)
            /\ Len(heap) \in Nat /\ modelFaults \in Nat /\ heap \in Seq(Order)
        BY TaskFacts DEF ModelInv, ModelFields
    <2>4. o \in 1 .. Len(heap) /\ o \in Nat /\ o \in 0 .. Len(heap) /\ o # 0
        <3>1. o \in 0 .. Len(heap) /\ o # 0
            BY <2>1, <2>3 DEF TaskOK, PointOK
        <3> QED
            BY <2>3, <3>1, Within, UpTo, SelfOrder
    <2>5. heap[o] \in Order
        BY <2>4, Lengths DEF ModelInv
    <2>6. x \in Bytes
        BY <2>3, BodyFacts DEF TaskState
    <2>7. IsModel(m, heap[o].commit, x)
        BY <2>5, <2>6, <1>Refilled
    <2>8. ~named => LoadOK(r, heap, commits, Overlapped)
        BY <2>1, <2>3 DEF TaskOK
    <2>9. ~named => heap[o].commit = r.meta
        BY <2>1, <2>4, <2>8 DEF LoadOK
    <2> HIDE DEF m
    <2>10. m \in Order /\ m.commit = heap[o].commit /\ m.content = x
        BY <2>7 DEF IsModel
    <2>11. ~named => Whole(m)
        BY <2>9, <2>10 DEF Whole
    <2> HIDE DEF x, o
    <2>12. Replaced(heap', heap, o, m, Order)
        BY <2>2, <2>3, <2>4, <2>10, <1>ReplaceFacts
    <2>13. Keeps(heap')
        BY <2>4, <2>10, <2>11, <2>12, <1>ReplaceKeeps
    <2>14. heap'[o] = m /\ Len(heap') = Len(heap)
        BY <2>12 DEF Replaced
    <2>15. order' \in Order \cup {Absent} /\ (order' # Absent => order' = order) /\ modelFaults' \in Nat
            /\ caches \in [Account -> Seq(Entry) \cup {Absent}]
        BY <2>1, <2>3 DEF ModelInv, ModelFields
    <2>16. caches[Owner] # Absent /\ r.account \in Account
        BY <2>1, <2>3 DEF TaskOK, OwnerOK, TaskState
    <2>17. CASE caches[r.account] = Absent
        <3> DEFINE v == At(r, "panicked")
        <3>1. Moves(t, "panicked") /\ caches' = caches
            BY <2>17 DEF Fetch
        <3>2. Becomes(t, v)
            BY <3>1 DEF Moves
        <3>3. r.account # Owner /\ Len(heap') \in Nat
            BY <2>3, <2>14, <2>16, <2>17
        <3> HIDE DEF r
        <3>4. v \in TaskState /\ TaskOK(v, heap', caches'[Owner], commits, commitIds, named, Overlapped)
            BY <2>3, <3>3, AtEnd
        <3> HIDE DEF v
        <3>5. \A a \in Account : CacheOK(caches'[a], heap', named)
            BY <2>13, <3>1, <1>CachesKeep
        <3>6. caches' \in [Account -> Seq(Entry) \cup {Absent}] /\ (caches[Owner] # Absent => caches'[Owner] # Absent)
            BY <2>15, <3>1
        <3> QED
            BY <2>1, <2>13, <2>15, <3>2, <3>4, <3>5, <3>6, <1>ModelStep
    <2>18. CASE caches[r.account] # Absent
        <3> DEFINE v == At(r, "respond")
                   a == r.account
                   c == heap[o].commit
                   new == cacheModel(caches[a], c, o)
        <3>1. Moves(t, "respond") /\ caches' = [caches EXCEPT ![a] = new]
            BY <2>18 DEF Fetch, o
        <3>2. Becomes(t, v)
            BY <3>1 DEF Moves
        <3>3. caches[a] \in Seq(Entry) /\ c \in Nat
            BY <2>5, <2>15, <2>16, <2>18, <1>OrderFields
        <3>4. CacheOK(caches[a], heap', named)
            BY <2>13, <2>16, <1>CachesKeep
        <3>5. o \in 1 .. Len(heap') /\ (~named => heap'[o].commit = c)
            BY <2>4, <2>10, <2>14
        <3> HIDE DEF c
        <3>6. new \in Seq(Entry) /\ new # Absent /\ CacheOK(new, heap', named)
            BY <2>4, <3>3, <3>4, <3>5, cacheModelFacts
        <3> HIDE DEF new
        <3>7. caches' \in [Account -> Seq(Entry) \cup {Absent}] /\ caches'[a] = new
                /\ \A b \in Account : b # a => caches'[b] = caches[b]
            BY <2>15, <2>16, <3>1, <3>6
        <3>8. \A b \in Account : CacheOK(caches'[b], heap', named)
            BY <2>13, <3>6, <3>7, <1>CachesKeep
        <3>9. caches'[Owner] # Absent
            BY <2>16, <3>6, <3>7, ModelAssumption
        <3>10. IsTask(v, "respond", r.kind, r.account, r.keyword, r.commit, r.meta, r.obj, r.content, r.floor)
            <4>1. "respond" \in TaskPc /\ "respond" \notin {"failed", "panicked"}
                BY DEF TaskPc
            <4> HIDE DEF r
            <4> QED
                BY <2>3, <4>1, AtFacts
        <3> HIDE DEF v
        <3>11. KindOK(v) /\ OwnerOK(v, caches'[Owner]) /\ CommitOK(v, commitIds) /\ StageOK(v, Overlapped)
                /\ PointOK(v, heap')
            BY <2>1, <2>4, <2>14, <3>10 DEF IsTask, KindOK, OwnerOK, CommitOK, StageOK, PointOK, o
        <3>12. ASSUME ~named
               PROVE  LoadOK(v, heap', commits, Overlapped)
            <4>1. r.commit = 0 /\ (\E i \in 1 .. Len(commits) : commits[i] = r.meta) /\ r.floor <= r.meta
                BY <2>1, <2>8, <3>12 DEF LoadOK
            <4>2. v.pc = "respond" /\ v.commit = 0 /\ v.meta = r.meta /\ v.obj = o /\ v.floor = r.floor
                BY <3>10, <4>1 DEF IsTask, o
            <4>3. heap'[o].commit = r.meta /\ Whole(heap'[o])
                BY <2>9, <2>10, <2>11, <2>14, <3>12
            <4> QED
                BY <4>1, <4>2, <4>3 DEF LoadOK
        <3>13. TaskOK(v, heap', caches'[Owner], commits, commitIds, named, Overlapped)
            BY <3>11, <3>12 DEF TaskOK
        <3>14. v \in TaskState
            BY <3>10 DEF IsTask
        <3> QED
            BY <2>1, <2>13, <2>15, <3>2, <3>7, <3>8, <3>9, <3>13, <3>14, <1>ModelStep
    <2> QED
        BY <2>17, <2>18

\* What the chain accepts is newer than what it has.
<1>AcceptedFacts.
    ASSUME ModelInv, NEW t \in Task, task[t].pc = "commit",
           Accepts(IF task[t].kind = "create" THEN 0 ELSE task[t].floor)
    PROVE  /\ task[t].kind \in {"create", "update"}
           /\ task[t].commit \in 1 .. commitIds
           /\ task[t].commit > Latest
           /\ ~Overlapped => task[t].content = Body(task[t].commit)
           /\ caches[Owner] # Absent
    <2> USE <1>AcceptedFacts
    <2> DEFINE r == task[t]
    <2>1. r \in TaskState /\ TaskOK(r, heap, caches[Owner], commits, commitIds, named, Overlapped)
        BY TaskFacts
    <2>2. r.pc = "commit" /\ r.commit \in Nat /\ r.floor \in Nat
        BY <2>1 DEF TaskState
    <2>3. commitIds \in 1 .. MaxCommits /\ MaxCommits \in Nat
        BY ModelAssumption DEF ModelInv, ModelFields
    <2>4. status = "none" => Latest = 0
        BY DEF ModelInv, ChainOK, Latest
    <2> HIDE DEF r
    <2>5. r.kind \in {"create", "update"} /\ caches[Owner] # Absent
            /\ (~Overlapped => r.content = Body(r.commit))
        BY <2>1, <2>2 DEF TaskOK, KindOK, OwnerOK, StageOK
    <2>6. CASE r.kind = "create"
        <3>1. status = "none"
            BY <2>6 DEF Accepts, r
        <3>2. r.commit = 1 /\ Latest = 0
            BY <2>1, <2>2, <2>4, <2>6, <3>1 DEF TaskOK, CommitOK
        <3>3. 1 \in 1 .. commitIds /\ 1 > 0
            BY <2>3, SMTT(30)
        <3> QED
            BY <2>5, <3>2, <3>3 DEF r
    <2>7. CASE r.kind = "update"
        <3>1. r.floor < r.commit /\ r.commit <= commitIds
            BY <2>1, <2>2, <2>7 DEF TaskOK, CommitOK
        <3>2. r.floor = Latest
            <4>1. r.kind # "create"
                BY <2>7
            <4> QED
                BY <2>4, <4>1 DEF Accepts, r
        <3>3. r.commit \in 1 .. commitIds /\ r.commit > r.floor
            BY <2>2, <2>3, <3>1, SMTT(30)
        <3> QED
            BY <2>5, <3>2, <3>3 DEF r
    <2> QED
        BY <2>5, <2>6, <2>7

<1>HeapKeeps.
    ASSUME ModelInv
    PROVE  Keeps(heap)
    <2> USE <1>HeapKeeps
    <2>1. Len(heap) \in Nat /\ DOMAIN heap = 1 .. Len(heap) /\ heap \in Seq(Order)
        BY Lengths DEF ModelInv, ModelFields
    <2>2. Len(heap) <= Len(heap)
        BY <2>1, SelfOrder
    <2> QED
        BY <2>1, <2>2 DEF Keeps, ModelInv, ModelsOK

<1>CommitUnsavedInv.
    ASSUME ModelInv, NEW t \in Task, CommitUnsaved(t)
    PROVE  ModelInv'
    <2> USE <1>CommitUnsavedInv
    <2> DEFINE r == task[t]
               placed == [commit |-> r.commit, content |-> r.content]
               v == At(r, "failed")
    <2>1. /\ r.pc = "commit" /\ Accepts(IF r.kind = "create" THEN 0 ELSE r.floor) /\ ModelFault
          /\ order' = placed /\ Moves(t, "failed")
          /\ UNCHANGED <<uploadVars, status, commits, commitIds, named>> /\ caches' = caches /\ heap' = heap
        BY DEF CommitUnsaved
    <2>2. Becomes(t, v)
        BY <2>1 DEF Moves
    <2>3. r \in TaskState /\ Len(heap) \in Nat
        BY TaskFacts
    <2>4. r.commit \in 1 .. commitIds /\ r.commit > Latest /\ (~Overlapped => r.content = Body(r.commit))
        BY <2>1, <1>AcceptedFacts
    <2>5. r.commit \in Nat /\ r.content \in Bytes
        BY <2>3 DEF TaskState
    <2> HIDE DEF r
    <2>6. v \in TaskState /\ TaskOK(v, heap', caches'[Owner], commits, commitIds, named, Overlapped)
        BY <2>1, <2>3, AtEnd
    <2> HIDE DEF v
    <2>7. placed \in Order /\ placed.commit = r.commit /\ placed.content = r.content
        BY <2>5, <1>NewModel
    <2> HIDE DEF placed
    <2>8. order' \in Order \cup {Absent} /\ order'.commit \in 1 .. commitIds /\ order'.commit > Latest
            /\ (~Overlapped => order'.content = Body(order'.commit))
        BY <2>1, <2>4, <2>7
    <2>9. Keeps(heap')
        BY <2>1, <1>HeapKeeps
    <2>10. \A a \in Account : CacheOK(caches'[a], heap', named)
        BY <2>1, <2>9, <1>CachesKeep
    <2>11. caches' \in [Account -> Seq(Entry) \cup {Absent}] /\ (caches[Owner] # Absent => caches'[Owner] # Absent)
        BY <2>1 DEF ModelInv, ModelFields
    <2>12. modelFaults' \in Nat
        BY <2>1, FaultsCount
    <2> QED
        BY <2>1, <2>2, <2>6, <2>8, <2>9, <2>10, <2>11, <2>12, <1>ModelStep

<1>CommitModelInv.
    ASSUME ModelInv, NEW t \in Task, CommitModel(t)
    PROVE  ModelInv'
    <2> USE <1>CommitModelInv
    <2> DEFINE r == task[t]
               last == IF r.kind = "create" THEN 0 ELSE r.floor
               placed == [commit |-> r.commit, content |-> r.content]
               m == [commit |-> r.commit, content |-> Kept(r.commit, r.content)]
               o == Len(heap) + 1
               new == cacheModel(caches[Owner], r.commit, o)
               v == [NoTask EXCEPT !.pc = "ok", !.kind = r.kind]
    <2>1. r.pc = "commit" /\ UNCHANGED <<uploadVars, status, commits, commitIds, named>>
            /\ modelFaults' = modelFaults
        BY DEF CommitModel
    <2>2. r \in TaskState /\ Len(heap) \in Nat /\ modelFaults \in Nat /\ heap \in Seq(Order)
        BY TaskFacts DEF ModelInv, ModelFields
    <2>3. CASE ~Accepts(last)
        <3>1. Moves(t, "failed") /\ order' = order /\ heap' = heap /\ caches' = caches
            BY <2>3 DEF CommitModel
        <3>2. UNCHANGED <<uploadVars, chainVars, caches, heap, named>> /\ modelFaults' \in Nat
            BY <2>1, <2>2, <3>1 DEF chainVars
        <3> QED
            BY <3>1, <3>2, FailStep
    <2>4. CASE Accepts(last)
        <3>1. r.kind \in {"create", "update"} /\ r.commit \in 1 .. commitIds /\ r.commit > Latest
                /\ (~Overlapped => r.content = Body(r.commit)) /\ caches[Owner] # Absent
            BY <2>1, <2>4, <1>AcceptedFacts
        <3>2. order' = placed /\ heap' = Append(heap, m) /\ caches' = [caches EXCEPT ![Owner] = new]
                /\ Becomes(t, v)
            BY <2>4, <3>1 DEF CommitModel
        <3>3. r.commit \in Nat /\ r.content \in Bytes
            BY <2>2 DEF TaskState
        <3>4. Kept(r.commit, r.content) \in Bytes
            BY <3>3, NoBytes DEF Kept
        <3> HIDE DEF r
        <3>5. placed \in Order /\ placed.commit = r.commit /\ placed.content = r.content
            BY <3>3, <1>NewModel
        <3>6. m \in Order /\ m.commit = r.commit /\ m.content = Kept(r.commit, r.content)
            BY <3>3, <3>4, <1>NewModel
        <3>7. v \in TaskState /\ TaskOK(v, heap', caches'[Owner], commits, commitIds, named, Overlapped)
            <4>1. r.kind \in {"create", "update", "delete"}
                BY <3>1
            <4>2. Len(heap') \in Nat
                <5>1. Longer(heap', heap, m, Order)
                    BY <2>2, <3>2, <3>6, AppendFacts
                <5> QED
                    BY <2>2, <5>1, SMTT(30) DEF Longer
            <4> QED
                BY <4>1, <4>2, DoneTask
        <3> HIDE DEF placed, m, v
        <3>8. Longer(heap', heap, m, Order)
            BY <2>2, <3>2, <3>6, AppendFacts
        <3>9. ~Overlapped => Whole(m)
            BY <3>1, <3>6 DEF Whole
        <3>10. Keeps(heap')
            BY <3>6, <3>8, <3>9, <1>AppendKeeps
        <3>11. Owner \in Account
            BY ModelAssumption
        <3>12. caches[Owner] \in Seq(Entry) /\ CacheOK(caches[Owner], heap', named)
            BY <3>1, <3>10, <3>11, <1>CachesKeep DEF ModelInv, ModelFields
        <3>13. o \in Nat
            BY <2>2, SMTT(30)
        <3>14. o \in 1 .. Len(heap') /\ heap'[o].commit = r.commit
            BY <3>6, <3>8 DEF Longer
        <3> HIDE DEF o
        <3>15. new \in Seq(Entry) /\ new # Absent /\ CacheOK(new, heap', named)
            BY <3>3, <3>12, <3>13, <3>14, cacheModelFacts
        <3> HIDE DEF new
        <3>16. caches' \in [Account -> Seq(Entry) \cup {Absent}] /\ caches'[Owner] = new
                /\ \A b \in Account : b # Owner => caches'[b] = caches[b]
            BY <3>2, <3>11, <3>15 DEF ModelInv, ModelFields
        <3>17. \A b \in Account : CacheOK(caches'[b], heap', named)
            BY <3>10, <3>15, <3>16, <1>CachesKeep
        <3>18. order' \in Order \cup {Absent} /\ order'.commit \in 1 .. commitIds /\ order'.commit > Latest
                /\ (~Overlapped => order'.content = Body(order'.commit))
            BY <3>1, <3>2, <3>5
        <3>19. caches'[Owner] # Absent /\ modelFaults' \in Nat
            BY <2>1, <2>2, <3>15, <3>16
        <3> QED
            BY <2>1, <3>2, <3>7, <3>10, <3>16, <3>17, <3>18, <3>19, <1>ModelStep
    <2> QED
        BY <2>3, <2>4

<1> QED
    BY <1>PrepareInv, <1>FetchInv, <1>CommitUnsavedInv, <1>CommitModelInv

-----------------------------------------------------------------------------
(* The steps of the whole system.                                          *)

\* A request that has ended needs neither models nor caches.
LEMMA EndedTask ==
    ASSUME NEW r \in TaskState, r.pc \in {"idle", "ok", "failed", "panicked"},
           NEW h, NEW cache, NEW cs, NEW ids, NEW nm, NEW ov,
           TaskOK(r, h, cache, cs, ids, nm, ov)
    PROVE  TaskOK(r, << >>, Absent, cs, ids, nm, ov)
<1>1. r.obj = 0
    BY DEF TaskOK, PointOK
<1>2. r.obj \in 0 .. Len(<< >>)
    BY <1>1, SMTT(30)
<1>3. r.pc \notin {"query", "lookup", "prepare", "fetch", "respond", "exists", "conflict", "patch", "commit"}
    OBVIOUS
<1>4. KindOK(r) /\ OwnerOK(r, Absent) /\ CommitOK(r, ids) /\ StageOK(r, ov)
    BY <1>3 DEF TaskOK, KindOK, OwnerOK, CommitOK, StageOK
<1>5. PointOK(r, << >>)
    BY <1>1, <1>2, <1>3 DEF PointOK
<1>6. (r.kind = "load" /\ ~nm) => LoadOK(r, << >>, cs, ov)
    BY <1>3 DEF TaskOK, LoadOK
<1> QED
    BY <1>4, <1>5, <1>6 DEF TaskOK

\* The gateway stops: requests end, and caches and models are gone.
LEMMA CrashInv ==
    ASSUME UploadInv, ModelInv, Crash
    PROVE  ModelInv'
<1>1. /\ status' = status /\ commits' = commits /\ order' = order /\ commitIds' = commitIds
      /\ named' = named /\ modelFaults' = modelFaults
      /\ caches' = [a \in Account |-> Absent] /\ heap' = << >>
      /\ task' = [t \in Task |->
            IF task[t].pc \in {"idle", "ok", "failed", "panicked"} THEN task[t]
            ELSE At(task[t], "failed")]
    BY DEF Crash, chainVars
<1>2. Overlapped' <=> Overlapped
    BY UploadSteps DEF Crash
<1>3. Overlapped' = Overlapped
    BY <1>2 DEF Overlapped
<1>4. Len(<< >>) \in Nat /\ << >> \in Seq(Order) /\ \A i \in DOMAIN << >> : FALSE
    BY SMTT(30)
<1>5. ASSUME NEW t \in Task
      PROVE  task'[t] \in TaskState
              /\ TaskOK(task'[t], << >>, Absent, commits, commitIds, named, Overlapped)
    <2>1. task[t] \in TaskState
            /\ TaskOK(task[t], heap, caches[Owner], commits, commitIds, named, Overlapped)
        BY TaskFacts
    <2>2. CASE task[t].pc \in {"idle", "ok", "failed", "panicked"}
        <3>1. task'[t] = task[t]
            BY <1>1, <2>2
        <3>2. TaskOK(task[t], << >>, Absent, commits, commitIds, named, Overlapped)
            BY <2>1, <2>2, EndedTask
        <3> QED
            BY <2>1, <3>1, <3>2
    <2>3. CASE task[t].pc \notin {"idle", "ok", "failed", "panicked"}
        <3>1. task'[t] = At(task[t], "failed")
            BY <1>1, <2>3
        <3>2. At(task[t], "failed") \in TaskState
                /\ TaskOK(At(task[t], "failed"), << >>, Absent, commits, commitIds, named, Overlapped)
            BY <1>4, <2>1, AtEnd
        <3> QED
            BY <3>1, <3>2
    <2> QED
        BY <2>2, <2>3
<1>6. caches'[Owner] = Absent /\ \A a \in Account : caches'[a] = Absent
    BY <1>1, ModelAssumption
<1>7. task' \in [Task -> TaskState]
    <2>1. \A t \in Task : task'[t] \in TaskState
        BY <1>5
    <2> QED
        BY <1>1, <2>1
<1>8. ModelFields'
    <2>1. caches' \in [Account -> Seq(Entry) \cup {Absent}]
        BY <1>1
    <2> QED
        BY <1>1, <1>4, <1>7, <2>1 DEF ModelInv, ModelFields
<1>9. ModelsOK'
    BY <1>1, <1>4 DEF ModelsOK
<1>10. ChainOK'
    <2>1. Latest' = Latest
        BY <1>1 DEF Latest
    <2> QED
        BY <1>1, <1>2, <2>1 DEF ModelInv, ChainOK
<1>11. \A a \in Account : CacheOK(caches[a], heap, named)'
    BY <1>6 DEF CacheOK
<1>12. \A t \in Task : TaskOK(task[t], heap, caches[Owner], commits, commitIds, named, Overlapped)'
    <2>1. named' = named
        BY <1>1
    <2> QED
        BY <1>1, <1>3, <1>5, <1>6, <2>1
<1> QED
    BY <1>8, <1>9, <1>10, <1>11, <1>12 DEF ModelInv

\* The steps of uploads, as requests see them.
LEMMA UploadsModelInv ==
    ASSUME UploadInv, ModelInv, UploadsNext, UNCHANGED modelVars
    PROVE  ModelInv'
<1>1. /\ status' = status /\ commits' = commits /\ order' = order /\ commitIds' = commitIds
      /\ caches' = caches /\ heap' = heap /\ task' = task /\ named' = named
      /\ modelFaults' = modelFaults
    BY DEF modelVars, chainVars
<1>2. Overlapped => Overlapped'
    BY UploadSteps DEF UploadsMove
<1>3. (named => named') /\ (named' => named)
    BY <1>1, SMTT(30)
<1>4. ModelFields /\ ModelFields'
    BY <1>1 DEF ModelInv, ModelFields
<1>5. Len(heap) \in Nat /\ Len(commits) \in Nat /\ commitIds \in Nat /\ Newest(commits) \in Nat
    BY <1>4, Lengths
<1>6. Grows
    BY <1>1, <1>2, <1>3, <1>5, SelfOrder DEF Grows
<1>7. ModelsOK'
    BY <1>1, <1>2, <1>3 DEF ModelInv, ModelsOK
<1>8. ChainOK'
    <2>1. Latest' = Latest
        BY <1>1 DEF Latest
    <2> QED
        BY <1>1, <1>2, <2>1 DEF ModelInv, ChainOK
<1>9. \A a \in Account : CacheOK(caches'[a], heap', named')
    BY <1>1, <1>3 DEF ModelInv, CacheOK
<1> QED
    BY <1>1, <1>4, <1>6, <1>7, <1>8, <1>9, NoRequest

\* A step that changes nothing.
LEMMA ModelRests ==
    ASSUME ModelInv, UNCHANGED vars
    PROVE  ModelInv'
<1>1. /\ client' = client
      /\ status' = status /\ commits' = commits /\ order' = order /\ commitIds' = commitIds
      /\ caches' = caches /\ heap' = heap /\ task' = task /\ named' = named
      /\ modelFaults' = modelFaults
    BY DEF vars, uploadVars, modelVars, chainVars
<1>2. Overlapped' = Overlapped /\ Latest' = Latest
    BY <1>1 DEF Overlapped, Latest
<1>3. ModelFields'
    BY <1>1 DEF ModelInv, ModelFields
<1>4. ModelsOK' /\ ChainOK'
    BY <1>1, <1>2 DEF ModelInv, ModelsOK, ChainOK
<1> QED
    BY <1>1, <1>2, <1>3, <1>4 DEF ModelInv

\* Steps of requests and of the chain leave uploads alone.
LEMMA ModelNextRests ==
    ASSUME ModelNext
    PROVE  UNCHANGED uploadVars
<1>1. CASE OrderCompletes \/ OrderExpires
    BY <1>1 DEF OrderCompletes, OrderExpires
<1>2. ASSUME NEW t \in Task,
             BeginRequest(t) \/ RequestStep(t) \/ CommitUnsaved(t) \/ RequestFails(t)
      PROVE  UNCHANGED uploadVars
    <2>1. CASE BeginRequest(t)
        BY <2>1 DEF BeginRequest, ModelLoad, ModelCreate, ModelCreateFile, ModelUpdate,
           ModelDelete, Request
    <2>2. CASE RequestStep(t)
        BY <2>2 DEF RequestStep, QueryMeta, Lookup, Prepare, Fetch, Respond, CreateLookup,
           CreateQuery, UpdateLookup, UpdateFetch, Patch, CommitModel
    <2>3. CASE CommitUnsaved(t) \/ RequestFails(t)
        BY <2>3 DEF CommitUnsaved, RequestFails
    <2> QED
        BY <1>2, <2>1, <2>2, <2>3
<1> QED
    BY <1>1, <1>2 DEF ModelNext

\* Every step of requests and of the chain keeps the invariant.
LEMMA ModelNextInv ==
    ASSUME UploadInv, ModelInv, ModelNext
    PROVE  ModelInv'
<1>1. CASE OrderCompletes \/ OrderExpires
    BY <1>1, ChainStepsInv
<1>2. ASSUME NEW t \in Task,
             BeginRequest(t) \/ RequestStep(t) \/ CommitUnsaved(t) \/ RequestFails(t)
      PROVE  ModelInv'
    <2>1. CASE PlainSteps(t)
        BY <2>1, PlainStepsInv
    <2>2. CASE Lookup(t) \/ UpdateLookup(t) \/ CreateLookup(t)
        BY <2>2, LookupsInv
    <2>3. CASE Prepare(t) \/ Fetch(t) \/ CommitUnsaved(t) \/ CommitModel(t)
        BY <2>3, ModelStepsInv
    <2> QED
        BY <1>2, <2>1, <2>2, <2>3 DEF RequestStep, PlainSteps
<1> QED
    BY <1>1, <1>2 DEF ModelNext

\* The invariant holds of a gateway that starts.
LEMMA ModelStarts ==
    ASSUME Init
    PROVE  ModelInv
<1>1. /\ status \in {"none", "live"} /\ commits = (IF status = "live" THEN <<1>> ELSE << >>)
      /\ order = Absent /\ commitIds = 1 /\ caches = [a \in Account |-> Absent] /\ heap = << >>
      /\ task = [t \in Task |-> NoTask] /\ named = FALSE /\ modelFaults = 0
    BY DEF Init
<1>2. /\ <<1>> \in Seq(Nat) /\ << >> \in Seq(Nat) /\ << >> \in Seq(Order) /\ <<1>> # << >>
      /\ Len(<<1>>) = 1 /\ Len(<< >>) = 0 /\ <<1>>[1] = 1 /\ 0 \in Nat /\ 0 \in 0 .. 0
      /\ \A i \in DOMAIN << >> : FALSE
      /\ \A i \in 1 .. 0 : FALSE
      /\ \A i \in 1 .. 1 : i = 1
    BY SMTT(30)
<1>3. 1 \in 1 .. MaxCommits /\ 1 \in 1 .. 1
    BY ModelAssumption, SMTT(30)
<1>4. ModelFields
    <2>1. commits \in Seq(Nat)
        BY <1>1, <1>2
    <2>2. task \in [Task -> TaskState]
        BY <1>1, NoTaskFacts
    <2>3. caches \in [Account -> Seq(Entry) \cup {Absent}]
        BY <1>1
    <2> QED
        BY <1>1, <1>2, <1>3, <2>1, <2>2, <2>3 DEF ModelFields
<1>5. ModelsOK
    BY <1>1, <1>2 DEF ModelsOK
<1>6. \A a \in Account : CacheOK(caches[a], heap, named)
    BY <1>1 DEF CacheOK
<1>7. ChainOK
    <2>1. CASE status = "live"
        <3>1. commits = <<1>>
            BY <1>1, <2>1
        <3>2. \A i \in 1 .. Len(commits) : commits[i] \in 1 .. commitIds
            BY <1>1, <1>2, <1>3, <3>1
        <3> QED
            BY <1>1, <1>2, <2>1, <3>1, <3>2 DEF ChainOK
    <2>2. CASE status = "none"
        <3>1. commits = << >>
            BY <1>1, <2>2
        <3>2. \A i \in 1 .. Len(commits) : commits[i] \in 1 .. commitIds
            BY <1>2, <3>1
        <3> QED
            BY <1>1, <2>2, <3>1, <3>2 DEF ChainOK
    <2> QED
        BY <1>1, <2>1, <2>2
<1>8. ASSUME NEW t \in Task
      PROVE  TaskOK(task[t], heap, caches[Owner], commits, commitIds, named, Overlapped)
    <2> DEFINE r == task[t]
    <2>1. r.pc = "idle" /\ r.kind = "none" /\ r.obj = 0
        BY <1>1 DEF NoTask
    <2>2. r.obj \in 0 .. Len(heap)
        BY <1>1, <1>2, <2>1
    <2> HIDE DEF r
    <2>3. KindOK(r) /\ OwnerOK(r, caches[Owner]) /\ CommitOK(r, commitIds) /\ StageOK(r, Overlapped)
            /\ PointOK(r, heap)
        BY <2>1, <2>2 DEF KindOK, OwnerOK, CommitOK, StageOK, PointOK
    <2> QED
        BY <2>1, <2>3 DEF TaskOK, r
<1> QED
    BY <1>4, <1>5, <1>6, <1>7, <1>8 DEF ModelInv

\* Every step keeps both invariants.
LEMMA NextInv ==
    ASSUME UploadInv, ModelInv, [Next]_vars
    PROVE  UploadInv' /\ ModelInv'
<1>1. CASE ModelNext
    BY <1>1, ModelNextRests, ModelNextInv, UploadSteps
<1>2. CASE UploadsNext /\ UNCHANGED modelVars
    BY <1>2, UploadSteps, UploadsModelInv
<1>3. CASE Crash
    <2>1. UploadCrash
        BY <1>3 DEF Crash
    <2> QED
        BY <1>3, <2>1, UploadSteps, CrashInv
<1>4. CASE UNCHANGED vars
    <2>1. UNCHANGED uploadVars
        BY <1>4 DEF vars
    <2> QED
        BY <1>4, <2>1, UploadSteps, ModelRests
<1> QED
    BY <1>1, <1>2, <1>3, <1>4 DEF Next

-----------------------------------------------------------------------------
(* The theorems.                                                           *)

\* Uploads and requests keep the invariants, whatever order their steps come
\* in and wherever the gateway stops.
THEOREM ModelInvariance == Spec => [](UploadInv /\ ModelInv)
<1>1. Init => UploadInv /\ ModelInv
    <2> SUFFICES ASSUME Init
                 PROVE  UploadInv /\ ModelInv
        OBVIOUS
    <2>1. UploadInit
        BY DEF Init
    <2> QED
        BY <2>1, UploadSteps, ModelStarts
<1>2. UploadInv /\ ModelInv /\ [Next]_vars => (UploadInv /\ ModelInv)'
    BY NextInv
<1> QED
    BY <1>1, <1>2, PTL DEF Spec

\* The types hold in every reachable state (manager.go, client/transport.go
\* and rpc_handler.go): a cache never exceeds its capacity and an entry never
\* points to a model that is not there.
THEOREM ModelTypeCorrect == Spec => []TypeOK
<1>1. UploadInv /\ ModelInv => TypeOK
    <2> SUFFICES ASSUME UploadInv, ModelInv
                 PROVE  TypeOK
        OBVIOUS
    <2>1. UploadTypeOK
        <3>1. ASSUME NEW c \in Client
              PROVE  /\ client[c].pc \in ClientPc
                     /\ client[c].length \in Length \cup {0}
                     /\ client[c].next \in 0 .. TotalChunks(client[c].length) + 1
                     /\ {client[c].gone, client[c].fault, client[c].overlap} \subseteq BOOLEAN
            <4>1. client[c] \in ClientState /\ client[c].next <= TotalChunks(client[c].length) + 1
                BY DEF UploadInv, UploadFields, UploadOK
            <4>2. /\ client[c].pc \in ClientPc /\ client[c].length \in Length \cup {0}
                  /\ client[c].next \in Nat
                  /\ {client[c].gone, client[c].fault, client[c].overlap} \subseteq BOOLEAN
                BY <4>1 DEF ClientState
            <4>3. client[c].length \in Nat
                <5>1. 0 \in Nat
                    BY SMTT(30)
                <5> QED
                    BY <4>2, <5>1, UploadAssumption
            <4>4. TotalChunks(client[c].length) \in Nat
                BY <4>3, Division
            <4>5. client[c].next \in 0 .. TotalChunks(client[c].length) + 1
                BY <4>1, <4>2, <4>4, SMTT(30)
            <4> QED
                BY <4>2, <4>5
        <3>2. ASSUME NEW n \in Length, record[n] # Absent
              PROVE  record[n].path \in Peer /\ Len(record[n].chunkCids) = TotalChunks(n)
            <4>1. record[n] \in ReceivedFileInfo
                BY <3>2 DEF UploadInv, UploadFields
            <4> QED
                BY <3>2, <4>1 DEF UploadInv, RecordOK, ReceivedFileInfo
        <3>3. uploadFaults \in 0 .. MaxUploadFaults
            BY DEF UploadInv, UploadFields
        <3> QED
            BY <3>1, <3>2, <3>3 DEF UploadTypeOK, ClientPc
    <2>2. Range(commits) \subseteq 1 .. commitIds
        <3>1. commits \in Seq(Nat) /\ \A i \in 1 .. Len(commits) : commits[i] \in 1 .. commitIds
            BY DEF ModelInv, ModelFields, ChainOK
        <3>2. DOMAIN commits = 1 .. Len(commits)
            BY <3>1, SMTT(30)
        <3> QED
            BY <3>1, <3>2 DEF Range
    <2>3. order # Absent => order.commit \in 1 .. commitIds
        BY DEF ModelInv, ChainOK
    <2>4. status \in {"none", "live", "deleted"} /\ commitIds \in 1 .. MaxCommits
        BY DEF ModelInv, ModelFields
    <2>5. DOMAIN heap = 1 .. Len(heap) /\ Len(heap) \in Nat
        BY Lengths DEF ModelInv
    <2>6. ASSUME NEW a \in Account, caches[a] # Absent
          PROVE  /\ CacheCapacity > 0 => Len(caches[a]) <= CacheCapacity
                 /\ \A i \in DOMAIN caches[a] : caches[a][i].obj \in DOMAIN heap
        <3>1. caches[a] \in Seq(Entry) /\ CacheOK(caches[a], heap, named)
            BY <2>6 DEF ModelInv, ModelFields
        <3>2. DOMAIN caches[a] = 1 .. Len(caches[a])
            BY <3>1, SMTT(30)
        <3> QED
            BY <2>5, <2>6, <3>1, <3>2 DEF CacheOK
    <2>7. ASSUME NEW t \in Task
          PROVE  task[t].pc \in TaskPc /\ task[t].obj \in DOMAIN heap \cup {0}
        <3>1. task[t].pc \in TaskPc /\ task[t].obj \in 0 .. Len(heap)
            BY TaskFacts DEF TaskState, TaskOK, PointOK
        <3>2. task[t].obj \in 1 .. Len(heap) \cup {0}
            BY <2>5, <3>1, SMTT(30)
        <3> QED
            BY <2>5, <3>1, <3>2
    <2> QED
        BY <2>1, <2>2, <2>3, <2>4, <2>6, <2>7 DEF TypeOK, TaskPc
<1> QED
    BY <1>1, ModelInvariance, PTL

\* manager.go, loadModel and cacheModel: no request of the owner dereferences
\* a cache that is not there.
THEOREM OwnerNeverPanicsHolds == Spec => []OwnerNeverPanics
<1>1. UploadInv /\ ModelInv => OwnerNeverPanics
    BY DEF ModelInv, TaskOK, OwnerOK, OwnerNeverPanics
<1> QED
    BY <1>1, ModelInvariance, PTL

\* manager.go, Load: an answer is the content of the commit it names, although
\* requests and caches share the models and write to them.
THEOREM LoadIsCommitHolds == Spec => []LoadIsCommit
<1>1. UploadInv /\ ModelInv => LoadIsCommit
    <2> SUFFICES ASSUME ModelInv, NEW t \in Task, Loaded(t), ~named, ~Overlapped
                 PROVE  task[t].content = Kept(task[t].meta, Body(task[t].meta))
        BY DEF LoadIsCommit
    <2>1. LoadOK(task[t], heap, commits, Overlapped)
        BY DEF ModelInv, TaskOK, Loaded
    <2> QED
        BY <2>1 DEF LoadOK, Loaded
<1> QED
    BY <1>1, ModelInvariance, PTL

\* manager.go, Load: an answer names a commit of the chain, and none older than
\* the one that was the latest when the request came in.
THEOREM LoadIsFreshHolds == Spec => []LoadIsFresh
<1>1. UploadInv /\ ModelInv => LoadIsFresh
    <2> SUFFICES ASSUME ModelInv, NEW t \in Task, Loaded(t), ~named
                 PROVE  task[t].meta \in Range(commits) /\ task[t].meta >= task[t].floor
        BY DEF LoadIsFresh
    <2>1. LoadOK(task[t], heap, commits, Overlapped) /\ task[t] \in TaskState
        BY DEF ModelInv, ModelFields, TaskOK, Loaded
    <2>2. (\E i \in 1 .. Len(commits) : commits[i] = task[t].meta) /\ task[t].floor <= task[t].meta
        BY <2>1 DEF LoadOK, Loaded
    <2>3. DOMAIN commits = 1 .. Len(commits)
        BY SMTT(30) DEF ModelInv, ModelFields
    <2>4. task[t].meta \in Range(commits)
        BY <2>2, <2>3 DEF Range
    <2>5. task[t].floor \in Nat /\ task[t].meta \in Nat
        BY <2>1 DEF TaskState
    <2>6. task[t].meta >= task[t].floor
        BY <2>2, <2>5, SMTT(30)
    <2> QED
        BY <2>4, <2>6
<1> QED
    BY <1>1, ModelInvariance, PTL

\* manager.go, Create and Update: what is staged for an order has the CID of
\* the order, from a patch or from a file that was uploaded in any number of
\* attempts.
THEOREM StagedIsCidHolds == Spec => []StagedIsCid
<1>1. UploadInv /\ ModelInv => StagedIsCid
    BY DEF ModelInv, ChainOK, StagedIsCid
<1> QED
    BY <1>1, ModelInvariance, PTL

\* transport.go and rpc_handler.go: an upload that met no failure and no other
\* upload of its content succeeds, whatever an earlier one left behind.
THEOREM CleanUploadSucceedsHolds == Spec => []CleanUploadSucceeds
<1>1. UploadInv /\ ModelInv => CleanUploadSucceeds
    BY DEF UploadInv, UploadOK, CleanUploadSucceeds
<1> QED
    BY <1>1, ModelInvariance, PTL

\* rpc_handler.go, Upload: when a client is told that its upload is done, the
\* file that ModelCreateFile will read is the client's file.
THEOREM SuccessIsWholeHolds == Spec => SuccessIsWhole
<1>1. UploadInv /\ ModelInv /\ [Next]_vars =>
        [\A c \in Client :
            (Active(c) /\ client'[c].pc = "ok" /\ ~client[c].overlap)
                => UploadedFile(client[c].length)' = Content(client[c].length)]_uploadVars
    <2> SUFFICES ASSUME UploadInv, ModelInv, [Next]_vars, ~UNCHANGED uploadVars,
                        NEW c \in Client, Active(c), client'[c].pc = "ok", ~client[c].overlap
                 PROVE  UploadedFile(client[c].length)' = Content(client[c].length)
        OBVIOUS
    <2>1. UploadsNext \/ Crash
        BY ModelNextRests DEF Next, vars
    <2>2. UploadsMove
        BY <2>1, UploadSteps DEF Crash
    <2>3. Answer(c)
        BY <2>2 DEF UploadsMove
    <2> QED
        BY <2>3, UploadSteps
<1> QED
    BY <1>1, ModelInvariance, PTL DEF Spec, SuccessIsWhole
=============================================================================
