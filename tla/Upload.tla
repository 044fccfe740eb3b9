------------------------------- MODULE Upload -------------------------------
(***************************************************************************)
(* How a file reaches the gateway: client/transport.go cuts it into chunks *)
(* and sends them one after the other, node/transport keeps a record of    *)
(* the chunks of a CID in the datastore and the chunks themselves in the   *)
(* staging directory of the sending peer, and puts the file together when  *)
(* an empty chunk arrives.                                                 *)
(*                                                                         *)
(* A byte is its position and a CID is what it is the hash of.  Clients    *)
(* that send the same content share one record, whatever peer they are.    *)
(***************************************************************************)
EXTENDS Integers, Sequences

CONSTANTS
    Client,         \* runs of the upload command
    PeerOf,         \* the peer a client is
    Length,         \* lengths of the files that are sent
    CHUNK_SIZE,
    MaxUploadFaults,    \* bound on the failures of one behaviour
    Absent          \* no file, no record, an empty entry of ChunkCids

ASSUME UploadAssumption ==
    /\ Length \subseteq Nat
    /\ CHUNK_SIZE \in Nat \ {0}
    /\ MaxUploadFaults \in Nat

VARIABLES
    client,     \* the client's upload and the server's handler of its chunk
    record,     \* the datastore: ReceivedFileInfo of a CID
    staged,     \* the staging directory: for a peer and a CID, files by name
    uploadFaults

uploadVars == <<client, record, staged, uploadFaults>>

Content(n) == [i \in 1 .. n |-> i]

TotalChunks(n) == n \div CHUNK_SIZE + 1

\* Where chunk k begins: the bytes before it.
Cut(n, k) == IF k * CHUNK_SIZE < n THEN k * CHUNK_SIZE ELSE n

\* Chunk k of the content; past its end a chunk is empty.
Chunk(n, k) == SubSeq(Content(n), Cut(n, k) + 1, Cut(n, k + 1))

Peer == {PeerOf[c] : c \in Client}

\* Contents, and what names them; the record of a CID.
Bytes == Seq(Nat)

ReceivedFileInfo == [path : Peer, chunkCids : Seq(Bytes \cup {Absent})]

ASSUME AbsentUpload == Absent \notin Bytes /\ Absent \notin ReceivedFileInfo

\* The content of a file, Absent when there is no such file.
FileAt(p, n, name) ==
    IF name \in DOMAIN staged[<<p, n>>] THEN staged[<<p, n>>][name] ELSE Absent

NoUpload == [pc |-> "new", length |-> 0, next |-> 0, info |-> Absent, read |-> << >>,
             gone |-> FALSE, fault |-> FALSE, overlap |-> FALSE]

UploadInit ==
    /\ client = [c \in Client |-> NoUpload]
    /\ record = [n \in Length |-> Absent]
    /\ staged = [d \in Peer \X Length |-> << >>]
    /\ uploadFaults = 0

-----------------------------------------------------------------------------
(* The client.                                                             *)

\* The client or the handler of its last chunk is at work.
Active(c) == client[c].pc \notin {"new", "ok", "failed"}

\* Uploads of the same content that are at work together.
Overlapping(c, n) == {d \in Client \ {c} : Active(d) /\ client[d].length = n}

\* DoTransport and DoTransportTCP: the file is read and its CID computed.
DoTransport(c, n) ==
    /\ client[c].pc = "new"
    /\ LET with == Overlapping(c, n) IN
        client' = [d \in Client |->
            IF d = c THEN [NoUpload EXCEPT !.pc = "send", !.length = n, !.overlap = with # {}]
            ELSE IF d \in with THEN [client[d] EXCEPT !.overlap = TRUE] ELSE client[d]]
    /\ UNCHANGED <<record, staged, uploadFaults>>

Goes(c, pc) == client' = [client EXCEPT ![c].pc = pc]

CurrentChunk(c) == Chunk(client[c].length, client[c].next)

\* The next chunk is on its way to the handler, each on a stream of its own.
SendChunk(c) ==
    /\ client[c].pc = "send"
    /\ Goes(c, IF CurrentChunk(c) = << >> THEN "done" ELSE "chunkInfo")
    /\ UNCHANGED <<record, staged, uploadFaults>>

\* Mutant of Answer: the loop ends one chunk early.
AnswerEarly(c) ==
    /\ client[c].pc = "answer"
    /\ client' = [client EXCEPT
            ![c].pc = IF client[c].gone THEN "failed"
                      ELSE IF client[c].next + 1 < TotalChunks(client[c].length)
                           THEN "send" ELSE "ok",
            ![c].next = @ + 1]
    /\ UNCHANGED <<record, staged, uploadFaults>>

\* The handler answers with the CID of what it got, the chunk's.  The loop
\* runs while chunkId <= totalChunks.  A client that is gone hears nothing.
Answer(c) ==
    /\ client[c].pc = "answer"
    /\ client' = [client EXCEPT
            ![c].pc = IF client[c].gone THEN "failed"
                      ELSE IF client[c].next + 1 <= TotalChunks(client[c].length)
                           THEN "send" ELSE "ok",
            ![c].next = @ + 1]
    /\ UNCHANGED <<record, staged, uploadFaults>>

-----------------------------------------------------------------------------
(* The handler of a chunk with content.                                    *)

NewInfo(c) ==
    [path |-> PeerOf[c],
     chunkCids |-> [i \in 1 .. TotalChunks(client[c].length) |->
                        IF i = 1 THEN CurrentChunk(c) ELSE Absent]]

\* Mutant of handleChunkInfo: chunk 0 does not start a record of its own when
\* one is there.
handleChunkInfoResume(c) ==
    LET n == client[c].length
        i == client[c].next + 1
    IN
    /\ client[c].pc = "chunkInfo"
    /\ record' = [record EXCEPT ![n] =
            IF @ = Absent
            THEN IF i = 1 THEN NewInfo(c) ELSE Absent
            ELSE IF @.chunkCids[i] = Absent
                 THEN [@ EXCEPT !.chunkCids[i] = CurrentChunk(c)] ELSE @]
    /\ Goes(c, "create")
    /\ UNCHANGED <<staged, uploadFaults>>

\* Under DbLk.  Chunk 0 starts the record, with the directory of its sender,
\* whatever is there.  Another chunk needs the record; one that was received
\* already is logged and changes nothing.  Either way Upload goes on.
handleChunkInfo(c) ==
    LET n == client[c].length
        i == client[c].next + 1
    IN
    /\ client[c].pc = "chunkInfo"
    /\ record' = [record EXCEPT ![n] =
            IF i = 1 THEN NewInfo(c)
            ELSE IF @ # Absent /\ @.chunkCids[i] = Absent
                 THEN [@ EXCEPT !.chunkCids[i] = CurrentChunk(c)] ELSE @]
    /\ Goes(c, "create")
    /\ UNCHANGED <<staged, uploadFaults>>

\* The files of a directory once one of them has this content.
With(files, name, content) ==
    [x \in DOMAIN files \cup {name} |-> IF x = name THEN content ELSE files[x]]

WriteFile(c, p, name, content, next) ==
    /\ staged' = [staged EXCEPT ![<<p, client[c].length>>] = With(@, name, content)]
    /\ Goes(c, next)
    /\ UNCHANGED <<record, uploadFaults>>

\* os.Create makes the file empty, also when it is there already.
CreateFile(c, p, name, next) == WriteFile(c, p, name, << >>, next)

\* The chunk goes to a file named after it, in the directory of its sender.
UploadCreate(c) ==
    /\ client[c].pc = "create"
    /\ CreateFile(c, PeerOf[c], CurrentChunk(c), "write")

UploadWrite(c) ==
    /\ client[c].pc = "write"
    /\ WriteFile(c, PeerOf[c], CurrentChunk(c), CurrentChunk(c), "answer")

-----------------------------------------------------------------------------
(* The handler of an empty chunk.                                          *)

\* Without a record the answer is an error.
UploadDone(c) ==
    LET info == record[client[c].length] IN
    /\ client[c].pc = "done"
    /\ client' = [client EXCEPT ![c].info = info,
                                ![c].pc = IF info = Absent THEN "failed" ELSE "assemble"]
    /\ UNCHANGED <<record, staged, uploadFaults>>

\* The files ChunkCids names are read in turn, from the directory of the
\* record.  A chunk that was never recorded has an empty name, which is the
\* directory itself: reading it is an error, as opening a missing file is.
ReadChunk(c) ==
    LET u == client[c]
        name == u.info.chunkCids[1]
        content == IF name = Absent THEN Absent ELSE FileAt(u.info.path, u.length, name)
    IN
    /\ u.pc = "assemble"
    /\ u.info.chunkCids # << >>
    /\ client' = [client EXCEPT ![c] =
            IF content = Absent
            THEN [u EXCEPT !.pc = "failed", !.info = Absent, !.read = << >>]
            ELSE [u EXCEPT !.info.chunkCids = Tail(@), !.read = @ \o content]]
    /\ UNCHANGED <<record, staged, uploadFaults>>

\* The file is named after the CID of the request.  The CID of what was read
\* is logged, not compared.
CreateWhole(c) ==
    /\ client[c].pc = "assemble"
    /\ client[c].info.chunkCids = << >>
    /\ CreateFile(c, client[c].info.path, Content(client[c].length), "writeWhole")

WriteWhole(c) ==
    LET u == client[c] IN
    /\ u.pc = "writeWhole"
    /\ staged' = [staged EXCEPT ![<<u.info.path, u.length>>] =
            With(@, Content(u.length), u.read)]
    /\ client' = [client EXCEPT ![c].pc = "answer", ![c].info = Absent, ![c].read = << >>]
    /\ UNCHANGED <<record, uploadFaults>>

-----------------------------------------------------------------------------
(* What goes wrong.                                                        *)

UploadFault == uploadFaults < MaxUploadFaults /\ uploadFaults' = uploadFaults + 1

Broken(u) ==
    [NoUpload EXCEPT !.pc = "failed", !.fault = TRUE, !.length = u.length, !.overlap = u.overlap]

\* A call of the handler fails (no staging space, an I/O error): the client
\* hears of it and gives up.
UploadFails(c) ==
    /\ Active(c)
    /\ UploadFault
    /\ client' = [client EXCEPT ![c] = Broken(@)]
    /\ UNCHANGED <<record, staged>>

\* The connection breaks: the client gives up, the handler runs to its end.
ConnectionLost(c) ==
    /\ Active(c)
    /\ client[c].pc # "send"
    /\ ~client[c].gone
    /\ UploadFault
    /\ client' = [client EXCEPT ![c].gone = TRUE, ![c].fault = TRUE]
    /\ UNCHANGED <<record, staged>>

\* The gateway stops: every handler is cut off where it is, the datastore and
\* the staging directory stay.
UploadCrash ==
    /\ UploadFault
    /\ client' = [c \in Client |->
            IF Active(c) THEN Broken(client[c]) ELSE client[c]]
    /\ UNCHANGED <<record, staged>>

UploadStep(c) ==
    \/ SendChunk(c) \/ Answer(c)
    \/ handleChunkInfo(c) \/ UploadCreate(c) \/ UploadWrite(c)
    \/ UploadDone(c) \/ ReadChunk(c) \/ CreateWhole(c) \/ WriteWhole(c)

-----------------------------------------------------------------------------
(* Properties.                                                             *)

\* The type of the state of uploads (client/transport.go, rpc_handler.go).
UploadTypeOK ==
    /\ \A c \in Client :
        /\ client[c].pc \in {"new", "send", "chunkInfo", "create", "write", "done", "assemble",
                             "writeWhole", "answer", "ok", "failed"}
        /\ client[c].length \in Length \cup {0}
        /\ client[c].next \in 0 .. TotalChunks(client[c].length) + 1
        /\ {client[c].gone, client[c].fault, client[c].overlap} \subseteq BOOLEAN
    /\ \A n \in Length :
        record[n] # Absent =>
            /\ record[n].path \in Peer
            /\ Len(record[n].chunkCids) = TotalChunks(n)
    /\ uploadFaults \in 0 .. MaxUploadFaults

\* The file ModelCreateFile will read for the content of length n.
UploadedFile(n) ==
    IF record[n] = Absent THEN Absent ELSE FileAt(record[n].path, n, Content(n))

\* rpc_handler.go, Upload: when a client is told that its upload is done, the
\* file the record leads to is the client's file, whatever earlier uploads of
\* the same content by other peers, broken connections and crashes have left
\* in the record and in the staging directory.  (Uploads of the same content
\* that run at the same time share the record and are excluded.)
SuccessIsWhole ==
    [][\A c \in Client :
        (Active(c) /\ client'[c].pc = "ok" /\ ~client[c].overlap)
            => UploadedFile(client[c].length)' = Content(client[c].length)]_uploadVars

\* transport.go and rpc_handler.go: an upload that met no failure and no other
\* upload of the same content succeeds, whatever an earlier one left behind.
\* (Except for a length that is a multiple of CHUNK_SIZE: the last chunk is
\* then empty and its place in the record stays empty.)
CleanUploadSucceeds ==
    \A c \in Client :
        (client[c].pc = "failed" /\ ~client[c].fault /\ ~client[c].overlap)
            => client[c].length % CHUNK_SIZE = 0
=============================================================================
