-------------------------- MODULE MCModelManager --------------------------
(***************************************************************************)
(* ModelManager and Upload for TLC.  A behaviour is about uploads and a    *)
(* model created from them, or about requests that create a model, or      *)
(* about requests on a model that is on the chain, at a gateway that has   *)
(* just started.  Requests are numbered in the order they come in.         *)
(* Uploads are of the same content, as only those share state; two of the  *)
(* clients are the same peer.                                              *)
(***************************************************************************)
EXTENDS ModelManager, FiniteSets, TLC

CONSTANTS c1, c2, c3, p1, p2, owner, reader, MaxUploads, MaxCreates, MaxFaults

VARIABLE scenario

MCPeerOf == (c1 :> p1) @@ (c2 :> p1) @@ (c3 :> p2)

mcVars == <<vars, scenario>>

Started(t) == task[t].pc = "idle" /\ task'[t].pc # "idle"

MCInit ==
    /\ Init
    /\ scenario \in IF status = "live" THEN {"requests"} ELSE {"uploads", "creates"}

\* Two uploads at most; one of a length that is a multiple of CHUNK_SIZE.
UploadBounds ==
    LET started == {c \in Client : client'[c].pc # "new"} IN
    /\ Cardinality(started) <= MaxUploads
    /\ Cardinality({client'[c].length : c \in started}) <= 1
    /\ client[c1].pc = "new" => client'[c2].pc = "new"
    /\ (\E c \in started : client'[c].length % CHUNK_SIZE = 0) => Cardinality(started) = 1

RequestBounds ==
    \A t \in Task : Started(t) =>
        /\ \A u \in Task : u < t => task[u].pc # "idle"
        /\ task'[t].account # Owner => task'[t].keyword = "alias"
        /\ task'[t].keyword = "alias" => task'[t].commit = 0
        /\ scenario = "uploads" =>
            /\ t <= MaxCreates
            /\ \/ task'[t].pc = "failed"
               \/ task'[t].kind = "create" /\ task'[t].content = UploadedFile(FirstLength)
        /\ scenario = "requests" => task'[t].kind # "create" /\ task'[t].account = Owner

MCNext ==
    /\ \/ scenario = "uploads" /\ UploadsNext /\ UNCHANGED modelVars /\ UploadBounds
       \/ ModelNext /\ RequestBounds
       \/ Crash
    /\ uploadFaults' + modelFaults' <= MaxFaults
    /\ UNCHANGED scenario

MCSpec == MCInit /\ [][MCNext]_mcVars /\ Fairness
===========================================================================
