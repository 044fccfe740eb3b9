-------------------------------- MODULE Wire --------------------------------
(***************************************************************************)
(* Where the codec of Cbor meets the network and the disk.                 *)
(*                                                                         *)
(* A call is one request of the shard protocols: the requester of          *)
(* gateway_protocol_stream.go or storage_protocol_stream.go, HandleRequest *)
(* and DoRequest of transport/shard.go, and the stream handler at the      *)
(* other end.  Either side may see any prefix of what the other has        *)
(* written: a deadline passes, or the connection is reset.                 *)
(*                                                                         *)
(* A record is saved and read back with the same codec                     *)
(* (utils/state_utils.go).                                                 *)
(***************************************************************************)
EXTENDS Cbor

CONSTANTS
    Value,        \* the values of each type that are sent or saved
    Forwarded,    \* the ShardLoadReq sent with isForward
    RelayPeers,   \* the number of peers in the peerstore
    MaxSaves,     \* bound: how often a record is saved
    None

ASSUME WireAssumption ==
    /\ DOMAIN Value = Type
    /\ Forwarded \subseteq Value["ShardLoadReq"]
    /\ RelayPeers \in Nat /\ MaxSaves \in Nat

Protocol == {"assign", "complete", "store", "load", "migrate"}

(* The types of the request and of the response of a handler. *)
ReqType(h) ==
    CASE h = "assign" -> "ShardAssignReq"
      [] h = "complete" -> "ShardCompleteReq"
      [] h = "migrate" -> "ShardMigrateReq"
      [] h \in {"store", "load", "relay"} -> "ShardLoadReq"
RespType(h) ==
    CASE h = "assign" -> "ShardAssignResp"
      [] h = "complete" -> "ShardCompleteResp"
      [] h = "migrate" -> "ShardMigrateResp"
      [] h \in {"store", "load", "relay"} -> "ShardLoadResp"

Success == Uint(0)
InvalidRequest == Uint(1)
InternalErr == Uint(3)

VARIABLES
    call,      \* what is requested or recorded, fixed from the start
    client,    \* pc and retryTimes of HandleRequest, the stream it uses
    resp,      \* the response variable of the requester
    stream,    \* the streams opened: 0 to the server, the others to relays
    disk,      \* the bytes of the record
    kept,      \* the value last saved without an error
    loaded,    \* what reading the record gave
    saves      \* the number of saves so far

recordVars == <<disk, kept, loaded, saves>>
callVars == <<client, resp, stream>>
vars == <<call, callVars, recordVars>>

-----------------------------------------------------------------------------
(* What each side says. *)

Zero(T) == ZeroOf(Struct(T))

Response(h, code) ==
    [Zero(RespType(h)) EXCEPT !.Code = code,
        !.Message = IF code = Success THEN @ ELSE Text("error", 1)]

Echo(r, req) ==
    [r EXCEPT !.OrderId = req.OrderId, !.Cid = req.Cid,
              !.RequestId = req.RequestId, !.ResponseId = SInt(1)]

(* The response a requester makes up when HandleRequest returns an error. *)
TransportError(h, req) ==
    CASE h \in {"store", "load"} -> Echo(Response(h, InternalErr), req)
      [] h = "complete" ->
             [Response(h, InternalErr) EXCEPT !.Recoverable = Bool(TRUE)]
      [] OTHER -> Response(h, InternalErr)

(* The response of a stream handler to a request it cannot read. *)
Refusal(h, req) ==
    CASE h = "load" -> Echo(Response(h, InvalidRequest), req)
      [] h = "migrate" -> Response(h, InternalErr)
      [] OTHER -> Response(h, InvalidRequest)

Contents == {Bytes("content", n) : n \in {0, ByteArrayMaxLen, ByteArrayMaxLen + 1}}

(* The responses of HandleShardAssign, HandleShardComplete,                *)
(* HandleShardStore, HandleShardLoad and HandleShardMigrate; None is a     *)
(* relay that knows no such peer and closes the stream.                    *)
Answers(h, req) ==
    CASE h \in {"assign", "complete"} ->
             {Response(h, Success), Response(h, InternalErr)}
      [] h = "migrate" ->
             {[Response(h, Success) EXCEPT !.CompleteHash = Text("hash", 1),
                                           !.CompleteHeight = SInt(1)],
              Response(h, InternalErr)}
      [] OTHER ->
             {Echo(Response(h, InternalErr), req)} \cup
             {Echo([Response(h, Success) EXCEPT !.Content = c], req) :
                 c \in Contents} \cup
             (IF h = "relay" THEN {None} ELSE {})

-----------------------------------------------------------------------------
Closed == [handler |-> None, up |-> <<>>, wclosed |-> FALSE, pc |-> "none",
           refused |-> FALSE, got |-> None, answer |-> None]

Calls ==
    UNION {[proto : {h}, type : {ReqType(h)}, req : Value[ReqType(h)],
            forward : {FALSE}] : h \in Protocol}
    \cup [proto : {"load"}, type : {"ShardLoadReq"}, req : Forwarded,
          forward : {TRUE}]
Records == [proto : {"record"}, type : Type, req : {None}, forward : {FALSE}]

Init ==
    /\ call \in Calls \cup Records
    /\ client = [pc |-> IF call.proto = "record" THEN "returned" ELSE "dial",
                 retryTimes |-> 0, on |-> 0]
    /\ resp = None
    /\ stream = [i \in 0..RelayPeers |-> Closed]
    /\ disk = <<>> /\ kept = None /\ loaded = None /\ saves = 0

Open(i, h) == stream' = [stream EXCEPT ![i].handler = h, ![i].pc = "idle"]

(* HandleRequest returns an error. *)
Fails ==
    /\ client' = [client EXCEPT !.pc = "returned"]
    /\ resp' = TransportError(call.proto, call.req)

-----------------------------------------------------------------------------
(* HandleRequest. *)

(* A bad address, no known peer, or Connect or NewStream failed. *)
DialFails ==
    /\ client.pc = "dial"
    /\ Fails
    /\ UNCHANGED <<call, stream, recordVars>>

Dial ==
    /\ client.pc = "dial"
    /\ Open(0, call.proto)
    /\ client' = [client EXCEPT !.pc = "send"]
    /\ UNCHANGED <<call, resp, recordVars>>

(* NewStream failed after Connect, and the request may be forwarded. *)
DialRelay ==
    /\ client.pc = "dial" /\ call.forward
    /\ client' = [client EXCEPT !.pc = "relay", !.on = 1]
    /\ UNCHANGED <<call, resp, stream, recordVars>>

(* The peer of the peerstore may be a gateway or a storage node. *)
OpenRelay(h) ==
    /\ client.pc = "relay" /\ client.on <= RelayPeers
    /\ Open(client.on, h)
    /\ client' = [client EXCEPT !.pc = "send"]
    /\ UNCHANGED <<call, resp, recordVars>>

(* NewStream fails; the nil stream is used all the same. *)
RelayPanics ==
    /\ client.pc = "relay" /\ client.on <= RelayPeers
    /\ client' = [client EXCEPT !.pc = "panic"]
    /\ UNCHANGED <<call, resp, stream, recordVars>>

NoMoreRelays ==
    /\ client.pc = "relay" /\ client.on > RelayPeers
    /\ Fails
    /\ UNCHANGED <<call, stream, recordVars>>

(* Mutant of Retry: the attempts are not counted.                           *)
RetryForever ==
    /\ client' = [client EXCEPT !.pc = "send"]
    /\ UNCHANGED resp
(* What follows an error of DoRequest: the same stream again, at most      *)
(* three times, or the next relay.                                         *)
Retry ==
    \/ /\ client.on = 0 /\ client.retryTimes > 2
       /\ Fails
    \/ /\ client.on = 0 /\ client.retryTimes <= 2
       /\ client' = [client EXCEPT !.pc = "send", !.retryTimes = @ + 1]
       /\ UNCHANGED resp
    \/ /\ client.on > 0
       /\ client' = [client EXCEPT !.pc = "relay", !.on = @ + 1]
       /\ UNCHANGED resp

-----------------------------------------------------------------------------
(* DoRequest on the stream in use. *)
InUse == stream[client.on]

Encoded ==
    [h \in Protocol |-> [v \in Value[ReqType(h)] |-> Marshal(ReqType(h), v)]]
Request == Encoded[call.proto][call.req]

Send ==
    /\ client.pc = "send" /\ ~InUse.wclosed /\ Request.ok
    /\ stream' = [stream EXCEPT ![client.on].up = @ \o Request.out,
                                ![client.on].wclosed = TRUE]
    /\ client' = [client EXCEPT !.pc = "recv"]
    /\ UNCHANGED <<call, resp, recordVars>>

(* Marshal returns an error, after writing what it could. *)
SendFails ==
    /\ client.pc = "send" /\ (InUse.wclosed \/ ~Request.ok)
    /\ stream' = [stream EXCEPT ![client.on].up =
                     IF InUse.wclosed THEN @ ELSE @ \o Request.out]
    /\ Retry
    /\ UNCHANGED <<call, recordVars>>

Down(i) ==
    IF i \notin DOMAIN stream \/ stream[i].answer = None THEN <<>>
    ELSE Marshal(RespType(stream[i].handler), stream[i].answer).out

(* What Unmarshal makes of the part of a message that arrives. *)
Read(T, sent) ==
    UNION {{Unmarshal(T, SubSeq(bytes, 1, n)) : n \in 0..Len(bytes)} :
           bytes \in {sent}}

(* The read deadline passes before a byte arrives. *)
Deadline ==
    /\ client.pc = "recv"
    /\ Retry
    /\ UNCHANGED <<call, stream, recordVars>>

Receive ==
    /\ client.pc = "recv"
    /\ \E r \in Read(RespType(call.proto), Down(client.on)) :
           \/ /\ r.ok
              /\ resp' = r.val
              /\ client' = [client EXCEPT !.pc = "returned"]
           \/ ~r.ok /\ Retry
    /\ UNCHANGED <<call, stream, recordVars>>

(* The context ends first.  The goroutine of DoRequest goes on and writes  *)
(* to the response the requester fills in at the same time.                *)
Cancel ==
    /\ client.pc \in {"send", "recv"}
    /\ client' = [client EXCEPT !.pc = "cancelled"]
    /\ \/ resp' = TransportError(call.proto, call.req)
       \/ /\ client.pc = "recv"
          /\ \E r \in Read(RespType(call.proto), Down(client.on)) :
                 resp' = r.val
    /\ UNCHANGED <<call, stream, recordVars>>

-----------------------------------------------------------------------------
(* The stream handlers of the server. *)

(* Mutant of HandleRead: every handler forgets to return.                   *)
HandleReadAnyway(h, r) == r.val
(* All but one return after a request they cannot read; handleShardAssign  *)
(* goes on to handle what it has.                                          *)
HandleRead(h, r) == IF r.ok \/ h = "assign" THEN r.val ELSE None

ServerRead(i) ==
    /\ stream[i].pc = "idle"
    /\ LET h == stream[i].handler IN
       \E r \in Read(ReqType(h), stream[i].up) :
           stream' = [stream EXCEPT ![i] =
               [@ EXCEPT !.got = HandleRead(h, r),
                         !.pc = IF r.ok THEN "handle" ELSE "closed",
                         !.refused = ~r.ok,
                         !.answer = IF r.ok THEN None ELSE Refusal(h, r.val)]]
    /\ UNCHANGED <<call, client, resp, recordVars>>

ServerAnswer(i) ==
    /\ stream[i].pc = "handle"
    /\ \E a \in Answers(stream[i].handler, stream[i].got) :
           stream' = [stream EXCEPT ![i].answer = a, ![i].pc = "closed"]
    /\ UNCHANGED <<call, client, resp, recordVars>>

-----------------------------------------------------------------------------
(* A record of the datastore. *)

(* Mutant of Save: the error of MarshalCBOR is ignored.                     *)
SavePartly(v) ==
    /\ call.proto = "record" /\ saves < MaxSaves
    /\ saves' = saves + 1
    /\ \E w \in {Marshal(call.type, v)} :
       /\ disk' = w.out
       /\ kept' = IF w.ok THEN v ELSE kept
    /\ UNCHANGED <<call, callVars, loaded>>
(* Save: MarshalCBOR into a buffer, Put when there was no error. *)
Save(v) ==
    /\ call.proto = "record" /\ saves < MaxSaves
    /\ saves' = saves + 1
    /\ \E w \in {Marshal(call.type, v)} :
       /\ disk' = IF w.ok THEN w.out ELSE disk
       /\ kept' = IF w.ok THEN v ELSE kept
    /\ UNCHANGED <<call, callVars, loaded>>

Load ==
    /\ call.proto = "record" /\ disk # <<>>
    /\ loaded' = Unmarshal(call.type, disk)
    /\ UNCHANGED <<call, callVars, disk, kept, saves>>

-----------------------------------------------------------------------------
ClientStep ==
    \/ DialFails \/ Dial \/ DialRelay
    \/ \E h \in {"relay", "load"} : OpenRelay(h)
    \/ RelayPanics \/ NoMoreRelays
    \/ Send \/ SendFails
    \/ Deadline \/ Receive

Next ==
    \/ ClientStep
    \/ Cancel
    \/ \E i \in 0..RelayPeers : ServerRead(i) \/ ServerAnswer(i)
    \/ \E v \in Value[call.type] : Save(v)
    \/ Load

(* A requester is a goroutine, and every blocking step of it ends: reads   *)
(* have a deadline and the retries are counted.  Nothing is assumed of the *)
(* server.                                                                 *)
Spec == Init /\ [][Next]_vars /\ WF_vars(ClientStep)

-----------------------------------------------------------------------------
(* The variables keep their shape: responses are values of the response    *)
(* type of the protocol and streams are used by known handlers.            *)
TypeOK ==
    /\ call \in Calls \cup Records
    /\ client.pc \in {"dial", "relay", "send", "recv", "returned",
                      "cancelled", "panic"}
    /\ client.retryTimes \in 0..3 /\ client.on \in 0..(RelayPeers + 1)
    /\ resp # None => DOMAIN resp = DOMAIN UnmarshalOf[RespType(call.proto)]
    /\ \A i \in DOMAIN stream :
           /\ stream[i].handler \in Protocol \cup {"relay", None}
           /\ stream[i].pc \in {"none", "idle", "handle", "closed"}
    /\ saves \in 0..MaxSaves

(* A handler is only ever given the request that was sent, however the     *)
(* stream was cut and however often the requester wrote to it.  The one    *)
(* exception is handleShardAssign, which handles a request it has refused: *)
(* then every field is the one sent or was not read at all.                *)
HandledIsSent ==
    \A i \in DOMAIN stream :
        LET st == stream[i] IN
        st.got # None =>
            \/ st.got = call.req
            \/ /\ st.handler = "assign" /\ st.refused
               /\ \A f \in DOMAIN st.got :
                      st.got[f] \in {call.req[f], Zero("ShardAssignReq")[f]}

(* When a requester returns Code 0, the handler at the other end was given *)
(* exactly its request and gave exactly this response.  (Not so when the   *)
(* context was cancelled: then the response is whatever the two goroutines *)
(* left in the variable.)                                                  *)
SuccessMeansHandled ==
    client.pc = "returned" /\ resp # None =>
        (resp.Code = Success =>
            /\ stream[client.on].got = call.req
            /\ stream[client.on].answer = resp)

(* Reading a record back gives the value of the last save that returned no *)
(* error, with nothing left over; a save that fails does not touch it.     *)
LoadGivesSaved == [][Load => loaded' = Got(kept, <<>>)]_vars

(* A record with a field this version does not know is read as if the      *)
(* field were not there, whatever value it has.                            *)
UnknownValues ==
    {<<Header("tag", 42), Cid("new")>>,
     <<Header("array", 2), Uint(1), Header("array", 0)>>,
     <<Header("map", 1), Text("new", 1), Header("neg", 0)>>}
UnknownFieldIgnored ==
    disk # <<>> =>
        \A items \in UnknownValues :
            Unmarshal(call.type,
                <<Header("map", MarshalOf[call.type].header + 1),
                  Text("New", 1)>> \o items \o Tail(disk))
            = Got(kept, <<>>)

(* A requester always returns, whatever the server does: DoRequest has     *)
(* deadlines and HandleRequest counts its retries.                         *)
CallReturns == <>(client.pc \in {"returned", "cancelled", "panic"})
=============================================================================
