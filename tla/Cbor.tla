------------------------------- MODULE Cbor -------------------------------
(***************************************************************************)
(* The CBOR codec of types/cbor_gen.go: the records a node keeps in its    *)
(* datastore and the messages it exchanges over libp2p streams.  Every     *)
(* MarshalCBOR is the number of fields its header byte announces and the   *)
(* fields it writes, in order; every UnmarshalCBOR is the switch from a    *)
(* field's name to the reader of its value.  A stream is a sequence of     *)
(* items, a value is the item (or the structure of items) it is written    *)
(* as, and a text, a byte string or a list carries its length, because     *)
(* the codec has limits on it.                                             *)
(***************************************************************************)
EXTENDS Integers, Sequences, SequencesExt, TLC

CONSTANTS
    MaxLength,          \* cbg.MaxLength: texts, lists, fields of a map
    ByteArrayMaxLen,    \* cbg.ByteArrayMaxLen: byte strings
    MaxShards,          \* the limit 4096 on OrderInfo.Shards
    Provider            \* the keys of OrderInfo.Shards, in sort.Strings order

ASSUME CborAssumption ==
    /\ MaxLength \in Nat /\ ByteArrayMaxLen \in Nat /\ MaxShards \in Nat
    /\ MaxLength >= 15
    /\ Provider \in Seq(STRING)

(* The kinds of field. *)
U == <<"uint", "">>
I == <<"int", "">>
S == <<"text", "">>
B == <<"bytes", "">>
C == <<"cid", "">>
L == <<"bool", "">>
Struct(T) == <<"struct", T>>
List(T) == <<"list", T>>
MapOf(T) == <<"map", T>>

Fields(n, seq) == [header |-> n, fields |-> seq]

-----------------------------------------------------------------------------
(* Records of the datastore. *)

MarshalShardExpireKey == Fields(1, << <<"ShardId", U>> >>)
UnmarshalShardExpireKey == [ShardId |-> U]

MarshalShardExpireIndex == Fields(1, << <<"Alls", List("ShardExpireKey")>> >>)
UnmarshalShardExpireIndex == [Alls |-> List("ShardExpireKey")]

MarshalShardExpireInfo ==
    Fields(3, << <<"ShardId", U>>, <<"Cid", S>>, <<"OrderId", U>> >>)
UnmarshalShardExpireInfo == [ShardId |-> U, Cid |-> S, OrderId |-> U]

MarshalOrderKey == Fields(1, << <<"DataId", S>> >>)
UnmarshalOrderKey == [DataId |-> S]

MarshalOrderIndex == Fields(1, << <<"Alls", List("OrderKey")>> >>)
UnmarshalOrderIndex == [Alls |-> List("OrderKey")]

MarshalOrderShardInfo ==
    Fields(6, << <<"ShardId", U>>, <<"Peer", S>>, <<"Cid", S>>,
                 <<"Provider", S>>, <<"State", S>>, <<"CompleteHash", S>> >>)
UnmarshalOrderShardInfo ==
    [ShardId |-> U, Peer |-> S, Cid |-> S, Provider |-> S, State |-> S,
     CompleteHash |-> S]

MarshalOrderInfo ==
    Fields(14, << <<"DataId", S>>, <<"Owner", S>>, <<"Cid", C>>,
                  <<"StagePath", S>>, <<"OrderId", U>>, <<"OrderHash", S>>,
                  <<"OrderTxType", S>>, <<"OrderHeight", I>>,
                  <<"Shards", MapOf("OrderShardInfo")>>,
                  <<"ExpireHeight", U>>, <<"State", U>>, <<"Tries", U>>,
                  <<"RetryAt", I>>, <<"LastErr", S>> >>)
UnmarshalOrderInfo ==
    [DataId |-> S, Owner |-> S, Cid |-> C, StagePath |-> S, OrderId |-> U,
     OrderHash |-> S, OrderTxType |-> S, OrderHeight |-> I,
     Shards |-> MapOf("OrderShardInfo"), ExpireHeight |-> U, State |-> U,
     Tries |-> U, RetryAt |-> I, LastErr |-> S]

MarshalShardKey == Fields(2, << <<"OrderId", U>>, <<"Cid", C>> >>)
UnmarshalShardKey == [OrderId |-> U, Cid |-> C]

MarshalShardInfo ==
    Fields(15, << <<"OrderId", U>>, <<"DataId", S>>, <<"Cid", C>>,
                  <<"Owner", S>>, <<"Gateway", S>>, <<"OrderOperation", S>>,
                  <<"ShardOperation", S>>, <<"CompleteHash", S>>,
                  <<"CompleteHeight", I>>, <<"Size", U>>, <<"Tries", U>>,
                  <<"ExpireHeight", U>>, <<"State", U>>, <<"RetryAt", I>>,
                  <<"LastErr", S>> >>)
UnmarshalShardInfo ==
    [OrderId |-> U, DataId |-> S, Cid |-> C, Owner |-> S, Gateway |-> S,
     OrderOperation |-> S, ShardOperation |-> S, CompleteHash |-> S,
     CompleteHeight |-> I, Size |-> U, Tries |-> U, ExpireHeight |-> U,
     State |-> U, RetryAt |-> I, LastErr |-> S]

MarshalShardIndex == Fields(1, << <<"All", List("ShardKey")>> >>)
UnmarshalShardIndex == [All |-> List("ShardKey")]

MarshalMigrateKey == Fields(2, << <<"DataId", S>>, <<"FromProvider", S>> >>)
UnmarshalMigrateKey == [DataId |-> S, FromProvider |-> S]

MarshalMigrateInfo ==
    Fields(10, << <<"DataId", S>>, <<"OrderId", U>>, <<"Cid", S>>,
                  <<"FromProvider", S>>, <<"ToProvider", S>>,
                  <<"MigrateTxHash", S>>, <<"MigrateTxHeight", I>>,
                  <<"CompleteTxHash", S>>, <<"CompleteTxHeight", I>>,
                  <<"State", U>> >>)
UnmarshalMigrateInfo ==
    [DataId |-> S, OrderId |-> U, Cid |-> S, FromProvider |-> S,
     ToProvider |-> S, MigrateTxHash |-> S, MigrateTxHeight |-> I,
     CompleteTxHash |-> S, CompleteTxHeight |-> I, State |-> U]

MarshalMigrateIndex == Fields(1, << <<"All", List("MigrateKey")>> >>)
UnmarshalMigrateIndex == [All |-> List("MigrateKey")]

-----------------------------------------------------------------------------
(* Messages of the shard protocols. *)

MarshalQueryProposal ==
    Fields(8, << <<"Owner", S>>, <<"Keyword", S>>, <<"GroupId", S>>,
                 <<"KeywordType", U>>, <<"LastValidHeight", U>>,
                 <<"Gateway", S>>, <<"CommitId", S>>, <<"Version", S>> >>)
UnmarshalQueryProposal ==
    [Owner |-> S, Keyword |-> S, GroupId |-> S, KeywordType |-> U,
     LastValidHeight |-> U, Gateway |-> S, CommitId |-> S, Version |-> S]

MarshalRelayProposal ==
    Fields(4, << <<"NodeAddress", S>>, <<"LocalPeerId", S>>,
                 <<"RelayPeerIds", S>>, <<"TargetPeerInfo", S>> >>)
UnmarshalRelayProposal ==
    [NodeAddress |-> S, LocalPeerId |-> S, RelayPeerIds |-> S,
     TargetPeerInfo |-> S]

MarshalJwsSignature == Fields(2, << <<"Protected", S>>, <<"Signature", S>> >>)
UnmarshalJwsSignature == [Protected |-> S, Signature |-> S]

MarshalMetadataProposalCbor ==
    Fields(2, << <<"Proposal", Struct("QueryProposal")>>,
                 <<"JwsSignature", Struct("JwsSignature")>> >>)
UnmarshalMetadataProposalCbor ==
    [Proposal |-> Struct("QueryProposal"),
     JwsSignature |-> Struct("JwsSignature")]

MarshalRelayProposalCbor ==
    Fields(2, << <<"Proposal", Struct("RelayProposal")>>,
                 <<"Signature", B>> >>)
UnmarshalRelayProposalCbor ==
    [Proposal |-> Struct("RelayProposal"), Signature |-> B]

MarshalShardAssignReq ==
    Fields(7, << <<"OrderId", U>>, <<"DataId", S>>, <<"Assignee", S>>,
                 <<"TxHash", S>>, <<"Height", I>>, <<"AssignTxType", S>>,
                 <<"TimeoutHeight", U>> >>)
UnmarshalShardAssignReq ==
    [OrderId |-> U, DataId |-> S, Assignee |-> S, TxHash |-> S, Height |-> I,
     AssignTxType |-> S, TimeoutHeight |-> U]

MarshalShardAssignResp == Fields(2, << <<"Code", U>>, <<"Message", S>> >>)
UnmarshalShardAssignResp == [Code |-> U, Message |-> S]

MarshalShardCompleteReq ==
    Fields(5, << <<"OrderId", U>>, <<"DataId", S>>, <<"Cids", List("cid")>>,
                 <<"TxHash", S>>, <<"Height", I>> >>)
UnmarshalShardCompleteReq ==
    [OrderId |-> U, DataId |-> S, Cids |-> List("cid"), TxHash |-> S,
     Height |-> I]

MarshalShardCompleteResp ==
    Fields(3, << <<"Code", U>>, <<"Message", S>>, <<"Recoverable", L>> >>)
UnmarshalShardCompleteResp == [Code |-> U, Message |-> S, Recoverable |-> L]

MarshalShardLoadReq ==
    Fields(7, << <<"Owner", S>>, <<"DataId", S>>, <<"OrderId", U>>,
                 <<"Cid", C>>, <<"Proposal", Struct("MetadataProposalCbor")>>,
                 <<"RequestId", I>>,
                 <<"RelayProposal", Struct("RelayProposalCbor")>> >>)
UnmarshalShardLoadReq ==
    [Owner |-> S, DataId |-> S, OrderId |-> U, Cid |-> C,
     Proposal |-> Struct("MetadataProposalCbor"), RequestId |-> I,
     RelayProposal |-> Struct("RelayProposalCbor")]

MarshalShardLoadResp ==
    Fields(7, << <<"Code", U>>, <<"Message", S>>, <<"OrderId", U>>,
                 <<"Cid", C>>, <<"Content", B>>, <<"RequestId", I>>,
                 <<"ResponseId", I>> >>)
UnmarshalShardLoadResp ==
    [Code |-> U, Message |-> S, OrderId |-> U, Cid |-> C, Content |-> B,
     RequestId |-> I, ResponseId |-> I]

MarshalShardMigrateReq ==
    Fields(7, << <<"MigrateFrom", S>>, <<"OrderId", U>>, <<"DataId", S>>,
                 <<"TxHash", S>>, <<"TxHeight", I>>, <<"Cid", S>>,
                 <<"Content", B>> >>)
UnmarshalShardMigrateReq ==
    [MigrateFrom |-> S, OrderId |-> U, DataId |-> S, TxHash |-> S,
     TxHeight |-> I, Cid |-> S, Content |-> B]

MarshalShardMigrateResp ==
    Fields(4, << <<"Code", U>>, <<"Message", S>>, <<"CompleteHash", S>>,
                 <<"CompleteHeight", I>> >>)
UnmarshalShardMigrateResp ==
    [Code |-> U, Message |-> S, CompleteHash |-> S, CompleteHeight |-> I]

MarshalShardPingPong == Fields(1, << <<"Local", S>> >>)
UnmarshalShardPingPong == [Local |-> S]

-----------------------------------------------------------------------------
(* Which method belongs to which type. *)
MarshalOf ==
    [ShardExpireKey |-> MarshalShardExpireKey,
     ShardExpireIndex |-> MarshalShardExpireIndex,
     ShardExpireInfo |-> MarshalShardExpireInfo,
     OrderKey |-> MarshalOrderKey,
     OrderIndex |-> MarshalOrderIndex,
     OrderShardInfo |-> MarshalOrderShardInfo,
     OrderInfo |-> MarshalOrderInfo,
     ShardKey |-> MarshalShardKey,
     ShardInfo |-> MarshalShardInfo,
     ShardIndex |-> MarshalShardIndex,
     MigrateKey |-> MarshalMigrateKey,
     MigrateInfo |-> MarshalMigrateInfo,
     MigrateIndex |-> MarshalMigrateIndex,
     QueryProposal |-> MarshalQueryProposal,
     RelayProposal |-> MarshalRelayProposal,
     JwsSignature |-> MarshalJwsSignature,
     MetadataProposalCbor |-> MarshalMetadataProposalCbor,
     RelayProposalCbor |-> MarshalRelayProposalCbor,
     ShardAssignReq |-> MarshalShardAssignReq,
     ShardAssignResp |-> MarshalShardAssignResp,
     ShardCompleteReq |-> MarshalShardCompleteReq,
     ShardCompleteResp |-> MarshalShardCompleteResp,
     ShardLoadReq |-> MarshalShardLoadReq,
     ShardLoadResp |-> MarshalShardLoadResp,
     ShardMigrateReq |-> MarshalShardMigrateReq,
     ShardMigrateResp |-> MarshalShardMigrateResp,
     ShardPingPong |-> MarshalShardPingPong]
UnmarshalOf ==
    [ShardExpireKey |-> UnmarshalShardExpireKey,
     ShardExpireIndex |-> UnmarshalShardExpireIndex,
     ShardExpireInfo |-> UnmarshalShardExpireInfo,
     OrderKey |-> UnmarshalOrderKey,
     OrderIndex |-> UnmarshalOrderIndex,
     OrderShardInfo |-> UnmarshalOrderShardInfo,
     OrderInfo |-> UnmarshalOrderInfo,
     ShardKey |-> UnmarshalShardKey,
     ShardInfo |-> UnmarshalShardInfo,
     ShardIndex |-> UnmarshalShardIndex,
     MigrateKey |-> UnmarshalMigrateKey,
     MigrateInfo |-> UnmarshalMigrateInfo,
     MigrateIndex |-> UnmarshalMigrateIndex,
     QueryProposal |-> UnmarshalQueryProposal,
     RelayProposal |-> UnmarshalRelayProposal,
     JwsSignature |-> UnmarshalJwsSignature,
     MetadataProposalCbor |-> UnmarshalMetadataProposalCbor,
     RelayProposalCbor |-> UnmarshalRelayProposalCbor,
     ShardAssignReq |-> UnmarshalShardAssignReq,
     ShardAssignResp |-> UnmarshalShardAssignResp,
     ShardCompleteReq |-> UnmarshalShardCompleteReq,
     ShardCompleteResp |-> UnmarshalShardCompleteResp,
     ShardLoadReq |-> UnmarshalShardLoadReq,
     ShardLoadResp |-> UnmarshalShardLoadResp,
     ShardMigrateReq |-> UnmarshalShardMigrateReq,
     ShardMigrateResp |-> UnmarshalShardMigrateResp,
     ShardPingPong |-> UnmarshalShardPingPong]
Type == DOMAIN MarshalOf

-----------------------------------------------------------------------------
(* Writing.  ok is FALSE when a MarshalCBOR returned an error, out is what *)
(* it had written by then.                                                 *)

Uint(n) == <<"uint", n, 0>>
SInt(n) == <<"int", n, 0>>
Text(id, len) == <<"text", id, len>>
Bytes(id, len) == <<"bytes", id, len>>
Cid(id) == <<"cid", id, 0>>
Undef == Cid("")                        \* cid.Undef
Bool(b) == <<"bool", b, 0>>
Header(major, n) == <<major, n, 0>>

Written(items) == [ok |-> TRUE, out |-> items]
Refused(items) == [ok |-> FALSE, out |-> items]
Then(first, second) ==
    IF first.ok THEN [second EXCEPT !.out = first.out \o @] ELSE first

WriteInt(v) ==
    Written(<<IF v[2] >= 0 THEN Uint(v[2]) ELSE Header("neg", -v[2] - 1)>>)

WriteText(v) == IF v[3] > MaxLength THEN Refused(<<>>) ELSE Written(<<v>>)

WriteBytes(v) ==
    IF v[3] > ByteArrayMaxLen THEN Refused(<<>>) ELSE Written(<<v>>)

(* cbg.WriteCid writes the tag before it looks at the cid. *)
WriteCid(v) ==
    LET tag == <<Header("tag", 42)>> IN
    IF v = Undef THEN Refused(tag) ELSE Written(tag \o <<v>>)

RECURSIVE WriteValue(_, _)
WriteList(T, v) ==
    IF Len(v) > MaxLength THEN Refused(<<>>)
    ELSE FoldLeft(LAMBDA w, e :
                      Then(w, IF T = "cid" THEN WriteCid(e)
                              ELSE WriteValue(Struct(T), e)),
                  Written(<<Header("array", Len(v))>>), v)

WriteMap(T, v) ==
    LET keys == SelectSeq(Provider, LAMBDA k : k \in DOMAIN v) IN
    IF Len(keys) > MaxShards THEN Refused(<<>>)
    ELSE FoldLeft(LAMBDA w, k :
                      Then(Then(w, WriteText(Text(k, 1))),
                           WriteValue(Struct(T), v[k])),
                  Written(<<Header("map", Len(keys))>>), keys)

WriteStruct(T, v) ==
    FoldLeft(LAMBDA w, f :
                 Then(w, Then(Written(<<Text(f[1], 1)>>),
                              WriteValue(f[2], v[f[1]]))),
             Written(<<Header("map", MarshalOf[T].header)>>),
             MarshalOf[T].fields)

WriteValue(kind, v) ==
    CASE kind[1] \in {"uint", "bool"} -> Written(<<v>>)
      [] kind[1] = "int" -> WriteInt(v)
      [] kind[1] = "text" -> WriteText(v)
      [] kind[1] = "bytes" -> WriteBytes(v)
      [] kind[1] = "cid" -> WriteCid(v)
      [] kind[1] = "list" -> WriteList(kind[2], v)
      [] kind[1] = "map" -> WriteMap(kind[2], v)
      [] kind[1] = "struct" -> WriteStruct(kind[2], v)

Marshal(T, v) == WriteStruct(T, v)

-----------------------------------------------------------------------------
(* Reading.  val is what UnmarshalCBOR had assigned when it returned, rest *)
(* the items it had not read.                                              *)

Got(v, rest) == [ok |-> TRUE, val |-> v, rest |-> rest]
Bad(v, rest) == [ok |-> FALSE, val |-> v, rest |-> rest]

RECURSIVE ZeroOf(_)
ZeroOf(kind) ==
    CASE kind[1] = "uint" -> Uint(0)
      [] kind[1] = "int" -> SInt(0)
      [] kind[1] = "text" -> Text("", 0)
      [] kind[1] = "bytes" -> Bytes("", 0)
      [] kind[1] = "cid" -> Undef
      [] kind[1] = "bool" -> Bool(FALSE)
      [] kind[1] \in {"list", "map"} -> <<>>
      [] kind[1] = "struct" ->
             [f \in DOMAIN UnmarshalOf[kind[2]] |->
                 ZeroOf(UnmarshalOf[kind[2]][f])]

Is(s, major) == s # <<>> /\ Head(s)[1] = major

ReadItem(s, major, zero) ==
    IF Is(s, major) THEN Got(Head(s), Tail(s)) ELSE Bad(zero, s)

ReadInt(s) ==
    CASE Is(s, "uint") -> Got(SInt(Head(s)[2]), Tail(s))
      [] Is(s, "neg") -> Got(SInt(-1 - Head(s)[2]), Tail(s))
      [] OTHER -> Bad(SInt(0), s)

ReadText(s) ==
    IF Is(s, "text") /\ Head(s)[3] <= MaxLength THEN Got(Head(s), Tail(s))
    ELSE Bad(Text("", 0), s)

ReadBytes(s) ==
    IF Is(s, "bytes") /\ Head(s)[3] <= ByteArrayMaxLen
    THEN Got(Head(s), Tail(s)) ELSE Bad(Bytes("", 0), s)

ReadCid(s) ==
    IF Is(s, "tag") THEN ReadItem(Tail(s), "cid", Undef) ELSE Bad(Undef, s)

RECURSIVE ReadValue(_, _)
ReadList(T, s) ==
    IF ~Is(s, "array") \/ Head(s)[2] > MaxLength THEN Bad(<<>>, s)
    ELSE FoldLeft(LAMBDA r, i :
                      LET e == IF T = "cid" THEN ReadCid(r.rest)
                               ELSE ReadValue(Struct(T), r.rest)
                      IN  IF ~r.ok THEN r
                          ELSE [e EXCEPT !.val = Append(r.val, @)],
                  Got(<<>>, Tail(s)), [i \in 1..Head(s)[2] |-> i])

ReadMap(T, s) ==
    IF ~Is(s, "map") \/ Head(s)[2] > MaxShards THEN Bad(<<>>, s)
    ELSE FoldLeft(LAMBDA r, i :
                      LET k == ReadText(r.rest)
                          e == ReadValue(Struct(T), k.rest)
                      IN  IF ~r.ok THEN r
                          ELSE IF ~k.ok THEN Bad(r.val, k.rest)
                          ELSE IF ~e.ok THEN Bad(r.val, e.rest)
                          ELSE Got((k.val[2] :> e.val) @@ r.val, e.rest),
                  Got(<<>>, Tail(s)), [i \in 1..Head(s)[2] |-> i])

(* cbg.ScanForLinks steps over n items, and stops at the end of the input; *)
(* its error is dropped.                                                   *)
(* Mutant of Skip: one item, whatever it is.                                *)
SkipOne(n, s) ==
    IF s = <<>> THEN s ELSE Tail(s)
RECURSIVE Skip(_, _)
Skip(n, s) ==
    IF n = 0 \/ s = <<>> THEN s
    ELSE Skip(CASE Head(s)[1] = "array" -> n - 1 + Head(s)[2]
                [] Head(s)[1] = "map" -> n - 1 + 2 * Head(s)[2]
                [] Head(s)[1] = "tag" -> n
                [] OTHER -> n - 1,
              Tail(s))

(* One turn of the loop over the announced fields. *)
(* Mutant of ReadField: the end of the input ends the record.               *)
ReadFieldOrEnd(T, r) ==
    LET name == ReadText(r.rest)
        f == name.val[2]
        v == ReadValue(UnmarshalOf[T][f], name.rest)
    IN  IF ~name.ok THEN r
        ELSE IF f \notin DOMAIN UnmarshalOf[T]
        THEN Got(r.val, Skip(1, name.rest))
        ELSE [v EXCEPT !.val = [r.val EXCEPT ![f] = v.val]]
ReadField(T, r) ==
    LET name == ReadText(r.rest)
        f == name.val[2]
        v == ReadValue(UnmarshalOf[T][f], name.rest)
    IN  IF ~name.ok THEN Bad(r.val, name.rest)
        ELSE IF f \notin DOMAIN UnmarshalOf[T]
        THEN Got(r.val, Skip(1, name.rest))
        ELSE [v EXCEPT !.val = [r.val EXCEPT ![f] = v.val]]

ReadStruct(T, s) ==
    LET zero == ZeroOf(Struct(T)) IN
    IF ~Is(s, "map") \/ Head(s)[2] > MaxLength THEN Bad(zero, s)
    ELSE FoldLeft(LAMBDA r, i : IF r.ok THEN ReadField(T, r) ELSE r,
                  Got(zero, Tail(s)), [i \in 1..Head(s)[2] |-> i])

ReadValue(kind, s) ==
    CASE kind[1] = "uint" -> ReadItem(s, "uint", Uint(0))
      [] kind[1] = "bool" -> ReadItem(s, "bool", Bool(FALSE))
      [] kind[1] = "int" -> ReadInt(s)
      [] kind[1] = "text" -> ReadText(s)
      [] kind[1] = "bytes" -> ReadBytes(s)
      [] kind[1] = "cid" -> ReadCid(s)
      [] kind[1] = "list" -> ReadList(kind[2], s)
      [] kind[1] = "map" -> ReadMap(kind[2], s)
      [] kind[1] = "struct" -> ReadStruct(kind[2], s)

Unmarshal(T, s) == ReadStruct(T, s)
=============================================================================
