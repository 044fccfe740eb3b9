------------------------------- MODULE MCWire -------------------------------
(***************************************************************************)
(* Wire for TLC.  The values of a type are one in which every field has a  *)
(* value of its own, and those that differ from it in one field, which is  *)
(* at or just over a limit of the codec, empty, negative or undefined.     *)
(***************************************************************************)
EXTENDS Wire

RECURSIVE Typical(_)
Typical(T) ==
    LET fields == MarshalOf[T].fields
        At(f) == CHOOSE i \in DOMAIN fields : fields[i][1] = f
        Of(f, kind) ==
            CASE kind[1] = "uint" -> Uint(At(f))
              [] kind[1] = "int" -> SInt(At(f))
              [] kind[1] = "text" -> Text(f, 1)
              [] kind[1] = "bytes" -> Bytes(f, 1)
              [] kind[1] = "cid" -> Cid(f)
              [] kind[1] = "bool" -> Bool(TRUE)
              [] kind[1] = "struct" -> Typical(kind[2])
              [] kind[1] = "map" -> Provider[1] :> Typical(kind[2])
              [] kind[1] = "list" ->
                     <<IF kind[2] = "cid" THEN Cid(f) ELSE Typical(kind[2])>>
    IN  [f \in DOMAIN UnmarshalOf[T] |-> Of(f, fields[At(f)][2])]

RECURSIVE Deviations(_)
Edges(kind, v) ==
    CASE kind[1] = "uint" -> {Uint(0)}
      [] kind[1] = "int" -> {SInt(0), SInt(-1), SInt(-2)}
      [] kind[1] = "text" -> {Text("", 0)} \cup
             {Text("long", n) : n \in {MaxLength, MaxLength + 1}}
      [] kind[1] = "bytes" -> {Bytes("", 0)} \cup
             {Bytes("long", n) : n \in {ByteArrayMaxLen, ByteArrayMaxLen + 1}}
      [] kind[1] = "cid" -> {Undef}
      [] kind[1] = "bool" -> {Bool(FALSE)}
      [] kind[1] = "struct" -> Deviations(kind[2])
      [] kind[1] = "map" -> {<<>>} \cup
             {[k \in {Provider[i] : i \in 1..n} |-> Typical(kind[2])] :
                 n \in {MaxShards, MaxShards + 1}}
      [] kind[1] = "list" ->
             {[i \in 1..n |-> v[1]] : n \in {0, MaxLength, MaxLength + 1}}
Deviations(T) ==
    UNION {{[Typical(T) EXCEPT ![f] = e] :
               e \in Edges(UnmarshalOf[T][f], Typical(T)[f])} :
           f \in DOMAIN UnmarshalOf[T]}

MCValue == [T \in Type |-> {Typical(T)} \cup Deviations(T)]
MCForwarded == {Typical("ShardLoadReq")}
MCProvider == <<"sp1", "sp2", "sp3">>
=============================================================================
