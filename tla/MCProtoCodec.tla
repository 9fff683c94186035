---------------------------- MODULE MCProtoCodec ----------------------------
(***************************************************************************)
(* Messages for ProtoCodec: every message with one field set, to each of   *)
(* the values at which the encoding changes its length or shape, and every *)
(* message with two fields set.  Messages inside a message are empty or    *)
(* have one field.                                                         *)
(***************************************************************************)
EXTENDS ProtoCodec

AllTypes == DOMAIN UnmarshalTables

Short == <<65>>
Long == [i \in 1 .. 128 |-> 66]                     \* a length of two bytes

MaxUint64 == <<127, 127, 127, 127, 127, 127, 127, 127, 127, 1>>
Ints(kind) ==
    CASE kind \in {"uint64", "int64", "packed_uint64"} ->
            {<<1>>, <<127>>, <<0, 1>>, <<0, 0, 0, 0, 0, 1>>, MaxUint64}
      [] kind = "int32" -> {<<1>>, <<0, 0, 0, 0, 120, 127, 127, 127, 127, 1>>, MaxUint64}
      [] OTHER -> {<<1>>, <<127, 127, 127, 127, 15>>}

First(T) == CHOOSE e \in UnmarshalTables[T] : \A f \in UnmarshalTables[T] : e[1] <= f[1]

\* One value of a field that is not its zero value.
One(e) ==
    CASE e[2] = "bytes" -> Short
      [] e[2] \in {"uint32", "uint64", "int32", "int64", "oneof_uint32"} -> <<1>>
      [] e[2] = "bool" -> TRUE
      [] e[2] = "msg" -> EmptyMessage
      [] e[2] = "strings" -> <<Short>>
      [] e[2] = "msgs" -> <<EmptyMessage>>
      [] e[2] \in {"packed_uint32", "packed_uint64"} -> <<<<1>>>>
      [] e[2] \in {"map_bytes", "map_varint", "map_msg"} -> Short :> <<>>
      [] e[2] = "embed" -> "UID" :> <<1>>

\* The messages of a type that are empty or have their first field set.
Inner(T) ==
    {EmptyMessage} \cup IF UnmarshalTables[T] = {} THEN {}
                        ELSE {First(T)[3] :> One(First(T))}

Values(e) ==
    {One(e)} \cup
    CASE e[2] = "bytes" -> {Long}
      [] e[2] \in {"uint32", "uint64", "int32", "int64"} -> Ints(e[2])
      [] e[2] = "oneof_uint32" -> Ints(e[2]) \cup {<<>>}
      [] e[2] = "bool" -> {}
      [] e[2] = "msg" -> Inner(e[4])
      [] e[2] = "strings" -> {<<Short, <<>>>>, <<<<>>, Long>>}
      [] e[2] = "msgs" -> {<<x, y>> : x, y \in Inner(e[4])}
      [] e[2] \in {"packed_uint32", "packed_uint64"} -> {<<x, <<>>, y>> : x, y \in Ints(e[2])}
      [] e[2] = "map_bytes" -> {(Short :> Short) @@ (<<>> :> Long)}
      [] e[2] = "map_varint" -> {(Short :> <<1>>) @@ (Long :> MaxUint64)}
      [] e[2] = "map_msg" -> {(Short :> x) @@ (<<>> :> y) : x, y \in Inner(e[4])}
      [] e[2] = "embed" -> Inner(e[4]) \ {EmptyMessage}

MCMessages(T) ==
    {EmptyMessage}
    \cup UNION {{e[3] :> v : v \in Values(e)} : e \in UnmarshalTables[T]}
    \cup {(e[3] :> One(e)) @@ (f[3] :> One(f)) : e, f \in UnmarshalTables[T]}

\* Field 100 as an integer, as bytes, as 8 and as 4 bytes, and as a group that holds a group.
MCUnknownFields ==
    {<<160, 6, 255, 1>>, <<162, 6, 2, 7, 7>>, <<161, 6, 1, 2, 3, 4, 5, 6, 7, 8>>,
     <<165, 6, 1, 2, 3, 4>>, <<163, 6, 8, 1, 11, 12, 164, 6>>}
=============================================================================
