---------------------------- MODULE MCRestClient ----------------------------
(***************************************************************************)
(* RestClient for TLC: every operation, with objects and answers in which  *)
(* each field is, on its own, left out, null, zero and not zero.           *)
(***************************************************************************)
EXTENDS RestClient

Scalars(type) ==
    CASE type = "bool" -> {"false", "true"}
      [] type = "string" -> {"", "Full"}
      [] type \in {"int32", "int64", "uint64", "int"} -> {"0", "1", "33"}
      [] OTHER -> {"{}"}

Shaped(shape, S) ==
    CASE shape = "one" -> S
      [] shape = "list" -> {<<>>} \cup {<<v>> : v \in S}
      [] shape = "map" -> {[k \in {"key"} |-> v] : v \in S}

OfKind(api, T, kinds) == Names({f \in Fields[api][T] : f[3] \in kinds})

RECURSIVE ClhBodies(_)
ClhBodies(T) ==
    LET Values(name) ==
            LET f == Field("clh", T, name)
            IN  Shaped(f[4], IF IsModel("clh", f[5]) THEN ClhBodies(f[5]) ELSE Scalars(f[5]))
        params == Clh!ClhNew[T].params
        args == [name \in params |-> CHOOSE v \in Values(name) : TRUE]
        new == New(T, args)
    IN  {new}
        \cup UNION {{New(T, Set(args, name, v)) : v \in Values(name)} : name \in params}
        \cup UNION {{Set(new, name, v) : v \in Values(name)} : name \in Names(Fields.clh[T])}
        \cup {Set(new, name, Nil) : name \in OfKind("clh", T, {"nullable"})}

RECURSIVE FcBodies(_)
FcBodies(T) ==
    LET Enum(name) == UNION {c[3] : c \in {c \in Fc!FcValidate[T] : c[1] = name /\ c[2] = "enum"}}
        Values(name) ==
            LET f == Field("fc", T, name)
            IN  IF IsModel("fc", f[5]) THEN FcBodies(f[5]) ELSE Scalars(f[5]) \cup Enum(name)
        names == Names(Fields.fc[T])
        full == [name \in names |-> CHOOSE v \in Values(name) : TRUE]
    IN  {full, ZeroOf("fc", T)}
        \cup UNION {{Set(full, name, v) : v \in Values(name)} : name \in names}
        \cup {[n \in names \ {name} |-> full[n]] :
                 name \in OfKind("fc", T, {"pointer", "pointer omitempty"})}

MCBodies(api, T) == IF api = "clh" THEN ClhBodies(T) ELSE FcBodies(T)

RECURSIVE MCPayloads(_, _)
MCPayloads(api, T) ==
    LET Values(key) ==
            LET p == Property(api, T, key)
            IN  Shaped(p[2], IF IsSchema(api, p[3]) THEN MCPayloads(api, p[3]) ELSE Scalars(p[3]))
        required == Schemas[api][T].required
        least == [key \in required |-> CHOOSE v \in Values(key) : TRUE]
    IN  {least} \cup UNION {{Set(least, key, v) : v \in Values(key)} : key \in Keys(api, T)}
                \cup {Set(least, key, Nil) : key \in Keys(api, T) \ required}
=============================================================================
