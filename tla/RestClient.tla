----------------------------- MODULE RestClient -----------------------------
(***************************************************************************)
(* A call of a VMM over its REST API, from the object the driver builds to *)
(* the result it is given: the Cloud Hypervisor client (api "clh") and the *)
(* Firecracker client (api "fc") with the tables of their models and       *)
(* operations, and the VMM, external, as its API description has it.  The  *)
(* connection may break before or after the VMM has acted.                 *)
(*                                                                         *)
(* Values.  A scalar is the literal it would have in Go or JSON; a model   *)
(* is a function from the names of its fields, without the pointers that   *)
(* are nil; a JSON object is a function from its keys.  The time limit of  *)
(* a call is the break of the connection.                                  *)
(***************************************************************************)
EXTENDS Integers, SequencesExt

CONSTANTS
    Nil,                \* JSON null, and a Nullable or a body that is nil
    Bodies(_, _),       \* the objects of a model that a call is made with
    Payloads(_, _)      \* the JSON of a schema that the VMM answers with

Clh == INSTANCE ClhModels
ClhApi == INSTANCE ClhOperations
Fc == INSTANCE FcModels
FcApi == INSTANCE FcOperations

Fields == [clh |-> Clh!ClhFields, fc |-> Fc!FcFields]
Schemas == [clh |-> ClhApi!ClhSchemas, fc |-> FcApi!FcSchemas]
Paths == [clh |-> ClhApi!ClhPaths, fc |-> FcApi!FcPaths]
Ops == [clh |-> ClhApi!ClhOps, fc |-> FcApi!FcOps]

IsModel(api, type) == type \in DOMAIN Fields[api]
Field(api, T, name) == CHOOSE f \in Fields[api][T] : f[1] = name
Names(S) == {e[1] : e \in S}

ZeroScalar ==
    [bool |-> "false", string |-> "", int32 |-> "0", int64 |-> "0", uint64 |-> "0", int |-> "0",
     object |-> "{}", counters |-> "{}"]

RECURSIVE ZeroOf(_, _)
ZeroOf(api, type) ==
    IF ~IsModel(api, type) THEN ZeroScalar[type]
    ELSE LET values == {f \in Fields[api][type] : f[3] \in {"value", "value omitempty"}}
         IN  [name \in Names(values) |-> ZeroOf(api, Field(api, type, name)[5])]

-----------------------------------------------------------------------------
\* Objects of the Cloud Hypervisor client

New(T, args) ==
    LET new == Clh!ClhNew[T]
    IN  [name \in new.params |-> args[name]] @@ [name \in Names(new.defaults) |->
            (CHOOSE d \in new.defaults : d[1] = name)[2]] @@ ZeroOf("clh", T)

Set(o, name, v) == (name :> v) @@ o

Access(T, name) == (CHOOSE a \in Clh!ClhAccess[T] : a[1] = name)[2]

\* A Nullable counts as set when it was set to nil.
GetOk(T, o, name) == Access(T, name) = "value" \/ name \in DOMAIN o

Get(T, o, name) ==
    LET f == Field("clh", T, name)
    IN  IF GetOk(T, o, name) /\ o[name] # Nil THEN o[name]
        ELSE IF f[4] # "one" THEN <<>> ELSE ZeroOf("clh", f[5])

-----------------------------------------------------------------------------
\* JSON: MarshalJSON of the Cloud Hypervisor models, encoding/json with the struct tags of the
\* Firecracker models, and encoding/json's decoding for both.

RECURSIVE MarshalJSON(_, _, _)

MarshalValue(api, f, v) ==
    IF v = Nil \/ ~IsModel(api, f[5]) THEN v
    ELSE IF f[4] = "one" THEN MarshalJSON(api, f[5], v)
    ELSE [i \in DOMAIN v |-> MarshalJSON(api, f[5], v[i])]

\* Mutant: a field that is zero is left out, not only one that is nil.
ClhMarshalJSONOmitsZero(T, o) ==
    LET zero == {f[1] : f \in {f \in Fields.clh[T] :
                    ~IsModel("clh", f[5]) /\ f[4] = "one" /\ f[1] \in DOMAIN o
                    /\ o[f[1]] = ZeroOf("clh", f[5])}}
        sent == {e \in Clh!ClhMarshalJSON[T] :
                    e[2] = "always" \/ (e[1] \in DOMAIN o /\ e[1] \notin zero)}
        Entry(key) == CHOOSE e \in sent : e[3] = key
    IN  [key \in {e[3] : e \in sent} |->
            MarshalValue("clh", Field("clh", T, Entry(key)[1]), o[Entry(key)[1]])]

ClhMarshalJSON(T, o) ==
    LET sent == {e \in Clh!ClhMarshalJSON[T] : e[2] = "always" \/ e[1] \in DOMAIN o}
        Entry(key) == CHOOSE e \in sent : e[3] = key
    IN  [key \in {e[3] : e \in sent} |->
            MarshalValue("clh", Field("clh", T, Entry(key)[1]), o[Entry(key)[1]])]

FcMarshalJSON(T, o) ==
    LET sent == {f \in Fields.fc[T] :
                    CASE f[3] = "pointer" -> TRUE
                      [] f[3] = "pointer omitempty" -> f[1] \in DOMAIN o
                      [] f[3] = "value omitempty" -> o[f[1]] # ZeroOf("fc", f[5])}
        Tagged(key) == CHOOSE f \in sent : f[2] = key
    IN  [key \in {f[2] : f \in sent} |->
            LET f == Tagged(key)
            IN  IF f[1] \in DOMAIN o THEN MarshalValue("fc", f, o[f[1]]) ELSE Nil]

MarshalJSON(api, T, o) == IF api = "clh" THEN ClhMarshalJSON(T, o) ELSE FcMarshalJSON(T, o)

RECURSIVE Unmarshal(_, _, _)
Unmarshal(api, T, j) ==
    LET Has(f) == f[2] \in DOMAIN j /\ j[f[2]] # Nil
        Value(f) == IF ~IsModel(api, f[5]) THEN j[f[2]]
                    ELSE IF f[4] = "one" THEN Unmarshal(api, f[5], j[f[2]])
                    ELSE [i \in DOMAIN j[f[2]] |-> Unmarshal(api, f[5], j[f[2]][i])]
        set == {f \in Fields[api][T] : Has(f) \/ f[3] \in {"value", "value omitempty"}
                                              \/ (f[3] = "nullable" /\ f[2] \in DOMAIN j)}
    IN  [name \in Names(set) |->
            LET f == Field(api, T, name)
            IN  IF Has(f) THEN Value(f) ELSE IF f[3] = "nullable" THEN Nil ELSE ZeroOf(api, f[5])]

-----------------------------------------------------------------------------
\* Validate of the Firecracker models

IntOf == ("0" :> 0) @@ ("1" :> 1) @@ ("33" :> 33)

RECURSIVE Validate(_, _)
Validate(T, o) ==
    \A c \in Fc!FcValidate[T] :
        LET f == Field("fc", T, c[1])
            given == c[1] \in DOMAIN o
            \* swag.IsZero: a nil pointer, or the zero of a value
            skipped == ~given \/ (f[3] = "value omitempty" /\ o[c[1]] = ZeroOf("fc", f[5]))
        IN  CASE c[2] = "required" -> given
              [] c[2] = "minimum" -> skipped \/ IntOf[o[c[1]]] >= c[3]
              [] c[2] = "maximum" -> skipped \/ IntOf[o[c[1]]] <= c[3]
              [] c[2] = "enum" -> skipped \/ o[c[1]] \in c[3]
              [] c[2] = "model" -> skipped \/ Validate(c[3], o[c[1]])

-----------------------------------------------------------------------------
\* The VMM (external).  It takes the defaults of its API for what a request leaves out, and
\* refuses a body without a required property.  Firecracker also refuses unknown properties.

Default(api, T, key) ==
    LET ds == {d \in Schemas[api][T].defaults : d[1] = key}
    IN  IF ds = {} THEN Nil ELSE (CHOOSE d \in ds : TRUE)[2]

Given(j, key) == key \in DOMAIN j /\ j[key] # Nil
Keys(api, T) == {p[1] : p \in Schemas[api][T].properties}
Property(api, T, key) == CHOOSE p \in Schemas[api][T].properties : p[1] = key
IsSchema(api, type) == type \in DOMAIN Schemas[api]

RECURSIVE Accepts(_, _, _)
Accepts(api, T, j) ==
    /\ \A key \in Schemas[api][T].required : Given(j, key)
    /\ api = "fc" => DOMAIN j \subseteq Keys(api, T)
    /\ \A p \in Schemas[api][T].properties :
        Given(j, p[1]) /\ IsSchema(api, p[3]) =>
            IF p[2] = "one" THEN Accepts(api, p[3], j[p[1]])
            ELSE \A i \in DOMAIN j[p[1]] : Accepts(api, p[3], j[p[1]][i])

RECURSIVE View(_, _, _)
View(api, T, j) ==
    [key \in Keys(api, T) |->
        LET p == Property(api, T, key)
        IN  IF ~Given(j, key) THEN Default(api, T, key)
            ELSE IF ~IsSchema(api, p[3]) THEN j[key]
            ELSE IF p[2] = "one" THEN View(api, p[3], j[key])
            ELSE [i \in DOMAIN j[key] |-> View(api, p[3], j[key][i])]]

-----------------------------------------------------------------------------
VARIABLES
    call,       \* what the driver called: the API, the operation, the body and the path parameter
    request,    \* what is on its way to the VMM
    vmm,        \* what the VMM did with it
    reply,      \* what is on its way back
    result      \* what the driver was given

vars == <<call, request, vmm, reply, result>>

NoCall == [api |-> "none"]
Nothing == [status |-> 0]
Pending == [kind |-> "none"]
Failed == [kind |-> "error"]
Panic == [kind |-> "panic"]
Ok(v) == [kind |-> "ok", value |-> v]

Init ==
    /\ call = NoCall
    /\ request = Nothing
    /\ vmm = Nothing
    /\ reply = Nothing
    /\ result = Pending

BodyType(api, op) == IF api = "clh" THEN Ops.clh[op].body ELSE FcApi!FcParams[op].body

\* The body of a call: an object of the model, raw JSON, or none.
BodyOf(api, op) ==
    LET T == BodyType(api, op)
    IN  {Nil} \cup IF T = "none" THEN {} ELSE IF T = "object" THEN {"{}"} ELSE Bodies(api, T)

Encoded(api, op, body) ==
    IF body = Nil \/ ~IsModel(api, BodyType(api, op)) THEN body
    ELSE MarshalJSON(api, BodyType(api, op), body)

Request(c) ==
    [status |-> 1, method |-> Ops[c.api][c.op].method, path |-> Ops[c.api][c.op].path,
     target |-> c.target, body |-> Encoded(c.api, c.op, c.body)]

\* XExecute of the Cloud Hypervisor client up to callAPI: a required body that is missing is an
\* error before anything is sent.
CallClh(op, body) ==
    LET c == [api |-> "clh", op |-> op, body |-> body, target |-> Nil]
        missing == BodyType("clh", op) # "none" /\ body = Nil
    IN  /\ call = NoCall
        /\ call' = c
        /\ request' = IF missing THEN Nothing ELSE Request(c)
        /\ result' = IF missing THEN Failed ELSE Pending
        /\ UNCHANGED <<vmm, reply>>

\* An operation of the Firecracker client up to the answer of transport.Submit: WriteToRequest
\* leaves out a nil body, sets the path parameters, and validates nothing.
CallFc(op, body) ==
    LET c == [api |-> "fc", op |-> op, body |-> body,
              target |-> IF FcApi!FcParams[op].path = {} THEN Nil ELSE "id"]
    IN  /\ call = NoCall
        /\ call' = c
        /\ request' = Request(c)
        /\ UNCHANGED <<vmm, reply, result>>

Routes == {p \in Paths[call.api] : p.method = request.method /\ p.path = request.path}

ServedBody(p) ==
    IF IsSchema(call.api, p.body) THEN View(call.api, p.body, request.body) ELSE request.body

Understood(p) ==
    IF IsSchema(call.api, p.body)
    THEN request.body # Nil /\ Accepts(call.api, p.body, request.body)
    ELSE (p.body = "none") = (request.body = Nil)

\* What the VMM sends back with a status: the payload of its schema with 200, nothing with 204.
PayloadsFor(p, status) ==
    IF status # 200 THEN {Nil}
    ELSE IF IsSchema(call.api, p.payload) THEN Payloads(call.api, p.payload) ELSE {"{}"}

Serve(p, status, payload) ==
    /\ vmm' = [status |-> status, route |-> p, target |-> request.target,
               did |-> status \in p.accepted, body |-> ServedBody(p)]
    /\ reply' = [status |-> status, payload |-> payload]
    /\ request' = Nothing
    /\ UNCHANGED <<call, result>>

VmmAccepts ==
    /\ request # Nothing
    /\ \E p \in Routes : Understood(p) /\
        \E status \in p.accepted : \E payload \in PayloadsFor(p, status) : Serve(p, status, payload)

VmmFails ==
    /\ request # Nothing
    /\ \E p \in Routes : Understood(p) /\ \E status \in p.refused : Serve(p, status, Nil)

\* No such path, or a body that cannot be read.
VmmRejects ==
    /\ request # Nothing
    /\ \A p \in Routes : ~Understood(p)
    /\ vmm' = [status |-> 400, did |-> FALSE]
    /\ reply' = [status |-> 400, payload |-> Nil]
    /\ request' = Nothing
    /\ UNCHANGED <<call, result>>

\* callAPI, ReadAll or transport.Submit fail.
Break ==
    /\ result.kind = "none"
    /\ request # Nothing \/ reply # Nothing
    /\ request' = Nothing
    /\ reply' = Nothing
    /\ result' = Failed
    /\ UNCHANGED <<call, vmm>>

\* Mutant: only a status of 500 or more is an error.
ClhResultOnly500(op, r) ==
    LET T == Ops.clh[op].returns
    IN  IF r.status >= 500 THEN Failed
        ELSE IF T = "none" THEN Ok(Nil)
        ELSE IF r.payload = Nil THEN Ok(ZeroOf("clh", T))
        ELSE IF IsModel("clh", T) THEN Ok(Unmarshal("clh", T, r.payload)) ELSE Ok(r.payload)

\* The rest of XExecute: a status of 300 or more is an error; an empty body decodes to the zero
\* value of the type.
ClhResult(op, r) ==
    LET T == Ops.clh[op].returns
    IN  IF r.status >= 300 THEN Failed
        ELSE IF T = "none" THEN Ok(Nil)
        ELSE IF r.payload = Nil THEN Ok(ZeroOf("clh", T))
        ELSE IF IsModel("clh", T) THEN Ok(Unmarshal("clh", T, r.payload)) ELSE Ok(r.payload)

ReturnClh ==
    /\ call.api = "clh"
    /\ reply # Nothing
    /\ result' = ClhResult(call.op, reply)
    /\ reply' = Nothing
    /\ UNCHANGED <<call, request, vmm>>

\* ReadResponse picks the type of the result by the status code, the Default type for any other
\* code.  The operation then asserts the type it promises: another one is a panic.
FcResult(op, r) ==
    LET cases == {c \in FcApi!FcReaders[op] : c[1] = r.status}
        c == IF cases = {} THEN <<r.status, "Default", r.status \div 100 = 2, "Error">>
             ELSE CHOOSE x \in cases : TRUE
    IN  IF ~c[3] THEN Failed
        ELSE IF c[2] # Ops.fc[op].result THEN Panic
        ELSE IF c[4] = "none" THEN Ok(Nil)
        ELSE IF IsModel("fc", c[4]) THEN Ok(Unmarshal("fc", c[4], r.payload)) ELSE Ok(r.payload)

ReturnFc ==
    /\ call.api = "fc"
    /\ reply # Nothing
    /\ result' = FcResult(call.op, reply)
    /\ reply' = Nothing
    /\ UNCHANGED <<call, request, vmm>>

Next ==
    \/ \E op \in DOMAIN Ops.clh : \E body \in BodyOf("clh", op) : CallClh(op, body)
    \/ \E op \in DOMAIN Ops.fc : \E body \in BodyOf("fc", op) : CallFc(op, body)
    \/ VmmAccepts
    \/ VmmFails
    \/ VmmRejects
    \/ Break
    \/ ReturnClh
    \/ ReturnFc

Spec == Init /\ [][Next]_vars

-----------------------------------------------------------------------------
\* What an object means to the driver that built it, as the VMM would have it: the values that
\* the accessors show, the default of the API for what is not set.  The zero of a Firecracker
\* field that is no pointer means "not set" where the API has no default.
RECURSIVE Meant(_, _, _)
Meant(api, T, o) ==
    LET Shown(f) == IF api = "clh" THEN GetOk(T, o, f[1]) /\ o[f[1]] # Nil ELSE f[1] \in DOMAIN o
        Value(f) == IF ~IsModel(api, f[5]) THEN o[f[1]]
                    ELSE IF f[4] = "one" THEN Meant(api, f[5], o[f[1]])
                    ELSE [i \in DOMAIN o[f[1]] |-> Meant(api, f[5], o[f[1]][i])]
        Unset(f) == f[3] = "value omitempty" /\ o[f[1]] = ZeroOf(api, f[5])
                                             /\ Default(api, T, f[2]) = Nil
    IN  [key \in {f[2] : f \in Fields[api][T]} |->
            LET f == CHOOSE f \in Fields[api][T] : f[2] = key
            IN  IF ~Shown(f) THEN Default(api, T, key) ELSE IF Unset(f) THEN Nil ELSE Value(f)]

\* A request that the VMM understood is the one the driver made: it reaches the operation that
\* takes this body, names the same object, and the VMM, with its defaults, sees every field as
\* the accessors of the model show it, fields explicitly set to zero included (MarshalJSON and
\* the paths of the clients against the API descriptions).
RequestArrives ==
    vmm.status # 0 /\ "route" \in DOMAIN vmm =>
        /\ vmm.target = call.target
        /\ vmm.route.body = BodyType(call.api, call.op)
        /\ call.body # Nil /\ IsModel(call.api, vmm.route.body) =>
               vmm.body = Meant(call.api, vmm.route.body, call.body)

\* The driver is told of success exactly when the VMM did what it was asked and its answer
\* arrived, whatever the status codes of the operation, and no answer of the API makes the
\* client panic on the type it asserts (Execute from callAPI on; ReadResponse and the type
\* assertion after Submit).
ResultIsTheVmms ==
    /\ result.kind # "panic"
    /\ result.kind = "ok" => vmm.status # 0 /\ vmm.did
    /\ result.kind = "none" /\ reply # Nothing =>
           LET r == IF call.api = "clh" THEN ClhResult(call.op, reply) ELSE FcResult(call.op, reply)
           IN  vmm.did => r.kind = "ok"

\* The getters of o, and of the objects they return, show what the JSON object j holds, and the
\* zero value where it has nothing or null.  The getter for a key is that of the field that
\* MarshalJSON writes under it.
RECURSIVE Shows(_, _, _)
Shows(T, o, j) ==
    \A e \in Clh!ClhMarshalJSON[T] :
        LET got == Get(T, o, e[1])
            f == Field("clh", T, e[1])
            v == j[e[3]]
        IN  IF ~Given(j, e[3]) THEN got = IF f[4] # "one" THEN <<>> ELSE ZeroOf("clh", f[5])
            ELSE IF ~IsModel("clh", f[5]) THEN got = v
            ELSE IF f[4] = "one" THEN Shows(f[5], got, v)
            ELSE DOMAIN got = DOMAIN v /\ \A i \in DOMAIN got : Shows(f[5], got[i], v[i])

\* What the getters read from the result is what the VMM answered.
AnswerIsRead ==
    call.api = "clh" /\ reply # Nothing /\ IsModel("clh", Ops.clh[call.op].returns) =>
        LET T == Ops.clh[call.op].returns
            r == ClhResult(call.op, reply)
            j == IF reply.payload = Nil THEN <<>> ELSE reply.payload
        IN  r.kind = "ok" => DOMAIN j \subseteq {e[3] : e \in Clh!ClhMarshalJSON[T]} /\ Shows(T, r.value, j)

\* An object that its Validate accepts is never turned down by the VMM as unreadable, and it
\* is as valid after the wire as before it (required fields, enumerations and bounds).
ValidIsUnderstood ==
    call.api = "fc" /\ IsModel("fc", BodyType("fc", call.op)) =>
        LET T == BodyType("fc", call.op)
        IN  /\ call.body # Nil =>
                   LET received == Unmarshal("fc", T, MarshalJSON("fc", T, call.body))
                   IN  Validate(T, received) = Validate(T, call.body)
            /\ vmm.status = 400 /\ "route" \notin DOMAIN vmm =>
                   call.body = Nil \/ ~Validate(T, call.body)
=============================================================================
