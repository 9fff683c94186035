-------------------------- MODULE SandboxResources --------------------------
(***************************************************************************)
(* The size of the virtual machine of a sandbox.  Each operation on a      *)
(* container adds up what the containers ask for and resizes the machine:  *)
(* vCPUs and memory are plugged by QEMU and brought online by the agent.   *)
(*                                                                         *)
(* What a container asks for is kept in s.config.Containers, a Go slice.   *)
(* Every Container holds a pointer into the array behind that slice, as of *)
(* its creation: an append may move the slice to a larger array, and a     *)
(* deletion shifts its elements in place.  The elements are copied by      *)
(* value, and the copies share what their pointers point to; Resources.CPU *)
(* and Resources.Memory, set or nil together, are one object here.         *)
(*                                                                         *)
(* The operations run under the lock of the shim, one at a time.           *)
(***************************************************************************)
EXTENDS Integers, Sequences, FiniteSetsExt

CONSTANTS Pod,          \* the container of the sandbox itself
          Apps,         \* the other containers
          Requests,     \* what a container may ask for
          Updates,      \* what an update may ask for
          Period,       \* the CPU period of all requests
          NumVCPUs, DefaultMaxVCPUs, \* vCPUs at boot and at most
          MemorySize, HostMemMB,     \* memory at boot and at most
          BlockSizeMB,  \* size of a memory block of the guest, or 0
          Probe,        \* the guest learns of new memory through its probe file
          VirtioMem,    \* whether memory is resized by virtio-mem: the settings looked at
          MaxOps,       \* bound: operations
          MaxFaults     \* bound: operations that fail

VARIABLES arrs,    \* the arrays s.config.Containers has been in, the last one current
          len,     \* its length
          objs,    \* the resource objects the elements point to
          ptr,     \* for each container the array and index its config points to
          state,   \* the state of each container, "none" if the sandbox has none
          vm,      \* the machine: vCPUs plugged and online, memory, QEMU's own record, and
                   \* the setting of virtio-mem
          want,    \* what the clients of each container have asked for
          last,    \* how the last operation ended: "sized", "failed" or "other"
          deleted, \* a container has been deleted
          ops, faults

vars == <<arrs, len, objs, ptr, state, vm, want, last, deleted, ops, faults>>

Ids == Apps \cup {Pod}
Nil == 0                            \* a nil pointer
NoRequest == [quota |-> 0, cpus |-> 0, limit |-> 0]
BadCpuset == -1                     \* a cpuset that does not parse

\* A quota, the size of a cpuset and a memory limit; 0 if not set.
Request == [quota : Int, cpus : Int, limit : Int]

\* QEMU is not started with a maximum of vCPUs below those at boot (qemu.go:2748 of govmm).
ASSUME ResourcesAssumption ==
    /\ Requests \subseteq Request /\ Updates \subseteq Request /\ Period \in Nat
    /\ NumVCPUs \in Nat /\ DefaultMaxVCPUs \in Nat /\ NumVCPUs <= DefaultMaxVCPUs
    /\ MemorySize \in Nat /\ HostMemMB \in Nat /\ BlockSizeMB \in Nat
    /\ Probe \in BOOLEAN /\ VirtioMem \subseteq BOOLEAN

Current(as) == as[Len(as)]
cur == Current(arrs)
Elements == SubSeq(cur, 1, len)     \* s.config.Containers

Init ==
    /\ \E r \in Requests : objs = <<r>> /\ want = [c \in Ids |-> IF c = Pod THEN r ELSE NoRequest]
    /\ arrs = << <<[id |-> Pod, res |-> 1]>> >> /\ len = 1
    /\ ptr = [c \in Ids |-> <<1, 1>>]
    /\ state = [c \in Ids |-> IF c = Pod THEN "running" ELSE "none"]
    /\ \E b \in VirtioMem : vm = [cpus |-> NumVCPUs, online |-> 1 .. NumVCPUs,
                                 mem |-> MemorySize, hotMem |-> 0, virtioMem |-> b]
    /\ last = "other" /\ deleted = FALSE /\ ops = 0 /\ faults = 0

-----------------------------------------------------------------------------
(* What the machine needs.                                                  *)

CalculateMilliCPUs(quota, period) ==
    IF quota >= 0 /\ period # 0 THEN (quota * 1000) \div period ELSE 0

CalculateVCpusFromMilliCpus(m) == (m + 999) \div 1000

\* f[1] + ... + f[n]
Sum(f, n) == LET upTo[k \in 0 .. n] == IF k = 0 THEN 0 ELSE upTo[k - 1] + f[k] IN upTo[n]

\* calculateSandboxCPUs of a sequence of requests: the quotas, or if there are
\* none the sizes of the cpusets; one that does not parse makes all of it 0.
CPUsOf(rs) ==
    LET m == Sum([i \in DOMAIN rs |-> CalculateMilliCPUs(rs[i].quota, Period)], Len(rs))
        n == Sum([i \in DOMAIN rs |-> rs[i].cpus], Len(rs))
    IN  IF \E i \in DOMAIN rs : rs[i].cpus = BadCpuset THEN 0
        ELSE IF m = 0 /\ n > 0 THEN n ELSE CalculateVCpusFromMilliCpus(m)

MemoryOf(rs) == Sum([i \in DOMAIN rs |-> IF rs[i].limit > 0 THEN rs[i].limit ELSE 0], Len(rs))

CountedStopped(elements, states, objects) ==
    [i \in DOMAIN elements |->
        IF elements[i].res = Nil THEN NoRequest ELSE objects[elements[i].res]]
\* The requests the sandbox counts: those of its elements, without the ones of
\* containers that are stopped.
Counted(elements, states, objects) ==
    [i \in DOMAIN elements |->
        IF elements[i].res = Nil \/ states[elements[i].id] = "stopped" THEN NoRequest
        ELSE objects[elements[i].res]]

-----------------------------------------------------------------------------
(* updateResources with QEMU: the ways it can end.  An outcome has the       *)
(* machine, whether there was no error, and whether something failed that    *)
(* need not have.                                                            *)

Ends(v) == [vm |-> v, ok |-> TRUE, fault |-> FALSE]
Faulty(v) == [vm |-> v, ok |-> FALSE, fault |-> TRUE]
Refused(v) == [vm |-> v, ok |-> FALSE, fault |-> FALSE]
\* The outcomes of B in the machines the outcomes in A leave, if there was no error.
Then(A, B(_)) == UNION {IF a.ok THEN B(a.vm) ELSE {a} : a \in A}

Plugged(v, n) == [v EXCEPT !.cpus = n, !.online = @ \cap 1 .. n]

\* QEMU adds vCPUs up to the maximum and removes the last ones first; when one
\* fails, those before it stay added or removed and the call fails.
hotplugAddCPUs(v, amount) ==
    LET n == Min({amount, DefaultMaxVCPUs - v.cpus})
    IN  {Ends(Plugged(v, v.cpus + n))} \cup {Faulty(Plugged(v, v.cpus + k)) : k \in 0 .. n - 1}
hotplugRemoveCPUs(v, amount) ==
    {Ends(Plugged(v, v.cpus - amount))}
        \cup {Faulty(Plugged(v, v.cpus - k)) : k \in 0 .. amount - 1}
ResizeVCPUs(v, req) ==
    IF v.cpus < req THEN hotplugAddCPUs(v, req - v.cpus)
    ELSE IF v.cpus > req THEN hotplugRemoveCPUs(v, v.cpus - req)
    ELSE {Ends(v)}

\* External, the agent: nb vCPUs that are offline come online.
onlineCPUs(v, nb) ==
    {Ends([v EXCEPT !.online = @ \cup cpus]) : cpus \in kSubset(nb, 1 .. v.cpus \ v.online)}
        \cup {Faulty(v)}

calcHotplugMemMiBSize(mem, block) ==
    IF block = 0 THEN mem ELSE ((mem + block - 1) \div block) * block

hotplugAddMemoryUnrecorded(v, mb) == {Ends([v EXCEPT !.mem = @ + mb]), Faulty(v)}
hotplugAddMemory(v, mb) ==
    {Ends([v EXCEPT !.mem = @ + mb, !.hotMem = @ + mb]), Faulty(v)}
        \cup IF Probe THEN {Faulty([v EXCEPT !.mem = @ + mb])} ELSE {}
ResizeMemory(v, req) ==
    LET now == MemorySize + v.hotMem
        add == calcHotplugMemMiBSize(req - now, BlockSizeMB)
    IN  IF v.virtioMem /\ now # req
        THEN {Ends([v EXCEPT !.mem = req, !.hotMem = req - MemorySize]), Faulty(v)}
        ELSE IF now >= req THEN {Ends(v)}       \* memory is not taken back
        ELSE IF now + add > HostMemMB THEN {Refused(v)}
        ELSE hotplugAddMemory(v, add)

updateResources(v, rs) ==
    LET cpus == CPUsOf(rs) + NumVCPUs
        CPUs(a) == IF v.cpus < a.cpus THEN onlineCPUs(a, a.cpus - v.cpus) ELSE {Ends(a)}
        Memory(a) == ResizeMemory(a, MemoryOf(rs) + MemorySize)
        Online(a) == {Ends(a), Faulty(a)}
    IN  Then(Then(Then(ResizeVCPUs(v, cpus), CPUs), Memory), Online)

-----------------------------------------------------------------------------
(* The operations.                                                          *)

Op == ops < MaxOps /\ ops' = ops + 1
Fault(b) == (b => faults < MaxFaults) /\ faults' = IF b THEN faults + 1 ELSE faults

\* updateResources for these elements, states and objects, without or with an error.
Resizes(elements, states, objects, ok) ==
    \E o \in updateResources(vm, Counted(elements, states, objects)) :
        /\ o.ok = ok /\ vm' = o.vm /\ Fault(o.fault)
        /\ last' = IF ok THEN "sized" ELSE "failed"

\* Something before updateResources fails, or something after it.
FailsBefore == Fault(TRUE) /\ last' = "failed" /\ UNCHANGED vm
FailsAfter(elements, states, objects) ==
    \E o \in updateResources(vm, Counted(elements, states, objects)) :
        o.ok /\ vm' = o.vm /\ Fault(TRUE) /\ last' = "failed"

\* append: in the array if there is room, else in a new one of twice the size.
Unused == [id |-> Pod, res |-> Nil]
Appended(e) ==
    IF len < Len(cur)
    THEN [arrs EXCEPT ![Len(arrs)][len + 1] = e]
    ELSE Append(arrs, [i \in 1 .. 2 * len |->
                          IF i <= len THEN cur[i] ELSE IF i = len + 1 THEN e ELSE Unused])

\* The container is in the sandbox while the machine is resized.  On an error it
\* is removed and the slice made shorter again; the machine stays as it is.
CreateContainer(c, r) ==
    /\ Op /\ state[c] = "none"
    /\ objs' = (IF r = NoRequest THEN objs ELSE Append(objs, r))
    /\ arrs' = Appended([id |-> c, res |-> IF r = NoRequest THEN Nil ELSE Len(objs')])
    /\ LET elements == SubSeq(Current(arrs'), 1, len + 1)
           states == [state EXCEPT ![c] = "ready"]
       IN  \/ /\ Resizes(elements, states, objs', TRUE)
              /\ len' = len + 1 /\ state' = states
              /\ ptr' = [ptr EXCEPT ![c] = <<Len(arrs'), len'>>]
              /\ want' = [want EXCEPT ![c] = r]
           \/ /\ \/ FailsBefore \/ FailsAfter(elements, states, objs')
                 \/ Resizes(elements, states, objs', FALSE)
              /\ UNCHANGED <<len, state, ptr, want>>
    /\ UNCHANGED deleted

\* A start that fails stops the container; one that has succeeded stays, also if
\* the machine cannot be resized.
StartContainer(c) ==
    /\ Op /\ state[c] = "ready"
    /\ \/ /\ state' = [state EXCEPT ![c] = "running"]
          /\ \E ok \in BOOLEAN : Resizes(Elements, state', objs, ok)
       \/ FailsBefore /\ state' = [state EXCEPT ![c] = "stopped"]
    /\ UNCHANGED <<arrs, len, objs, ptr, want, deleted>>

StopContainer(c) ==
    /\ Op /\ state[c] \in {"ready", "running"} /\ state' = [state EXCEPT ![c] = "stopped"]
    /\ last' = "other"
    /\ UNCHANGED <<arrs, len, objs, ptr, vm, want, deleted, faults>>

\* The elements behind the deleted one move up by one in the same array, unless
\* the store after the removal of the container has failed.
DeleteContainer(c) ==
    /\ Op /\ c # Pod /\ state[c] = "stopped" /\ state' = [state EXCEPT ![c] = "none"]
    /\ want' = [want EXCEPT ![c] = NoRequest] /\ deleted' = TRUE
    /\ \/ /\ LET i == Min({j \in 1 .. len : cur[j].id = c})
             IN  arrs' = [arrs EXCEPT ![Len(arrs)] = [j \in DOMAIN cur |->
                             IF j \in i .. len - 1 THEN cur[j + 1] ELSE cur[j]]]
          /\ len' = len - 1 /\ last' = "other" /\ UNCHANGED <<vm, faults>>
       \/ FailsBefore /\ UNCHANGED <<arrs, len>>
    /\ UNCHANGED <<objs, ptr>>

\* What an update leaves unset keeps its value.
Updated(r, u) ==
    [quota |-> IF u.quota # 0 THEN u.quota ELSE r.quota,
     cpus  |-> IF u.cpus # 0 THEN u.cpus ELSE r.cpus,
     limit |-> IF u.limit # 0 THEN u.limit ELSE r.limit]

\* The update goes through the pointer of the container to what its array has
\* there now; nil pointers get a new object, in that element only.
UpdateContainer(c, u) ==
    /\ Op /\ state[c] \in {"ready", "running"}
    /\ LET a == ptr[c][1]
           i == ptr[c][2]
           r == arrs[a][i].res
       IN  IF r # Nil
           THEN objs' = [objs EXCEPT ![r] = Updated(@, u)] /\ UNCHANGED arrs
           ELSE /\ objs' = Append(objs, Updated(NoRequest, u))
                /\ arrs' = [arrs EXCEPT ![a][i].res = Len(objs')]
    /\ LET elements == SubSeq(Current(arrs'), 1, len)
       IN  \/ \E ok \in BOOLEAN : Resizes(elements, state, objs', ok)
           \/ FailsAfter(elements, state, objs')
    /\ want' = [want EXCEPT ![c] = Updated(@, u)]
    /\ UNCHANGED <<len, ptr, state, deleted>>

Next ==
    \E c \in Ids :
        \/ StartContainer(c) \/ StopContainer(c) \/ DeleteContainer(c)
        \/ \E r \in Requests : CreateContainer(c, r)
        \/ \E u \in Updates : UpdateContainer(c, u)

Spec == Init /\ [][Next]_vars

-----------------------------------------------------------------------------
(* Properties.                                                              *)

Live == {c \in Ids : state[c] \in {"ready", "running"}}
\* What the containers have asked for, in the order of the list of the sandbox.
Asked == [i \in 1 .. len |-> IF cur[i].id \in Live THEN want[cur[i].id] ELSE NoRequest]

\* The list has every container that is not stopped, none of them twice, and the
\* machine has the vCPUs and at least the memory that they have asked for, as far
\* as its maximum goes.
FitsRequests ==
    /\ \A i, j \in 1 .. len : cur[i].id = cur[j].id => i = j
    /\ \A c \in Live : \E i \in 1 .. len : cur[i].id = c
    /\ vm.cpus = Min({DefaultMaxVCPUs, NumVCPUs + CPUsOf(Asked)})
    /\ vm.mem >= MemorySize + MemoryOf(Asked)

\* "For a given sandbox, it will calculate the number of vCPUs required based on
\* the sum of container requests, plus default CPUs for the VM.  Similar is done for
\* memory." (sandbox.go:2011-2013): so it is after each operation that resizes the
\* machine, whatever failed before, while no container was deleted and all have
\* resources of their own from the start.
SizedWithoutDeletion ==
    last = "sized" /\ ~deleted /\ (\A i \in 1 .. len : cur[i].res # Nil) => FitsRequests

\* "If changes in memory or CPU are made, the VM will be updated and the agent will
\* online the applicable CPU and memory": all vCPUs are online and QEMU's record of
\* plugged memory is right, unless something failed.
OnlineUnlessFaulty ==
    faults = 0 => vm.online = 1 .. vm.cpus /\ vm.mem = MemorySize + vm.hotMem
=============================================================================
