---------------------------- MODULE SandboxStore ----------------------------
(***************************************************************************)
(* What a sandbox leaves on disk, and what the clean-up after a crash of   *)
(* the shim makes of it.  virtcontainers keeps a sandbox in memory and     *)
(* writes it, after each operation, to one file for the sandbox and one    *)
(* per container (persist/fs).  When the shim dies containerd runs its     *)
(* binary again, once for each container it has a bundle of, with the      *)
(* command that ends in CleanupContainer: it reads the files back, stops   *)
(* and deletes that container, and with the last one the sandbox.          *)
(*                                                                         *)
(* An operation is the sequence of its steps, `todo'; the process may die  *)
(* between any two, also between the truncation of a file and its write.   *)
(***************************************************************************)
EXTENDS Naturals, FiniteSets, Sequences, Functions, FiniteSetsExt

CONSTANTS Pod,        \* the container of the sandbox itself
          Apps,       \* the other containers of the pod
          Faults,     \* operations that may fail: "agent", "resize", "store", "restore"
          MaxCrashes  \* bound: how often a process dies

ASSUME PodAssumption == Pod \notin Apps

VARIABLES shim,     \* "up", or "dead" once the shim has crashed
          vm,       \* the hypervisor process: "off" or "on"
          disk,     \* the directory of the sandbox
          mem,      \* the Sandbox of the running process, read back or not
          todo,     \* the steps still to do of the operation under way
          undo,     \* the steps of its deferred functions, run when a step fails
          cur,      \* the container of that operation
          saving,   \* the containers a Save under way has still to write
          bundles,  \* external, containerd: the bundle of a container, "new", "held" or "gone"
          faulted,  \* the faults that happened
          crashes,  \* the crashes that happened
          sound     \* at each crash so far the files could be read back

vars == <<shim, vm, disk, mem, todo, undo, cur, saving, bundles, faulted, crashes, sound>>

Ids == Apps \cup {Pod}
Torn == "torn"   \* a file truncated and not yet written

NoDisk == [file |-> "none", state |-> "", config |-> {}, dirs |-> <<>>]
NoMem == [state |-> "", config |-> {}, conts |-> <<>>]
NotSaving == [on |-> FALSE, left |-> {}]

\* f with x mapped to v, and f without x.
With(f, x, v) == [y \in DOMAIN f \cup {x} |-> IF y = x THEN v ELSE f[y]]
Without(f, x) == Restrict(f, DOMAIN f \ {x})

\* types.validTransition: what the state machine of sandboxes and containers allows.
validTransition(old, new) ==
    CASE old = "ready"   -> new \in {"running", "stopped"}
      [] old = "running" -> new \in {"paused", "stopped"}
      [] old = "paused"  -> new \in {"running", "stopped"}
      [] old = "stopped" -> new = "running"
      [] OTHER           -> FALSE

Init ==
    /\ shim = "up" /\ vm = "off"
    /\ disk = NoDisk /\ mem = NoMem
    /\ todo = <<>> /\ undo = <<>> /\ cur = Pod /\ saving = NotSaving
    /\ bundles = [c \in Ids |-> "new"] /\ faulted = {} /\ crashes = 0 /\ sound = TRUE

-----------------------------------------------------------------------------
(* The operations the shim calls on its sandbox, one at a time under its    *)
(* lock, as the steps they consist of.  "store" is a storeSandbox whose      *)
(* failure ends the operation, "save" one whose failure is only logged; "end" *)
(* is where the caller goes on after an operation has failed.                *)

CreateSandboxSteps == <<"startVM", "create", "store">>
StartSandboxSteps == <<"setRunning", "start", "store">>
CreateContainerSteps == <<"config", "create", "resize", "store">>
StartContainerStoredLater == <<"start", "resize">>
StartContainerSteps == <<"start", "store", "resize">>
StopContainerSteps == <<"stop", "store">>
DeleteContainerKeepsConfig == <<"remove", "store">>
DeleteContainerSteps == <<"remove", "store", "unconfig", "store">>
StopSandboxSteps == <<"stopAll", "stopVM", "setStopped", "store">>
DeleteSandboxSteps == <<"removeAll", "destroy">>

Idle == todo = <<>> /\ ~saving.on

\* A call of containerd to the shim.
Call(c, steps) ==
    /\ shim = "up" /\ Idle
    /\ todo' = steps /\ undo' = <<>> /\ cur' = c
    /\ UNCHANGED <<shim, vm, disk, mem, saving, faulted, crashes, sound>>

\* The bundle is there before the container is created.
CreateSandbox ==
    /\ bundles[Pod] = "new"
    /\ Call(Pod, CreateSandboxSteps) /\ bundles' = [bundles EXCEPT ![Pod] = "held"]

StartSandbox ==
    /\ validTransition(mem.state, "running") /\ mem.state = "ready"
    /\ Call(Pod, StartSandboxSteps) /\ UNCHANGED bundles

\* containerd does not use a name twice.
CreateContainer(c) ==
    /\ mem.state = "running" /\ c \in Apps /\ bundles[c] = "new"
    /\ Call(c, CreateContainerSteps) /\ bundles' = [bundles EXCEPT ![c] = "held"]

OnContainer(c, states, steps) ==
    /\ mem.state = "running" /\ c \in DOMAIN mem.conts /\ mem.conts[c] \in states
    /\ Call(c, steps) /\ UNCHANGED bundles

StartContainer(c) == c \in Apps /\ OnContainer(c, {"ready"}, StartContainerSteps)
PauseContainer(c) == OnContainer(c, {"running"}, <<"pause", "store">>)
ResumeContainer(c) == OnContainer(c, {"paused"}, <<"resume", "store">>)
StopContainer(c) ==
    c \in Apps /\ OnContainer(c, {"ready", "running", "paused", "stopped"}, StopContainerSteps)
DeleteContainer(c) == c \in Apps /\ OnContainer(c, {"stopped"}, DeleteContainerSteps)

\* The shim stops and deletes the sandbox when the container of the sandbox
\* has ended, whatever other containers there are.
StopAndDeleteSandbox ==
    /\ mem.state \in {"ready", "running"}
    /\ Call(Pod, StopSandboxSteps \o <<"end">> \o DeleteSandboxSteps) /\ UNCHANGED bundles

\* The bundle goes when containerd has deleted the container, or when its
\* creation failed.
RemoveBundle(c) ==
    /\ shim = "up" /\ Idle /\ bundles[c] = "held" /\ c \notin DOMAIN mem.conts
    /\ bundles' = [bundles EXCEPT ![c] = "gone"]
    /\ UNCHANGED <<shim, vm, disk, mem, todo, undo, cur, saving, faulted, crashes, sound>>

-----------------------------------------------------------------------------
(* The steps.                                                               *)

At(s) == todo # <<>> /\ Head(todo) = s /\ ~saving.on

Do(s, newMem, newVm, newTodo, newUndo) ==
    /\ At(s)
    /\ mem' = newMem /\ vm' = newVm /\ todo' = newTodo /\ undo' = newUndo
    /\ UNCHANGED <<shim, disk, cur, saving, bundles, crashes, sound>>

Step(s, newMem) == Do(s, newMem, vm, Tail(todo), undo) /\ UNCHANGED faulted

\* The operation ends here: its deferred functions run, then the caller goes on.
AfterError ==
    LET ends == {i \in DOMAIN todo : todo[i] = "end"}
    IN  undo \o IF ends = {} THEN <<>> ELSE SubSeq(todo, Min(ends), Len(todo))

Fails(f) == f \in Faults \ faulted /\ faulted' = faulted \cup {f}
StepFails(s, f, first) == Fails(f) /\ Do(s, mem, vm, first \o AfterError, <<>>)

SetState(c, state) == [mem EXCEPT !.conts = With(@, c, state)]

StartVM ==
    /\ Do("startVM", [state |-> "ready", config |-> {Pod}, conts |-> mem.conts], "on", Tail(todo),
          <<"stopVM", "removeAll", "destroy">>)
    /\ UNCHANGED faulted
StopVM == Do("stopVM", mem, "off", Tail(todo), undo) /\ UNCHANGED faulted
SetRunning == Step("setRunning", [mem EXCEPT !.state = "running"])
SetStopped == Step("setStopped", [mem EXCEPT !.state = "stopped"])
Revert == Step("revert", [mem EXCEPT !.state = "ready"])
End == Do("end", mem, vm, Tail(todo), <<>>) /\ UNCHANGED faulted

Config ==
    /\ Do("config", [mem EXCEPT !.config = @ \cup {cur}], vm, Tail(todo), <<"unconfig">>)
    /\ UNCHANGED faulted
Unconfig == Step("unconfig", [mem EXCEPT !.config = @ \ {cur}])

Create ==
    /\ Do("create", SetState(cur, "ready"), vm, Tail(todo),
          IF cur = Pod THEN undo ELSE <<"stop", "remove", "unconfig">>)
    /\ UNCHANGED faulted
CreateFails == StepFails("create", "agent", <<>>)

Resize == Step("resize", mem)
ResizeFails == StepFails("resize", "resize", <<>>)

Start == Step("start", SetState(cur, "running"))
StartFails == StepFails("start", "agent", IF cur = Pod THEN <<"stop", "revert">> ELSE <<"stop">>)

Pause == Step("pause", SetState(cur, "paused"))
Resume == Step("resume", SetState(cur, "running"))

\* Container.stop saves the sandbox in a deferred function, with the new state.
StopOf(s, c, rest) ==
    /\ At(s)
    /\ IF mem.conts[c] = "stopped"
       THEN Do(s, mem, vm, rest, undo)
       ELSE Do(s, SetState(c, "stopped"), vm, <<"save">> \o rest, undo)
    /\ UNCHANGED faulted
Stop == StopOf("stop", cur, Tail(todo))
\* Without force, which only the shim's StopContainer does, a failure leaves the state.
StopFails ==
    /\ shim = "up" /\ todo = StopContainerSteps /\ mem.conts[cur] # "stopped"
    /\ StepFails("stop", "agent", <<"save">>)
StopAll ==
    IF \A c \in DOMAIN mem.conts : mem.conts[c] = "stopped"
    THEN Step("stopAll", mem)
    ELSE \E c \in DOMAIN mem.conts : mem.conts[c] # "stopped" /\ StopOf("stopAll", c, todo)

Remove == Step("remove", [mem EXCEPT !.conts = Without(@, cur)])
RemoveAll ==
    IF DOMAIN mem.conts = {}
    THEN Step("removeAll", mem)
    ELSE \E c \in DOMAIN mem.conts :
            /\ Do("removeAll", [mem EXCEPT !.conts = Without(@, c)], vm, <<"save">> \o todo, undo)
            /\ UNCHANGED faulted

-----------------------------------------------------------------------------
(* persist/fs.  ToDisk truncates and writes the file of the sandbox, then the *)
(* file of each container, and removes the directories of other containers.  *)

Write(newDisk, newSaving, newTodo) ==
    /\ disk' = newDisk /\ saving' = newSaving /\ todo' = newTodo
    /\ UNCHANGED <<shim, vm, mem, cur, bundles, crashes, sound>>

Saves(newDisk, newSaving, newTodo) ==
    /\ saving.on
    /\ Write(newDisk, newSaving, newTodo) /\ UNCHANGED <<undo, faulted>>

SaveBegins ==
    /\ At("store") \/ At("save")
    /\ Write([disk EXCEPT !.file = Torn], [on |-> TRUE, left |-> DOMAIN mem.conts], todo)
    /\ UNCHANGED <<undo, faulted>>

SaveSandbox ==
    /\ disk.file = Torn
    /\ Saves([file |-> "whole", state |-> mem.state, config |-> mem.config, dirs |-> disk.dirs],
             saving, todo)

IsTorn(c) == c \in DOMAIN disk.dirs /\ disk.dirs[c] = Torn

SaveContainer(c) ==
    /\ disk.file = "whole" /\ c \in saving.left /\ \A d \in saving.left \ {c} : ~IsTorn(d)
    /\ IF IsTorn(c)
       THEN Saves([disk EXCEPT !.dirs = With(@, c, mem.conts[c])],
                  [saving EXCEPT !.left = @ \ {c}], todo)
       ELSE Saves([disk EXCEPT !.dirs = With(@, c, Torn)], saving, todo)

SaveRemoves(c) ==
    /\ disk.file = "whole" /\ saving.left = {} /\ c \in DOMAIN disk.dirs \ DOMAIN mem.conts
    /\ Saves([disk EXCEPT !.dirs = Without(@, c)], saving, todo)

SaveEnds ==
    /\ disk.file = "whole" /\ saving.left = {} /\ DOMAIN disk.dirs \subseteq DOMAIN mem.conts
    /\ Saves(disk, NotSaving, Tail(todo))

\* "if error happened, destroy all dirs".
SaveFails ==
    /\ saving.on /\ Fails("store")
    /\ IF Head(todo) = "store"
       THEN Write(NoDisk, NotSaving, AfterError) /\ undo' = <<>>
       ELSE Write(NoDisk, NotSaving, Tail(todo)) /\ UNCHANGED undo

Destroy ==
    /\ At("destroy")
    /\ disk' = NoDisk /\ todo' = Tail(todo) /\ mem' = [mem EXCEPT !.state = "deleted"]
    /\ UNCHANGED <<shim, vm, undo, cur, saving, bundles, faulted, crashes, sound>>

-----------------------------------------------------------------------------
(* The shim, or a clean-up, dies; containerd cleans up container by container. *)

\* What FromDisk reads without an error and fetchContainers finds the bundles of.
Readable ==
    /\ disk.file = "whole" /\ \A c \in DOMAIN disk.dirs : ~IsTorn(c)
    /\ \A c \in disk.config : bundles[c] = "held"
\* ... and in which every configured container has its state.
Restorable == Readable /\ disk.config \subseteq DOMAIN disk.dirs

Crash ==
    /\ (shim = "up" /\ mem.state # "deleted") \/ todo # <<>>
    /\ crashes < MaxCrashes /\ crashes' = crashes + 1
    /\ shim' = "dead" /\ mem' = NoMem /\ todo' = <<>> /\ undo' = <<>> /\ saving' = NotSaving
    /\ sound' = (sound /\ (Restorable \/ (vm = "off" /\ disk = NoDisk)))
    /\ UNCHANGED <<vm, disk, cur, bundles, faulted>>

\* A configured container without a file is made anew, with no state.
fetchSandbox ==
    [state |-> disk.state, config |-> disk.config,
     conts |-> [c \in disk.config |-> IF c \in DOMAIN disk.dirs THEN disk.dirs[c] ELSE ""]]

\* With force, CleanupContainer ignores the errors of StopContainer and
\* DeleteContainer; both refuse a container they do not know or without state.
CleanupContainer(c) ==
    /\ shim = "dead" /\ Idle /\ bundles[c] = "held" /\ Readable
    /\ mem' = fetchSandbox /\ cur' = c /\ undo' = <<>>
    /\ todo' = IF c \in disk.config /\ fetchSandbox.conts[c] # ""
               THEN StopContainerSteps \o <<"end">> \o DeleteContainerSteps \o <<"end", "last">>
               ELSE <<"last">>
    /\ UNCHANGED <<shim, vm, disk, saving, bundles, faulted, crashes, sound>>

\* newSandbox destroys the store when a later part of it fails, here as well.
RestoreFails(c) ==
    /\ shim = "dead" /\ Idle /\ bundles[c] = "held" /\ disk.file = "whole"
    /\ Fails("restore") /\ disk' = NoDisk
    /\ UNCHANGED <<shim, vm, mem, todo, undo, cur, saving, bundles, crashes, sound>>

Last ==
    /\ Do("last", mem, vm,
          (IF DOMAIN mem.conts # {} THEN <<>>
           ELSE (IF mem.state = "stopped" THEN <<>> ELSE StopSandboxSteps)
                \o <<"end">> \o DeleteSandboxSteps) \o <<"return">>, undo)
    /\ UNCHANGED faulted

\* The command has succeeded and containerd removes the bundle.
Return ==
    /\ todo = <<"return">> /\ ~saving.on
    /\ todo' = <<>> /\ mem' = NoMem /\ bundles' = [bundles EXCEPT ![cur] = "gone"]
    /\ UNCHANGED <<shim, vm, disk, undo, cur, saving, faulted, crashes, sound>>

Calls ==
    \/ CreateSandbox \/ StartSandbox \/ StopAndDeleteSandbox
    \/ \E c \in Ids : \/ CreateContainer(c) \/ StartContainer(c) \/ StopContainer(c)
                      \/ PauseContainer(c) \/ ResumeContainer(c) \/ DeleteContainer(c)
                      \/ RemoveBundle(c)
Steps ==
    \/ StartVM \/ StopVM \/ SetRunning \/ SetStopped \/ Revert \/ End \/ Config \/ Unconfig
    \/ Create \/ Resize \/ Start \/ Pause \/ Resume \/ Stop \/ StopAll \/ Remove \/ RemoveAll
    \/ SaveBegins \/ SaveSandbox \/ SaveEnds \/ Destroy \/ Last \/ Return
    \/ \E c \in Ids : SaveContainer(c) \/ SaveRemoves(c)
Failures ==
    \/ CreateFails \/ ResizeFails \/ StartFails \/ StopFails \/ SaveFails \/ Crash
    \/ \E c \in Ids : RestoreFails(c)

Next == Calls \/ Steps \/ Failures \/ \E c \in Ids : CleanupContainer(c)
Spec == Init /\ [][Next]_vars

\* An operation under way goes on, and containerd cleans up every container it
\* knows; calls, failures and crashes may or may not happen.
FairSpec == Spec /\ WF_vars(Steps) /\ \A c \in Ids : WF_vars(CleanupContainer(c))

-----------------------------------------------------------------------------
\* Between two operations the files say what the shim knows: every container of
\* the sandbox is there with its state, and any other one there is the stopped
\* rest of a creation that failed.  (A write that failed has removed the files.)
IdleIsStored ==
    shim = "up" /\ Idle /\ mem.state \notin {"", "deleted"} /\ disk.file # "none" =>
        /\ disk.file = "whole" /\ mem.config \subseteq disk.config
        /\ \A c \in DOMAIN mem.conts : c \in DOMAIN disk.dirs /\ disk.dirs[c] = mem.conts[c]
        /\ \A c \in DOMAIN disk.dirs \ DOMAIN mem.conts :
               disk.dirs[c] = "stopped" /\ faulted # {}

\* If at every crash the files could be read back, the clean-ups of the
\* containers end with the machine stopped and the directory removed: "once there
\* is no container in the sandbox left, do stop the sandbox and delete it" (api.go).
CleanupFrees ==
    (shim = "dead" /\ sound) ~>
        \/ ~sound \/ faulted \cap {"store", "restore"} # {}
        \/ (vm = "off" /\ disk = NoDisk)
=============================================================================
