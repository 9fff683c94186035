--------------------------- MODULE DeviceManager ---------------------------
(***************************************************************************)
(* The device manager of a sandbox and its users.                          *)
(*                                                                         *)
(* device/manager/manager.go keeps a map from device ID to device; a       *)
(* device counts the references taken on it (NewDevice, RemoveDevice) and  *)
(* how often it is attached (AttachDevice, DetachDevice), and only the     *)
(* first attach and the last detach talk to the hypervisor                 *)
(* (device/drivers/block.go).  Each of these calls holds the lock of the   *)
(* manager and is one step here.                                           *)
(*                                                                         *)
(* The users are containers (container.go): a container has a block device *)
(* as its root file system, devices of its own and bind mounts of block    *)
(* devices, all named by major and minor number, and containers of a pod   *)
(* may name the same one.  A container takes its references, attaches one  *)
(* device after the other, asks the agent to create it, and gives          *)
(* everything back when it is stopped or when its creation fails.  The     *)
(* shim calls these under its lock, except that a Create whose deadline    *)
(* passed keeps running without it, so steps of containers interleave.     *)
(***************************************************************************)
EXTENDS Integers, Sequences, FiniteSets

CONSTANTS
    Containers,     \* containers of the pod; each is created once
    Devices,        \* block devices of the host, told apart by major:minor
    NoDevice,       \* no root device, or an ID that was never set
    Rootfs,         \* Rootfs[c]: block device below the root file system
    DeviceInfos,    \* DeviceInfos[c]: devices passed to c, in order
    Mounts,         \* Mounts[c]: block devices that c mounts, in order
    MaxBlockIndex,  \* maxBlockIndex of sandbox.go
    Faults,         \* what may fail, a subset of FaultKinds
    MaxFaults       \* how many failures a behaviour has

FaultKinds == {"new", "plug", "unplug", "share", "storage", "request", "update"}

ASSUME DeviceAssumption ==
    /\ NoDevice \notin Devices
    /\ NoDevice \notin Nat
    /\ Rootfs \in [Containers -> Devices \cup {NoDevice}]
    /\ DeviceInfos \in [Containers -> Seq(Devices)]
    /\ Mounts \in [Containers -> Seq(Devices)]
    /\ MaxBlockIndex \in Nat
    /\ Faults \subseteq FaultKinds
    /\ MaxFaults \in Nat

VARIABLES
    devices,        \* dm.devices: [id -> device]
    nextID,         \* IDs below it have been handed out (newDeviceID)
    blockIndexMap,  \* indices in use, s.state.BlockIndexMap
    plugged,        \* pairs <<id, index>> in the virtual machine (external)
    ctr,            \* per container: where it is and what it holds
    faults          \* the failures so far, in order

vars == <<devices, nextID, blockIndexMap, plugged, ctr, faults>>
managerVars == <<devices, nextID, blockIndexMap, plugged>>

Index == 0 .. MaxBlockIndex - 1
Device == [dev : Devices, refCount : Nat, attachCount : Nat, index : Index \cup {-1}]

Init ==
    /\ devices = [id \in {} |-> NoDevice]
    /\ nextID = 0
    /\ blockIndexMap = {}
    /\ plugged = {}
    /\ ctr = [c \in Containers |-> [pc |-> "newMounts", i |-> 1, devs |-> <<>>, mnts |-> <<>>,
                                    drive |-> NoDevice, fstype |-> FALSE, reason |-> "rollback"]]
    /\ faults = <<>>

(***************************************************************************)
(* The calls of the device manager                                         *)
(***************************************************************************)
IDs == DOMAIN devices

\* Mutant: the device with the same numbers is not looked for.
FindNoDevice(d) == {}
FindDeviceByMajorMinor(d) == {id \in IDs : devices[id].dev = d}

\* Mutant: no reference is taken on a device that is found.
NewDeviceNoReference(d, id) ==
    /\ \/ id \in FindDeviceByMajorMinor(d) /\ UNCHANGED <<devices, nextID>>
       \/ /\ FindDeviceByMajorMinor(d) = {}
          /\ id = nextID
          /\ nextID' = nextID + 1
          /\ devices' = [x \in IDs \cup {id} |->
                            IF x = id THEN [dev |-> d, refCount |-> 1, attachCount |-> 0, index |-> -1]
                                      ELSE devices[x]]
    /\ UNCHANGED <<blockIndexMap, plugged>>

\* NewDevice(d) returns id: a device that has the same numbers, or a new one.
NewDevice(d, id) ==
    /\ \/ /\ id \in FindDeviceByMajorMinor(d)
          /\ devices' = [devices EXCEPT ![id].refCount = @ + 1]
          /\ UNCHANGED nextID
       \/ /\ FindDeviceByMajorMinor(d) = {}
          /\ id = nextID
          /\ nextID' = nextID + 1
          /\ devices' = [x \in IDs \cup {id} |->
                            IF x = id THEN [dev |-> d, refCount |-> 1, attachCount |-> 0, index |-> -1]
                                      ELSE devices[x]]
    /\ UNCHANGED <<blockIndexMap, plugged>>

FreeIndices == Index \ blockIndexMap
GetAndSetSandboxBlockIndex(i) == i \in FreeIndices /\ \A j \in FreeIndices : i <= j

\* AttachDevice(id) succeeds: only the first attach takes an index and hotplugs.
AttachDevice(id) ==
    /\ id \in IDs
    /\ UNCHANGED nextID
    /\ \/ /\ devices[id].attachCount > 0
          /\ devices' = [devices EXCEPT ![id].attachCount = @ + 1]
          /\ UNCHANGED <<blockIndexMap, plugged>>
       \/ /\ devices[id].attachCount = 0
          /\ \E i \in Index :
                /\ GetAndSetSandboxBlockIndex(i)
                /\ devices' = [devices EXCEPT ![id].attachCount = 1, ![id].index = i]
                /\ blockIndexMap' = blockIndexMap \cup {i}
                /\ plugged' = plugged \cup {<<id, i>>}

Fails(kind) == kind \in Faults /\ Len(faults) < MaxFaults /\ faults' = Append(faults, kind)

\* Mutant: the index is not given back when the hypervisor refuses.
AttachFailsKeepsIndex(id) ==
    /\ id \in IDs
    /\ devices[id].attachCount = 0
    /\ UNCHANGED <<devices, nextID, plugged>>
    /\ \E i \in Index : GetAndSetSandboxBlockIndex(i) /\ blockIndexMap' = blockIndexMap \cup {i}
    /\ Fails("plug")

\* AttachDevice(id) returns an error: the ID is unknown, the indices are used
\* up, or the hypervisor refuses; index and count are given back.
AttachFails(id) ==
    /\ UNCHANGED managerVars
    /\ \/ id \notin IDs /\ UNCHANGED faults
       \/ /\ id \in IDs
          /\ devices[id].attachCount = 0
          /\ \/ FreeIndices = {} /\ faults' = Append(faults, "index")
             \/ FreeIndices # {} /\ Fails("plug")

NotAttached(id) == id \in IDs /\ devices[id].attachCount = 0

\* DetachDevice(id) succeeds: only the last detach unplugs and frees the index.
DetachDevice(id) ==
    /\ id \in IDs
    /\ UNCHANGED nextID
    /\ \/ /\ devices[id].attachCount > 1
          /\ devices' = [devices EXCEPT ![id].attachCount = @ - 1]
          /\ UNCHANGED <<blockIndexMap, plugged>>
       \/ /\ devices[id].attachCount = 1
          /\ devices' = [devices EXCEPT ![id].attachCount = 0]
          /\ blockIndexMap' = blockIndexMap \ {devices[id].index}
          /\ plugged' = plugged \ {<<id, devices[id].index>>}

DetachFails(id) ==
    /\ UNCHANGED managerVars
    /\ \/ id \notin IDs /\ UNCHANGED faults
       \/ id \in IDs /\ devices[id].attachCount = 1 /\ Fails("unplug")

\* RemoveDevice(id) as detachDevices and removeDrive call it: an unknown ID is
\* ignored.  It drops a reference, and the device with the last one.
RemoveDevice(id) ==
    /\ UNCHANGED <<nextID, blockIndexMap, plugged>>
    /\ \/ id \notin IDs /\ UNCHANGED devices
       \/ /\ id \in IDs
          /\ devices[id].refCount > 1
          /\ devices' = [devices EXCEPT ![id].refCount = @ - 1]
       \/ /\ id \in IDs
          /\ devices[id].refCount <= 1
          /\ devices[id].attachCount = 0
          /\ devices' = [x \in IDs \ {id} |-> devices[x]]

\* ErrRemoveAttachedDevice: the last reference is gone and the device stays.
RemoveRefused(id) ==
    /\ id \in IDs
    /\ devices[id].refCount <= 1
    /\ devices[id].attachCount > 0
    /\ devices' = [devices EXCEPT ![id].refCount = 0]
    /\ UNCHANGED <<nextID, blockIndexMap, plugged>>

(***************************************************************************)
(* The life of a container                                                 *)
(***************************************************************************)
At(c, pc) == ctr[c].pc = pc
Goto(c, pc) == ctr' = [ctr EXCEPT ![c].pc = pc, ![c].i = 1]
NextItem(c) == ctr' = [ctr EXCEPT ![c].i = @ + 1]
Rollback(c) == ctr' = [ctr EXCEPT ![c].pc = "detach", ![c].i = 1, ![c].reason = "rollback"]

\* createBlockDevices: a mount without a device is shared as a file instead.
NewMounts(c) ==
    LET i == ctr[c].i IN
    /\ At(c, "newMounts")
    /\ \/ i > Len(Mounts[c]) /\ Goto(c, "newDevices") /\ UNCHANGED <<managerVars, faults>>
       \/ /\ i \in DOMAIN Mounts[c]
          /\ \/ /\ \E id \in IDs \cup {nextID} :
                      /\ NewDevice(Mounts[c][i], id)
                      /\ ctr' = [ctr EXCEPT ![c].i = @ + 1, ![c].mnts = Append(@, id)]
                /\ UNCHANGED faults
             \/ Fails("new") /\ NextItem(c) /\ UNCHANGED managerVars

\* createDevices, the end of newContainer: nothing is given back on an error.
NewDevices(c) ==
    LET i == ctr[c].i IN
    /\ At(c, "newDevices")
    /\ \/ i > Len(DeviceInfos[c]) /\ Goto(c, "newDrive") /\ UNCHANGED <<managerVars, faults>>
       \/ /\ i \in DOMAIN DeviceInfos[c]
          /\ \/ /\ \E id \in IDs \cup {nextID} :
                      /\ NewDevice(DeviceInfos[c][i], id)
                      /\ ctr' = [ctr EXCEPT ![c].i = @ + 1, ![c].devs = Append(@, id)]
                /\ UNCHANGED faults
             \/ Fails("new") /\ Goto(c, "failed") /\ UNCHANGED managerVars

\* hotplugDrive and plugDevice: the reference, then the attach; Fstype, which
\* makes removeDrive do its work, is set last.
NewDrive(c) ==
    /\ At(c, "newDrive")
    /\ \/ Rootfs[c] = NoDevice /\ Goto(c, "attach") /\ UNCHANGED <<managerVars, faults>>
       \/ /\ Rootfs[c] # NoDevice
          /\ \/ /\ \E id \in IDs \cup {nextID} :
                      /\ NewDevice(Rootfs[c], id)
                      /\ ctr' = [ctr EXCEPT ![c].pc = "plugDrive", ![c].drive = id]
                /\ UNCHANGED faults
             \/ Fails("new") /\ Rollback(c) /\ UNCHANGED managerVars

PlugDrive(c) ==
    /\ At(c, "plugDrive")
    /\ \/ /\ AttachDevice(ctr[c].drive)
          /\ ctr' = [ctr EXCEPT ![c].pc = "attach", ![c].i = 1, ![c].fstype = TRUE]
          /\ UNCHANGED faults
       \/ AttachFails(ctr[c].drive) /\ Rollback(c)

AttachDevices(c) ==
    LET i == ctr[c].i IN
    /\ At(c, "attach")
    /\ \/ i > Len(ctr[c].devs) /\ Goto(c, "agent") /\ UNCHANGED <<managerVars, faults>>
       \/ /\ i <= Len(ctr[c].devs)
          /\ \/ AttachDevice(ctr[c].devs[i]) /\ NextItem(c) /\ UNCHANGED faults
             \/ AttachFails(ctr[c].devs[i]) /\ Rollback(c)

\* createContainer of the agent begins with the root file system.
ShareRootfs(c) ==
    /\ At(c, "agent")
    /\ \/ Goto(c, "share") /\ UNCHANGED faults
       \/ Fails("share") /\ Rollback(c)
    /\ UNCHANGED managerVars

\* mountSharedDirMounts attaches the devices of the mounts.  When an attach or
\* a shared file fails it detaches the ones it attached, and mnts is cut to
\* these (devicesToDetach): nobody looks at the other ones again.
ShareMounts(c) ==
    LET i == ctr[c].i
        Undo == ctr' = [ctr EXCEPT ![c].pc = "unshare", ![c].i = 1, ![c].mnts = SubSeq(@, 1, i - 1)]
    IN
    /\ At(c, "share")
    /\ \/ Fails("share") /\ Undo /\ UNCHANGED managerVars
       \/ i > Len(ctr[c].mnts) /\ Goto(c, "request") /\ UNCHANGED <<managerVars, faults>>
       \/ /\ i <= Len(ctr[c].mnts)
          /\ \/ AttachDevice(ctr[c].mnts[i]) /\ NextItem(c) /\ UNCHANGED faults
             \/ AttachFails(ctr[c].mnts[i]) /\ Undo

Unshare(c) ==
    LET i == ctr[c].i IN
    /\ At(c, "unshare")
    /\ \/ i > Len(ctr[c].mnts) /\ Rollback(c) /\ UNCHANGED <<managerVars, faults>>
       \/ /\ i <= Len(ctr[c].mnts)
          /\ NextItem(c)
          /\ \/ DetachDevice(ctr[c].mnts[i]) /\ UNCHANGED faults
             \/ NotAttached(ctr[c].mnts[i]) /\ UNCHANGED <<managerVars, faults>>
             \/ DetachFails(ctr[c].mnts[i])

\* Mutant: a failed request adds the devices of the mounts a second time.
RequestAddsTwice(c) ==
    /\ At(c, "request")
    /\ UNCHANGED managerVars
    /\ \/ UNCHANGED faults /\ ctr' = [ctr EXCEPT ![c].pc = "update", ![c].devs = @ \o ctr[c].mnts]
       \/ /\ Fails("request")
          /\ ctr' = [ctr EXCEPT ![c].pc = "detach", ![c].i = 1, ![c].devs = @ \o ctr[c].mnts \o ctr[c].mnts]

\* handleBlkOCIMounts adds the devices of the mounts to those of the container;
\* "storage": an error on the way there, or in it with the first k added.
Request(c) ==
    LET Add(k) == ctr[c].devs \o SubSeq(ctr[c].mnts, 1, k)
        all == Len(ctr[c].mnts)
        Undo(k) == ctr' = [ctr EXCEPT ![c].pc = "detach", ![c].i = 1, ![c].devs = Add(k)]
    IN
    /\ At(c, "request")
    /\ UNCHANGED managerVars
    /\ \/ UNCHANGED faults /\ ctr' = [ctr EXCEPT ![c].pc = "update", ![c].devs = Add(all)]
       \/ Fails("request") /\ Undo(all)
       \/ Fails("storage") /\ \E k \in 0 .. all : Undo(k)

\* The rest of Sandbox.CreateContainer, which stops the container on an error.
UpdateResources(c) ==
    /\ At(c, "update")
    /\ UNCHANGED managerVars
    /\ \/ UNCHANGED faults /\ Goto(c, "ready")
       \/ /\ Fails("update")
          /\ ctr' = [ctr EXCEPT ![c].pc = "detach", ![c].i = 1, ![c].reason = "force"]

\* Container.stop, by StopContainer or by Stop of the sandbox.  Guest errors
\* return before the devices are touched and change nothing.
Stop(c, force) ==
    /\ At(c, "ready")
    /\ ctr' = [ctr EXCEPT ![c].pc = "detach", ![c].i = 1,
                          ![c].reason = IF force THEN "force" ELSE "stop"]
    /\ UNCHANGED <<managerVars, faults>>

\* An error ends a stop without force: the container stays as it was.
GiveUp(c, next) == Goto(c, IF ctr[c].reason = "stop" THEN "ready" ELSE next)
Finished(c) == IF ctr[c].reason = "rollback" THEN "failed" ELSE "stopped"

\* detachDevices: one device after the other is detached and removed.
DetachDevices(c) ==
    LET i == ctr[c].i IN
    /\ At(c, "detach")
    /\ \/ i > Len(ctr[c].devs) /\ Goto(c, "detachDrive") /\ UNCHANGED <<managerVars, faults>>
       \/ /\ i <= Len(ctr[c].devs)
          /\ \/ /\ \/ DetachDevice(ctr[c].devs[i])
                   \/ NotAttached(ctr[c].devs[i]) /\ UNCHANGED managerVars
                /\ ctr' = [ctr EXCEPT ![c].pc = "remove"]
                /\ UNCHANGED faults
             \/ DetachFails(ctr[c].devs[i]) /\ GiveUp(c, "detachDrive")

RemoveDevices(c) ==
    LET id == ctr[c].devs[ctr[c].i] IN
    /\ At(c, "remove")
    /\ UNCHANGED faults
    /\ \/ RemoveDevice(id) /\ ctr' = [ctr EXCEPT ![c].pc = "detach", ![c].i = @ + 1]
       \/ RemoveRefused(id) /\ GiveUp(c, "detachDrive")

DetachDrive(c) ==
    /\ At(c, "detachDrive")
    /\ \/ ~ctr[c].fstype /\ Goto(c, Finished(c)) /\ UNCHANGED <<managerVars, faults>>
       \/ /\ ctr[c].fstype
          /\ \/ /\ \/ DetachDevice(ctr[c].drive)
                   \/ NotAttached(ctr[c].drive) /\ UNCHANGED managerVars
                /\ Goto(c, "removeDrive")
                /\ UNCHANGED faults
             \/ DetachFails(ctr[c].drive) /\ GiveUp(c, Finished(c))

RemoveDrive(c) ==
    /\ At(c, "removeDrive")
    /\ UNCHANGED faults
    /\ \/ RemoveDevice(ctr[c].drive) /\ Goto(c, Finished(c))
       \/ RemoveRefused(ctr[c].drive) /\ GiveUp(c, Finished(c))

Next ==
    \E c \in Containers :
        \/ NewMounts(c) \/ NewDevices(c) \/ NewDrive(c) \/ PlugDrive(c) \/ AttachDevices(c)
        \/ ShareRootfs(c) \/ ShareMounts(c) \/ Unshare(c) \/ Request(c) \/ UpdateResources(c)
        \/ \E force \in BOOLEAN : Stop(c, force)
        \/ DetachDevices(c) \/ RemoveDevices(c) \/ DetachDrive(c) \/ RemoveDrive(c)

Spec == Init /\ [][Next]_vars

(***************************************************************************)
(* Properties                                                              *)
(***************************************************************************)

\* The virtual machine has exactly the attached devices, each at the index the
\* device manager recorded, and the used indices are exactly theirs, whatever
\* fails: an index decides the name of the drive that the agent is told, so an
\* index used twice or lost would mount the wrong drive (block.go Attach, Detach).
IndexOwned ==
    LET attached == {id \in IDs : devices[id].attachCount > 0} IN
    /\ plugged = {<<id, devices[id].index>> : id \in attached}
    /\ blockIndexMap = {devices[id].index : id \in attached}
    /\ \A x, y \in attached : devices[x].index = devices[y].index => x = y

\* A block device of the host is in the virtual machine at most once, however
\* many containers use it (findDeviceByMajorMinor): two drives over one disk
\* would be two caches over one file system.
PluggedOnce ==
    \A x, y \in plugged : devices[x[1]].dev = devices[y[1]].dev => x = y

Uses(c) == {ctr[c].devs[k] : k \in 1 .. Len(ctr[c].devs)}
              \cup (IF ctr[c].fstype THEN {ctr[c].drive} ELSE {})
DeviceFaults == {"index", "new", "plug", "unplug", "share", "storage"}
Untroubled == \A k \in 1 .. Len(faults) : faults[k] \notin DeviceFaults

\* All devices of a created container are in the virtual machine until the
\* container is stopped, whatever other containers that share them do.
UsedIsPlugged ==
    \A c \in Containers : At(c, "update") \/ At(c, "ready") =>
        \A id \in Uses(c) : id \in IDs /\ \E i \in Index : <<id, i>> \in plugged

\* ... as long as no single device operation failed.
UsedIsPluggedUntroubled == Untroubled => UsedIsPlugged

Quiet ==
    \A c \in Containers :
        \/ ctr[c].pc \in {"ready", "failed", "stopped"}
        \/ At(c, "newMounts") /\ ctr[c].i = 1
Users(id) == {c \in Containers : At(c, "ready") /\ ctr[c].fstype /\ ctr[c].drive = id}
Slots(id) == UNION {{c} \X {k \in 1 .. Len(ctr[c].devs) : ctr[c].devs[k] = id} :
                       c \in {x \in Containers : At(x, "ready")}}

\* Between operations each device has as many references and attachments as
\* running containers name it, so the last of them unplugs and forgets it.
CountsMatch ==
    Quiet /\ Untroubled =>
        \A id \in IDs :
            LET n == Cardinality(Users(id)) + Cardinality(Slots(id)) IN
            n > 0 /\ devices[id].refCount = n /\ devices[id].attachCount = n
=============================================================================
