--------------------------- MODULE DeviceProofs ----------------------------
(***************************************************************************)
(* The block devices in the virtual machine are those the device manager   *)
(* counts as attached, for any containers, any failures and any schedule.  *)
(* Only five calls change the state of the manager, so the invariant is    *)
(* shown for these calls and every step of a container is shown to be at   *)
(* most one of them.                                                       *)
(*                                                                         *)
(* The counts of a device are those of the references and attachments the  *)
(* containers hold, as long as no device operation has failed.             *)
(***************************************************************************)
EXTENDS DeviceManager, FiniteSetTheorems, TLAPS

\* First-order steps are Zenon's; the steps with arithmetic or sequences cite SMT.
USE Zenon

\* IDs are fresh, devices are told apart by their numbers, and an attached
\* device has an index of its own.
ManagerInv ==
    /\ nextID \in Nat
    /\ IDs \subseteq 0 .. nextID - 1
    /\ devices \in [IDs -> Device]
    /\ \A x, y \in IDs : devices[x].dev = devices[y].dev => x = y
    /\ \A x \in IDs : devices[x].attachCount > 0 => devices[x].index \in Index
    /\ IndexOwned

\* What one step does to the manager.
ManagerStep ==
    \/ UNCHANGED managerVars
    \/ \E d \in Devices, id \in IDs \cup {nextID} : NewDevice(d, id)
    \/ \E id : AttachDevice(id) \/ DetachDevice(id) \/ RemoveDevice(id) \/ RemoveRefused(id)

LEMMA InvInit == Init => ManagerInv
BY SMT DEF Init, ManagerInv, IDs, IndexOwned

LEMMA InvNewDevice ==
    ASSUME ManagerInv, NEW d \in Devices, NEW id, NewDevice(d, id)
    PROVE  ManagerInv'
<1>1. CASE id \in FindDeviceByMajorMinor(d) /\ devices' = [devices EXCEPT ![id].refCount = @ + 1]
           /\ UNCHANGED nextID
  <2>1. id \in IDs /\ IDs' = IDs BY Zenon, <1>1 DEF FindDeviceByMajorMinor, IDs, ManagerInv
  <2>2. \A x \in IDs : /\ devices'[x].dev = devices[x].dev
                       /\ devices'[x].attachCount = devices[x].attachCount
                       /\ devices'[x].index = devices[x].index
    BY SMT, <1>1, <2>1 DEF ManagerInv, Device
  <2>3. devices' \in [IDs -> Device] BY SMT, <1>1, <2>1 DEF ManagerInv, Device
  <2> QED BY SMT, <1>1, <2>1, <2>2, <2>3 DEF ManagerInv, IndexOwned, NewDevice
<1>2. CASE /\ FindDeviceByMajorMinor(d) = {} /\ id = nextID /\ nextID' = nextID + 1
           /\ devices' = [x \in IDs \cup {id} |->
                             IF x = id THEN [dev |-> d, refCount |-> 1, attachCount |-> 0, index |-> -1]
                                       ELSE devices[x]]
  <2>1. IDs' = IDs \cup {id} /\ id \notin IDs BY SMT, <1>2 DEF IDs, ManagerInv
  <2>2. \A x \in IDs : devices'[x] = devices[x] BY Zenon, <1>2, <2>1
  <2>3. devices'[id].dev = d /\ devices'[id].attachCount = 0 BY Zenon, <1>2
  <2>4. devices' \in [IDs' -> Device] BY Zenon, <1>2, <2>1 DEF ManagerInv, Device
  <2>5. \A x \in IDs : devices[x].dev # d BY Zenon, <1>2 DEF FindDeviceByMajorMinor
  <2>6. nextID' \in Nat /\ IDs' \subseteq 0 .. nextID' - 1 BY SMT, <1>2, <2>1 DEF ManagerInv
  <2>7. {x \in IDs' : devices'[x].attachCount > 0} = {x \in IDs : devices[x].attachCount > 0}
    BY SMT, <2>1, <2>2, <2>3
  <2>8. IndexOwned' BY SMT, <2>1, <2>2, <2>7 DEF IndexOwned, ManagerInv, NewDevice
  <2> QED BY SMT, <2>1, <2>2, <2>3, <2>4, <2>5, <2>6, <2>8 DEF ManagerInv
<1> QED BY Zenon, <1>1, <1>2 DEF NewDevice

\* Only the count of references changes, or a device nobody attached is dropped.
LEMMA InvRemove ==
    ASSUME ManagerInv, NEW id, RemoveDevice(id) \/ RemoveRefused(id)
    PROVE  ManagerInv'
<1>0. UNCHANGED <<nextID, blockIndexMap, plugged>> BY Zenon DEF RemoveDevice, RemoveRefused
<1>1. CASE UNCHANGED devices BY SMT, <1>0, <1>1 DEF ManagerInv, IDs, IndexOwned
<1>2. CASE id \in IDs /\ \E n \in Nat : devices' = [devices EXCEPT ![id].refCount = n]
  <2>1. IDs' = IDs BY Zenon, <1>2 DEF IDs, ManagerInv
  <2>2. \A x \in IDs : /\ devices'[x].dev = devices[x].dev
                       /\ devices'[x].attachCount = devices[x].attachCount
                       /\ devices'[x].index = devices[x].index
    BY SMT, <1>2 DEF ManagerInv, Device
  <2>3. devices' \in [IDs -> Device] BY SMT, <1>2 DEF ManagerInv, Device
  <2> QED BY SMT, <1>0, <2>1, <2>2, <2>3 DEF ManagerInv, IndexOwned
<1>3. CASE id \in IDs /\ devices[id].attachCount = 0 /\ devices' = [x \in IDs \ {id} |-> devices[x]]
  <2>1. IDs' = IDs \ {id} BY Zenon, <1>3 DEF IDs
  <2>2. \A x \in IDs' : devices'[x] = devices[x] BY Zenon, <1>3, <2>1
  <2>3. devices' \in [IDs' -> Device] BY Zenon, <1>3, <2>1 DEF ManagerInv
  <2>4. {x \in IDs' : devices'[x].attachCount > 0} = {x \in IDs : devices[x].attachCount > 0}
    BY SMT, <1>3, <2>1, <2>2
  <2>5. IndexOwned' BY SMT, <1>0, <2>1, <2>2, <2>4 DEF IndexOwned, ManagerInv
  <2>6. nextID' \in Nat /\ IDs' \subseteq 0 .. nextID' - 1 BY Zenon, <1>0, <2>1 DEF ManagerInv
  <2>7. \A x, y \in IDs' : devices'[x].dev = devices'[y].dev => x = y
    BY SMT, <2>1, <2>2 DEF ManagerInv
  <2>8. \A x \in IDs' : devices'[x].attachCount > 0 => devices'[x].index \in Index
    BY Zenon, <2>1, <2>2 DEF ManagerInv
  <2> QED BY Zenon, <2>3, <2>5, <2>6, <2>7, <2>8 DEF ManagerInv
<1>4. \A x \in IDs : devices[x].refCount \in Nat BY Zenon DEF ManagerInv, Device
<1> QED BY SMT, <1>1, <1>2, <1>3, <1>4 DEF RemoveDevice, RemoveRefused

\* A first attach takes a free index, a later one only counts.
LEMMA InvAttach ==
    ASSUME ManagerInv, NEW id, AttachDevice(id)
    PROVE  ManagerInv'
<1>0. id \in IDs /\ nextID' = nextID BY Zenon DEF AttachDevice
<1>1. CASE /\ devices[id].attachCount > 0
           /\ devices' = [devices EXCEPT ![id].attachCount = @ + 1]
           /\ UNCHANGED <<blockIndexMap, plugged>>
  <2>1. IDs' = IDs BY Zenon, <1>1 DEF IDs, ManagerInv
  <2>2. \A x \in IDs : /\ devices'[x].dev = devices[x].dev
                       /\ devices'[x].attachCount > 0 <=> devices[x].attachCount > 0
                       /\ devices'[x].index = devices[x].index
    BY SMT, <1>0, <1>1 DEF ManagerInv, Device
  <2>3. devices' \in [IDs -> Device] BY SMT, <1>0, <1>1 DEF ManagerInv, Device
  <2> QED BY SMT, <1>0, <1>1, <2>1, <2>2, <2>3 DEF ManagerInv, IndexOwned
<1>2. ASSUME devices[id].attachCount = 0, NEW i \in Index, i \notin blockIndexMap,
             devices' = [devices EXCEPT ![id].attachCount = 1, ![id].index = i],
             blockIndexMap' = blockIndexMap \cup {i}, plugged' = plugged \cup {<<id, i>>}
      PROVE  ManagerInv'
  <2>1. IDs' = IDs BY Zenon, <1>2 DEF IDs, ManagerInv
  <2>2. \A x \in IDs : devices'[x].dev = devices[x].dev BY SMT, <1>0, <1>2 DEF ManagerInv, Device
  <2>3. \A x \in IDs \ {id} : devices'[x] = devices[x] BY Zenon, <1>0, <1>2 DEF ManagerInv
  <2>4. devices'[id].attachCount = 1 /\ devices'[id].index = i BY ZenonT(40), <1>0, <1>2 DEF ManagerInv, Device
  <2>5. devices' \in [IDs -> Device]
    <3>0. devices[id] \in Device BY Zenon, <1>0 DEF ManagerInv
    <3>1. [devices[id] EXCEPT !.attachCount = 1, !.index = i] \in Device
      BY Zenon, <3>0 DEF Device
    <3>2. devices' = [devices EXCEPT ![id] = [devices[id] EXCEPT !.attachCount = 1, !.index = i]]
      BY Zenon, <1>0, <1>2 DEF ManagerInv, Device
    <3> QED BY Zenon, <1>0, <3>1, <3>2 DEF ManagerInv
  <2>6. {x \in IDs' : devices'[x].attachCount > 0}
          = {x \in IDs : devices[x].attachCount > 0} \cup {id}
    BY SMT, <1>0, <2>1, <2>3, <2>4
  <2>7. \A x \in IDs : devices[x].attachCount > 0 => devices[x].index # i
    BY Zenon, <1>2 DEF ManagerInv, IndexOwned
  <2>8. IndexOwned' BY SMT, <1>0, <1>2, <2>1, <2>3, <2>4, <2>6, <2>7 DEF IndexOwned, ManagerInv
  <2> QED BY SMT, <1>0, <2>1, <2>2, <2>3, <2>4, <2>5, <2>8 DEF ManagerInv
<1> QED BY Zenon, <1>1, <1>2 DEF AttachDevice, GetAndSetSandboxBlockIndex, FreeIndices

\* A last detach gives the index back, an earlier one only counts.
LEMMA InvDetach ==
    ASSUME ManagerInv, NEW id, DetachDevice(id)
    PROVE  ManagerInv'
<1>0. id \in IDs /\ nextID' = nextID BY Zenon DEF DetachDevice
<1>1. CASE /\ devices[id].attachCount > 1
           /\ devices' = [devices EXCEPT ![id].attachCount = @ - 1]
           /\ UNCHANGED <<blockIndexMap, plugged>>
  <2>1. IDs' = IDs BY Zenon, <1>1 DEF IDs, ManagerInv
  <2>2. \A x \in IDs : /\ devices'[x].dev = devices[x].dev
                       /\ devices'[x].attachCount > 0 <=> devices[x].attachCount > 0
                       /\ devices'[x].index = devices[x].index
    BY SMT, <1>0, <1>1 DEF ManagerInv, Device
  <2>3. devices' \in [IDs -> Device] BY SMT, <1>0, <1>1 DEF ManagerInv, Device
  <2> QED BY SMT, <1>0, <1>1, <2>1, <2>2, <2>3 DEF ManagerInv, IndexOwned
<1>2. CASE /\ devices[id].attachCount = 1
           /\ devices' = [devices EXCEPT ![id].attachCount = 0]
           /\ blockIndexMap' = blockIndexMap \ {devices[id].index}
           /\ plugged' = plugged \ {<<id, devices[id].index>>}
  <2>1. IDs' = IDs BY Zenon, <1>2 DEF IDs, ManagerInv
  <2>2. \A x \in IDs : /\ devices'[x].dev = devices[x].dev
                       /\ devices'[x].index = devices[x].index
    BY SMT, <1>0, <1>2 DEF ManagerInv, Device
  <2>3. \A x \in IDs \ {id} : devices'[x] = devices[x] BY Zenon, <1>0, <1>2 DEF ManagerInv
  <2>4. devices'[id].attachCount = 0 BY SMT, <1>0, <1>2 DEF ManagerInv, Device
  <2>5. devices' \in [IDs -> Device] BY SMT, <1>0, <1>2 DEF ManagerInv, Device
  <2>6. {x \in IDs' : devices'[x].attachCount > 0}
          = {x \in IDs : devices[x].attachCount > 0} \ {id}
    BY SMT, <1>0, <2>1, <2>3, <2>4
  <2>7. \A x \in IDs \ {id} : devices[x].attachCount > 0 => devices[x].index # devices[id].index
    BY SMT, <1>0, <1>2 DEF ManagerInv, IndexOwned
  <2>8. IndexOwned' BY SMT, <1>0, <1>2, <2>1, <2>2, <2>3, <2>6, <2>7 DEF IndexOwned, ManagerInv
  <2> QED BY SMT, <1>0, <2>1, <2>2, <2>3, <2>4, <2>5, <2>8 DEF ManagerInv
<1> QED BY Zenon, <1>1, <1>2 DEF DetachDevice

LEMMA InvManager == ManagerInv /\ ManagerStep => ManagerInv'
<1>1. ManagerInv /\ UNCHANGED managerVars => ManagerInv'
  BY SMT DEF ManagerInv, managerVars, IDs, IndexOwned
<1> QED BY Zenon, <1>1, InvNewDevice, InvRemove, InvAttach, InvDetach DEF ManagerStep

\* Every step of a container makes at most one call of the manager.
LEMMA StepIsCall == [Next]_vars => ManagerStep
<1> SUFFICES ASSUME [Next]_vars PROVE ManagerStep
  BY ZenonT(60)
<1>1. ASSUME NEW c \in Containers, NewMounts(c) \/ NewDevices(c) \/ NewDrive(c) PROVE ManagerStep
  <2>1. \A i \in DOMAIN Mounts[c] : Mounts[c][i] \in Devices BY SMT, DeviceAssumption
  <2>2. \A i \in DOMAIN DeviceInfos[c] : DeviceInfos[c][i] \in Devices BY SMT, DeviceAssumption
  <2>3. Rootfs[c] # NoDevice => Rootfs[c] \in Devices BY ZenonT(60), DeviceAssumption
  <2> QED BY Zenon, <1>1, <2>1, <2>2, <2>3 DEF NewMounts, NewDevices, NewDrive, ManagerStep
<1>2. ASSUME NEW c \in Containers, PlugDrive(c) \/ AttachDevices(c) PROVE ManagerStep
  <2>1. CASE PlugDrive(c) BY Zenon, <2>1 DEF PlugDrive, AttachFails, ManagerStep
  <2>2. CASE AttachDevices(c) BY Zenon, <2>2 DEF AttachDevices, AttachFails, ManagerStep
  <2> QED BY Zenon, <1>2, <2>1, <2>2
<1>3. ASSUME NEW c \in Containers, ShareRootfs(c) \/ ShareMounts(c) \/ Unshare(c) PROVE ManagerStep
  <2>1. CASE ShareRootfs(c) BY Zenon, <2>1 DEF ShareRootfs, ManagerStep, managerVars
  <2>2. CASE ShareMounts(c)
    <3>1. UNCHANGED managerVars \/ \E id : AttachDevice(id)
      BY Zenon, <2>2 DEF ShareMounts, AttachFails
    <3> QED BY Zenon, <3>1 DEF ManagerStep
  <2>3. CASE Unshare(c)
    <3>1. UNCHANGED managerVars \/ \E id : DetachDevice(id)
      BY Zenon, <2>3 DEF Unshare, DetachFails
    <3> QED BY Zenon, <3>1 DEF ManagerStep
  <2> QED BY Zenon, <1>3, <2>1, <2>2, <2>3
<1>4. ASSUME NEW c \in Containers, Request(c) \/ UpdateResources(c) \/ \E f \in BOOLEAN : Stop(c, f)
      PROVE  ManagerStep
  BY ZenonT(60), <1>4 DEF Request, UpdateResources, Stop, ManagerStep, managerVars
<1>5. ASSUME NEW c \in Containers, DetachDevices(c) \/ RemoveDevices(c) PROVE ManagerStep
  BY Zenon, <1>5 DEF DetachDevices, RemoveDevices, DetachFails, ManagerStep, managerVars
<1>6. ASSUME NEW c \in Containers, DetachDrive(c) \/ RemoveDrive(c) PROVE ManagerStep
  BY Zenon, <1>6 DEF DetachDrive, RemoveDrive, DetachFails, ManagerStep, managerVars
<1>7. CASE UNCHANGED vars BY Zenon, <1>7 DEF vars, ManagerStep, managerVars
<1> QED BY Zenon, <1>1, <1>2, <1>3, <1>4, <1>5, <1>6, <1>7 DEF Next

LEMMA InvHolds == Spec => []ManagerInv
BY InvInit, InvManager, StepIsCall, PTL DEF Spec

\* Whatever fails, the virtual machine has exactly the devices the manager
\* counts as attached, and every used index belongs to exactly one of them
\* (BlockDevice.Attach and Detach, getAndSetSandboxBlockIndex).
THEOREM IndicesAreOwned == Spec => []IndexOwned
<1>1. ManagerInv => IndexOwned BY Zenon DEF ManagerInv
<1> QED BY <1>1, InvHolds, PTL

\* Whatever fails, no block device of the host is in the virtual machine twice
\* (findDeviceByMajorMinor in createDevice).
THEOREM DisksArePluggedOnce == Spec => []PluggedOnce
<1>1. ManagerInv => PluggedOnce BY SMT DEF ManagerInv, IndexOwned, PluggedOnce
<1> QED BY <1>1, InvHolds, PTL

-----------------------------------------------------------------------------
(* The counts, as long as no device operation failed.                       *)
(*                                                                          *)
(* What a container holds is a set of slots: 0 is its root device, 1 to     *)
(* Own(c) are the devices passed to it, the ones above are its mounts.  The *)
(* slot of a mount stays the same when handleBlkOCIMounts adds the device   *)
(* of the mount to those of the container.  Each call of the manager then   *)
(* adds or takes away one slot, and no count needs a sum.                   *)

Own(c) == Len(DeviceInfos[c])
SlotID(c, k) == IF k = 0 THEN ctr[c].drive
                ELSE IF k <= Own(c) THEN ctr[c].devs[k] ELSE ctr[c].mnts[k - Own(c)]
SlotsOf(c) == 1 .. Own(c) + Len(ctr[c].mnts)

\* The slots c has a reference for.
Refs(c) ==
    {k \in SlotsOf(c) : /\ k > Own(c) \/ k <= Len(ctr[c].devs)
                        /\ ctr[c].pc \in {"detach", "remove"} => k >= ctr[c].i
                        /\ ctr[c].pc \notin {"detachDrive", "removeDrive", "failed", "stopped"}}
    \cup {k \in {0} : At(c, "plugDrive") \/ (ctr[c].fstype /\ ctr[c].pc \notin {"failed", "stopped"})}

\* The slots whose device c has attached.
Atts(c) ==
    {k \in SlotsOf(c) : \/ At(c, "attach") /\ k < ctr[c].i
                        \/ At(c, "agent") /\ k <= Own(c)
                        \/ At(c, "share") /\ k < Own(c) + ctr[c].i
                        \/ ctr[c].pc \in {"request", "update", "ready"}
                        \/ At(c, "detach") /\ k >= ctr[c].i
                        \/ At(c, "remove") /\ k > ctr[c].i}
    \cup {k \in {0} : ctr[c].fstype /\ ctr[c].pc \notin {"removeDrive", "failed", "stopped"}}

Held(slots) == UNION {{c} \X slots[c] : c \in Containers}
RefsTo(id) == [c \in Containers |-> {k \in Refs(c) : SlotID(c, k) = id}]
AttsTo(id) == [c \in Containers |-> {k \in Atts(c) : SlotID(c, k) = id}]

\* How far c is, when nothing failed for it.
Merged == {"update", "ready", "detach", "remove", "detachDrive", "removeDrive"}
Points == {"newMounts", "newDevices", "newDrive", "plugDrive", "attach", "agent", "share", "request",
           "failed", "stopped"} \cup Merged
Shape(c) ==
    LET pc == ctr[c].pc  i == ctr[c].i  held == Len(ctr[c].devs)  shared == Len(ctr[c].mnts) IN
    /\ pc \in Points /\ i \in Nat \ {0} /\ ctr[c].fstype \in BOOLEAN
    /\ ctr[c].devs \in Seq(Nat) /\ ctr[c].mnts \in Seq(Nat)
    /\ pc = "newMounts" => held = 0 /\ shared = i - 1
    /\ pc = "newDevices" => held = i - 1 /\ i <= Own(c) + 1
    /\ pc \in {"newMounts", "newDevices", "newDrive", "plugDrive"} => ~ctr[c].fstype
    /\ pc \in {"newDrive", "plugDrive", "attach", "agent", "share", "request"} => held = Own(c)
    /\ pc = "attach" => i <= held + 1
    /\ pc = "share" => i <= shared + 1
    /\ pc \in Merged => /\ held = Own(c) + shared
                        /\ \A k \in 1 .. shared : ctr[c].devs[Own(c) + k] = ctr[c].mnts[k]
    /\ pc = "detach" => i <= held + 1
    /\ pc = "remove" => i <= held
    /\ pc = "removeDrive" => ctr[c].fstype

Ledger ==
    /\ \A c \in Containers : \A k \in Refs(c) : SlotID(c, k) \in IDs
    /\ \A id \in IDs :
        /\ IsFiniteSet(Held(RefsTo(id)))
        /\ devices[id].refCount >= 1
        /\ devices[id].refCount = Cardinality(Held(RefsTo(id)))
        /\ devices[id].attachCount = Cardinality(Held(AttsTo(id)))

FieldNames == {"pc", "i", "devs", "mnts", "drive", "fstype", "reason"}
CtrDom == /\ ctr = [c \in Containers |-> ctr[c]]
          /\ \A c \in Containers : DOMAIN ctr[c] = FieldNames /\ ctr[c] = [f \in FieldNames |-> ctr[c][f]]

FaultsType == faults \in Seq(FaultKinds \cup {"index"})

CountInv == Untroubled => CtrDom /\ Ledger /\ \A c \in Containers : Shape(c)

LEMMA InHeld ==
    ASSUME NEW f, NEW s
    PROVE  s \in Held(f) <=> \E c \in Containers : \E k \in f[c] : s = <<c, k>>
BY SMT DEF Held

LEMMA HeldAdd ==
    ASSUME NEW f, NEW g, NEW c \in Containers, NEW k, k \notin f[c], g[c] = f[c] \cup {k},
           \A d \in Containers \ {c} : g[d] = f[d], IsFiniteSet(Held(f))
    PROVE  IsFiniteSet(Held(g)) /\ Cardinality(Held(g)) = Cardinality(Held(f)) + 1
<1>1. \A s : s \in Held(g) <=> s \in Held(f) \cup {<<c, k>>}
  <2>1. ASSUME NEW s, s \in Held(g) PROVE s \in Held(f) \cup {<<c, k>>}
    <3>1. PICK d, j : d \in Containers /\ j \in g[d] /\ s = <<d, j>> BY SMT, <2>1, InHeld
    <3>2. CASE d = c /\ j = k BY Zenon, <3>1, <3>2
    <3>3. CASE ~(d = c /\ j = k)
      <4>1. j \in f[d] BY Zenon, <3>1, <3>3
      <4> QED BY Zenon, <3>1, <4>1, InHeld
    <3> QED BY Zenon, <3>2, <3>3
  <2>2. ASSUME NEW s, s \in Held(f) PROVE s \in Held(g)
    <3>1. PICK d, j : d \in Containers /\ j \in f[d] /\ s = <<d, j>> BY SMT, <2>2, InHeld
    <3>2. j \in g[d] BY Zenon, <3>1
    <3> QED BY Zenon, <3>1, <3>2, InHeld
  <2>3. <<c, k>> \in Held(g) BY Zenon, InHeld
  <2> QED BY Zenon, <2>1, <2>2, <2>3
<1>2. Held(g) = Held(f) \cup {<<c, k>>} BY Zenon, <1>1
<1>3. <<c, k>> \notin Held(f) BY SMT, InHeld
<1>4. IsFiniteSet(Held(f) \cup {<<c, k>>}) /\ Cardinality(Held(f) \cup {<<c, k>>}) = Cardinality(Held(f)) + 1
  BY Zenon, <1>3, FS_AddElement
<1> QED BY Zenon, <1>2, <1>4

LEMMA HeldRemove ==
    ASSUME NEW f, NEW g, NEW c \in Containers, NEW k \in f[c], g[c] = f[c] \ {k},
           \A d \in Containers \ {c} : g[d] = f[d], IsFiniteSet(Held(f))
    PROVE  IsFiniteSet(Held(g)) /\ Cardinality(Held(g)) = Cardinality(Held(f)) - 1
<1>1. \A s : s \in Held(g) <=> s \in Held(f) \ {<<c, k>>}
  <2>1. ASSUME NEW s, s \in Held(g) PROVE s \in Held(f) \ {<<c, k>>}
    <3>1. PICK d, j : d \in Containers /\ j \in g[d] /\ s = <<d, j>> BY SMT, <2>1, InHeld
    <3>2. j \in f[d] /\ ~(d = c /\ j = k) BY Zenon, <3>1
    <3>3. s # <<c, k>> BY Zenon, <3>1, <3>2
    <3> QED BY Zenon, <3>1, <3>2, <3>3, InHeld
  <2>2. ASSUME NEW s, s \in Held(f), s # <<c, k>> PROVE s \in Held(g)
    <3>1. PICK d, j : d \in Containers /\ j \in f[d] /\ s = <<d, j>> BY SMT, <2>2, InHeld
    <3>2. j \in g[d] BY Zenon, <2>2, <3>1
    <3> QED BY Zenon, <3>1, <3>2, InHeld
  <2> QED BY Zenon, <2>1, <2>2
<1>2. Held(g) = Held(f) \ {<<c, k>>} BY Zenon, <1>1
<1>3. <<c, k>> \in Held(f) BY Zenon, InHeld
<1>4. IsFiniteSet(Held(f) \ {<<c, k>>}) /\ Cardinality(Held(f) \ {<<c, k>>}) = Cardinality(Held(f)) - 1
  BY Zenon, <1>3, FS_RemoveElement
<1> QED BY Zenon, <1>2, <1>4

LEMMA HeldPart ==
    ASSUME NEW f, NEW g, \A c \in Containers : g[c] \subseteq f[c], IsFiniteSet(Held(f))
    PROVE  IsFiniteSet(Held(g)) /\ Cardinality(Held(g)) <= Cardinality(Held(f))
<1>1. ASSUME NEW s \in Held(g) PROVE s \in Held(f)
  <2>1. PICK c, k : c \in Containers /\ k \in g[c] /\ s = <<c, k>> BY SMT, InHeld
  <2> QED BY Zenon, <2>1, InHeld
<1> QED BY Zenon, <1>1, FS_Subset

LEMMA HeldSame == ASSUME NEW f, NEW g, \A c \in Containers : g[c] = f[c] PROVE Held(g) = Held(f)
BY ZenonT(40) DEF Held

\* A step of c leaves the slots of the other containers alone.
Others(c) == \A d \in Containers \ {c} : ctr'[d] = ctr[d]

LEMMA OtherSlots ==
    ASSUME NEW c \in Containers, Others(c)
    PROVE  \A d \in Containers \ {c} :
               Refs(d)' = Refs(d) /\ Atts(d)' = Atts(d) /\ \A k : SlotID(d, k)' = SlotID(d, k)
BY SMT DEF Others, Refs, Atts, SlotID, SlotsOf, At

LEMMA OtherSets ==
    ASSUME NEW c \in Containers, Others(c), NEW id
    PROVE  \A d \in Containers \ {c} : RefsTo(id)'[d] = RefsTo(id)[d] /\ AttsTo(id)'[d] = AttsTo(id)[d]
BY Zenon, OtherSlots DEF RefsTo, AttsTo

AttsAreRefs == \A c \in Containers : Atts(c) \subseteq Refs(c)

\* The slots of c as before, but for slot k.
SameIDs(c) == \A k \in Refs(c) \cap Refs(c)' : SlotID(c, k)' = SlotID(c, k)

LEMMA SameSets ==
    ASSUME NEW c \in Containers, Others(c), SameIDs(c), AttsAreRefs, NEW id
    PROVE  /\ Refs(c)' = Refs(c) => Held(RefsTo(id))' = Held(RefsTo(id))
           /\ Atts(c)' = Atts(c) /\ Atts(c) \subseteq Refs(c)' => Held(AttsTo(id))' = Held(AttsTo(id))
<1>1. ASSUME Refs(c)' = Refs(c) PROVE \A d \in Containers : RefsTo(id)'[d] = RefsTo(id)[d]
  <2>1. RefsTo(id)'[c] = RefsTo(id)[c] BY Zenon, <1>1 DEF RefsTo, SameIDs
  <2> QED BY SMT, <2>1, OtherSets
<1>2. ASSUME Atts(c)' = Atts(c), Atts(c) \subseteq Refs(c)' PROVE \A d \in Containers : AttsTo(id)'[d] = AttsTo(id)[d]
  <2>1. AttsTo(id)'[c] = AttsTo(id)[c] BY Zenon, <1>2 DEF AttsTo, SameIDs, AttsAreRefs
  <2> QED BY SMT, <2>1, OtherSets
<1>3. \A f, g : (\A d \in Containers : g[d] = f[d]) => Held(g) = Held(f) BY Zenon, HeldSame
<1>4. Held(RefsTo(id))' = Held(RefsTo(id)') /\ Held(AttsTo(id))' = Held(AttsTo(id)') BY Zenon DEF Held
<1> QED BY Zenon, <1>1, <1>2, <1>3, <1>4

LEMMA LedgerKept ==
    ASSUME Ledger, UNCHANGED managerVars, AttsAreRefs, NEW c \in Containers, Others(c),
           Refs(c)' = Refs(c), Atts(c)' = Atts(c), SameIDs(c)
    PROVE  Ledger'
<1>1. IDs' = IDs /\ devices' = devices BY Zenon DEF managerVars, IDs
<1>2. \A id : Held(RefsTo(id))' = Held(RefsTo(id)) /\ Held(AttsTo(id))' = Held(AttsTo(id))
  BY Zenon, SameSets DEF AttsAreRefs
<1>3. \A d \in Containers : \A k \in Refs(d)' : SlotID(d, k)' \in IDs' BY SMT, <1>1, OtherSlots DEF Ledger, SameIDs
<1> QED BY Zenon, <1>1, <1>2, <1>3 DEF Ledger

LEMMA NobodyHolds ==
    ASSUME Ledger, AttsAreRefs, NEW id, id \notin IDs
    PROVE  Held(RefsTo(id)) = {} /\ Held(AttsTo(id)) = {}
<1>1. \A c \in Containers : RefsTo(id)[c] = {} /\ AttsTo(id)[c] = {}
  BY Zenon DEF Ledger, AttsAreRefs, RefsTo, AttsTo
<1> QED BY Zenon, <1>1, InHeld

LEMMA LedgerNew ==
    ASSUME ManagerInv, Ledger, AttsAreRefs, NEW c \in Containers, Others(c), SameIDs(c),
           NEW d \in Devices, NEW id \in IDs \cup {nextID}, NewDevice(d, id),
           NEW k, k \notin Refs(c), Refs(c)' = Refs(c) \cup {k}, Atts(c)' = Atts(c), SlotID(c, k)' = id
    PROVE  Ledger'
<1>1. /\ IDs' = IDs \cup {id}
      /\ \A x \in IDs \ {id} : devices'[x] = devices[x]
      /\ id \in IDs => devices'[id].refCount = devices[id].refCount + 1
                       /\ devices'[id].attachCount = devices[id].attachCount
      /\ id \notin IDs => devices'[id].refCount = 1 /\ devices'[id].attachCount = 0
  <2>1. CASE id \in IDs /\ devices' = [devices EXCEPT ![id].refCount = @ + 1]
    <3>0. DOMAIN devices' = DOMAIN devices BY Zenon, <2>1
    <3>1. id \in IDs /\ IDs' = IDs \cup {id} BY Zenon, <2>1, <3>0 DEF IDs
    <3>2. \A x \in IDs \ {id} : devices'[x] = devices[x] BY Zenon, <2>1 DEF IDs
    <3>3. devices'[id] = [devices[id] EXCEPT !.refCount = devices[id].refCount + 1] BY Zenon, <2>1 DEF IDs
    <3>4. devices[id] \in Device BY Zenon, <2>1 DEF IDs, ManagerInv
    <3>5. devices'[id].refCount = devices[id].refCount + 1 /\ devices'[id].attachCount = devices[id].attachCount
      BY Zenon, <3>3, <3>4 DEF Device
    <3> QED BY Zenon, <3>1, <3>2, <3>5
  <2>2. CASE /\ id \notin IDs
             /\ devices' = [x \in IDs \cup {id} |->
                               IF x = id THEN [dev |-> d, refCount |-> 1, attachCount |-> 0, index |-> -1]
                                         ELSE devices[x]]
    BY Zenon, <2>2 DEF IDs
  <2>3. nextID \notin IDs BY SMT DEF ManagerInv
  <2> QED BY Zenon, <2>1, <2>2, <2>3 DEF NewDevice, FindDeviceByMajorMinor
<1>2. \A x : Held(AttsTo(x))' = Held(AttsTo(x)) BY Zenon, SameSets DEF AttsAreRefs
<1>3. ASSUME NEW x, x # id PROVE Held(RefsTo(x))' = Held(RefsTo(x))
  <2>1. RefsTo(x)'[c] = RefsTo(x)[c] BY Zenon, <1>3 DEF RefsTo, SameIDs
  <2>2. \A e \in Containers : RefsTo(x)'[e] = RefsTo(x)[e] BY SMT, <2>1, OtherSets
  <2>3. Held(RefsTo(x)') = Held(RefsTo(x)) BY Zenon, <2>2, HeldSame
  <2> QED BY Zenon, <2>3 DEF Held
<1>4. IsFiniteSet(Held(RefsTo(id))) BY Zenon, NobodyHolds, FS_EmptySet DEF Ledger
<1>5. IsFiniteSet(Held(RefsTo(id))') /\ Cardinality(Held(RefsTo(id))') = Cardinality(Held(RefsTo(id))) + 1
  <2>1. RefsTo(id)'[c] = RefsTo(id)[c] \cup {k} /\ k \notin RefsTo(id)[c] BY Zenon DEF RefsTo, SameIDs
  <2>2. \A e \in Containers \ {c} : RefsTo(id)'[e] = RefsTo(id)[e] BY ZenonT(40), OtherSets
  <2>3. IsFiniteSet(Held(RefsTo(id)')) /\ Cardinality(Held(RefsTo(id)')) = Cardinality(Held(RefsTo(id))) + 1
    BY Zenon, <1>4, <2>1, <2>2, HeldAdd
  <2>4. Held(RefsTo(id))' = Held(RefsTo(id)') BY Zenon DEF Held
  <2> QED BY Zenon, <2>3, <2>4
<1>6. \A e \in Containers : \A j \in Refs(e)' : SlotID(e, j)' \in IDs'
  BY SMT, <1>1, OtherSlots DEF Ledger, SameIDs
<1>7. ASSUME NEW x \in IDs \ {id}
      PROVE  /\ IsFiniteSet(Held(RefsTo(x))') /\ devices'[x].refCount >= 1
             /\ devices'[x].refCount = Cardinality(Held(RefsTo(x))')
             /\ devices'[x].attachCount = Cardinality(Held(AttsTo(x))')
  BY ZenonT(40), <1>1, <1>2, <1>3 DEF Ledger
<1>8. /\ devices'[id].refCount >= 1 /\ devices'[id].refCount = Cardinality(Held(RefsTo(id))')
      /\ devices'[id].attachCount = Cardinality(Held(AttsTo(id))')
  <2>1. CASE id \in IDs
    <3>1. devices[id].refCount \in Nat BY Zenon, <2>1 DEF ManagerInv, Device
    <3> QED BY SMT, <1>1, <1>2, <1>5, <2>1, <3>1 DEF Ledger
  <2>2. CASE id \notin IDs
    <3>1. Cardinality(Held(RefsTo(id))) = 0 /\ Cardinality(Held(AttsTo(id))) = 0
      BY Zenon, <2>2, NobodyHolds, FS_EmptySet
    <3>2. Cardinality(Held(RefsTo(id))') = 1 BY SMT, <1>5, <3>1
    <3> QED BY SMT, <1>1, <1>2, <2>2, <3>1, <3>2
  <2> QED BY Zenon, <2>1, <2>2
<1> QED BY Zenon, <1>1, <1>5, <1>6, <1>7, <1>8 DEF Ledger

\* A container that detached a device before may remove it.
LEMMA NotRefused ==
    ASSUME ManagerInv, Ledger, AttsAreRefs, NEW c \in Containers, NEW k \in Refs(c) \ Atts(c), NEW id, id = SlotID(c, k)
    PROVE  /\ id \in IDs /\ devices[id].refCount \in Nat /\ devices[id].attachCount \in Nat
           /\ devices[id].refCount = 1 => devices[id].attachCount = 0 /\ Held(RefsTo(id)) = {<<c, k>>}
           /\ ~RemoveRefused(id)
<1>0. id \in IDs /\ devices[id].refCount \in Nat /\ devices[id].attachCount \in Nat
  BY Zenon DEF Ledger, ManagerInv, Device
<1>1. devices[id].refCount = 1 => devices[id].attachCount = 0 /\ Held(RefsTo(id)) = {<<c, k>>}
  <2>1. <<c, k>> \in Held(RefsTo(id)) BY Zenon, InHeld DEF RefsTo
  <2>2. <<c, k>> \notin Held(AttsTo(id)) BY SMT, InHeld DEF AttsTo
  <2>3. Held(AttsTo(id)) \subseteq Held(RefsTo(id))
    <3>1. \A e \in Containers : AttsTo(id)[e] \subseteq RefsTo(id)[e] BY Zenon DEF AttsAreRefs, AttsTo, RefsTo
    <3> QED BY SMT, <3>1, InHeld
  <2>4. devices[id].refCount = 1 => Held(RefsTo(id)) = {<<c, k>>}
    BY SMT, <1>0, <2>1, FS_Singleton DEF Ledger
  <2>5. devices[id].refCount = 1 => Held(AttsTo(id)) = {} BY Zenon, <2>2, <2>3, <2>4
  <2> QED BY Zenon, <1>0, <2>4, <2>5, FS_EmptySet DEF Ledger
<1>2. ~RemoveRefused(id) BY SMT, <1>0, <1>1 DEF RemoveRefused, Ledger
<1> QED BY Zenon, <1>0, <1>1, <1>2

LEMMA LedgerRemove ==
    ASSUME ManagerInv, Ledger, AttsAreRefs, NEW c \in Containers, Others(c), SameIDs(c),
           NEW k \in Refs(c) \ Atts(c), NEW id, id = SlotID(c, k), RemoveDevice(id),
           Refs(c)' = Refs(c) \ {k}, Atts(c)' = Atts(c)
    PROVE  Ledger'
<1>0. id \in IDs /\ devices[id].refCount \in Nat /\ devices[id].attachCount \in Nat BY Zenon, NotRefused
<1>1. devices[id].refCount = 1 => devices[id].attachCount = 0 /\ Held(RefsTo(id)) = {<<c, k>>} BY Zenon, NotRefused
<1>3. RemoveDevice(id) /\ Refs(c)' = Refs(c) \ {k} /\ Atts(c)' = Atts(c) BY Zenon
<1>4. \A x : Held(AttsTo(x))' = Held(AttsTo(x)) BY Zenon, <1>3, SameSets DEF AttsAreRefs
<1>5. ASSUME NEW x, x # id PROVE Held(RefsTo(x))' = Held(RefsTo(x))
  <2>1. RefsTo(x)'[c] = RefsTo(x)[c] BY Zenon, <1>3, <1>5 DEF RefsTo, SameIDs
  <2>2. \A e \in Containers : RefsTo(x)'[e] = RefsTo(x)[e] BY SMT, <2>1, OtherSets
  <2>3. Held(RefsTo(x)') = Held(RefsTo(x)) BY Zenon, <2>2, HeldSame
  <2> QED BY Zenon, <2>3 DEF Held
<1>6. IsFiniteSet(Held(RefsTo(id))') /\ Cardinality(Held(RefsTo(id))') = Cardinality(Held(RefsTo(id))) - 1
  <2>1. RefsTo(id)'[c] = RefsTo(id)[c] \ {k} /\ k \in RefsTo(id)[c] BY Zenon, <1>3 DEF RefsTo, SameIDs
  <2>2. \A e \in Containers \ {c} : RefsTo(id)'[e] = RefsTo(id)[e] BY SMT, OtherSets
  <2>3. IsFiniteSet(Held(RefsTo(id)')) /\ Cardinality(Held(RefsTo(id)')) = Cardinality(Held(RefsTo(id))) - 1
    BY Zenon, <1>0, <2>1, <2>2, HeldRemove DEF Ledger
  <2>4. Held(RefsTo(id))' = Held(RefsTo(id)') BY Zenon DEF Held
  <2> QED BY Zenon, <2>3, <2>4
<1>7. \A e \in Containers : \A j \in Refs(e)' : SlotID(e, j)' \in IDs /\ (<<e, j>> # <<c, k>>)
  BY SMT, <1>3, OtherSlots DEF Ledger, SameIDs
<1>8. /\ IDs' \subseteq IDs /\ IDs \ {id} \subseteq IDs'
      /\ \A x \in IDs' \ {id} : devices'[x] = devices[x]
      /\ id \in IDs' => devices[id].refCount > 1 /\ devices'[id].refCount = devices[id].refCount - 1
                       /\ devices'[id].attachCount = devices[id].attachCount
      /\ id \notin IDs' => devices[id].refCount <= 1
  BY SMT, <1>0, <1>3 DEF RemoveDevice, IDs, ManagerInv, Device
<1>9. \A e \in Containers : \A j \in Refs(e)' : SlotID(e, j)' \in IDs'
  <2>1. SUFFICES ASSUME id \notin IDs', NEW e \in Containers, NEW j \in Refs(e)', SlotID(e, j)' = id PROVE FALSE
    BY ZenonT(40), <1>7, <1>8
  <2>2. Held(RefsTo(id)) = {<<c, k>>} BY SMT, <1>0, <1>1, <1>8, <2>1 DEF Ledger
  <2>3. j \in RefsTo(id)[e] BY Zenon, <1>3, <2>1, OtherSlots DEF RefsTo, SameIDs
  <2>4. <<e, j>> \in Held(RefsTo(id)) BY Zenon, <2>3, InHeld
  <2> QED BY Zenon, <1>7, <2>2, <2>4
<1>10. ASSUME NEW x \in IDs' \ {id}
       PROVE  /\ IsFiniteSet(Held(RefsTo(x))') /\ devices'[x].refCount >= 1
              /\ devices'[x].refCount = Cardinality(Held(RefsTo(x))')
              /\ devices'[x].attachCount = Cardinality(Held(AttsTo(x))')
  BY ZenonT(40), <1>4, <1>5, <1>8 DEF Ledger
<1>11. id \in IDs' => /\ devices'[id].refCount >= 1 /\ devices'[id].refCount = Cardinality(Held(RefsTo(id))')
                      /\ devices'[id].attachCount = Cardinality(Held(AttsTo(id))')
  BY SMT, <1>0, <1>4, <1>6, <1>8 DEF Ledger
<1> QED BY Zenon, <1>6, <1>9, <1>10, <1>11 DEF Ledger

LEMMA LedgerAttach ==
    ASSUME ManagerInv, Ledger, AttsAreRefs, NEW c \in Containers, Others(c), SameIDs(c),
           NEW id, NEW k \in Refs(c) \ Atts(c), id = SlotID(c, k), AttachDevice(id), Atts(c)' = Atts(c) \cup {k}, Refs(c)' = Refs(c)
    PROVE  Ledger'
<1>1. /\ IDs' = IDs /\ id \in IDs
      /\ \A x \in IDs \ {id} : devices'[x] = devices[x]
      /\ devices'[id].refCount = devices[id].refCount
      /\ devices'[id].attachCount = devices[id].attachCount + 1
  <2>1. \A x \in IDs : devices[x] \in Device BY Zenon DEF ManagerInv
  <2>2. id \in IDs /\ devices[id] \in Device BY Zenon, <2>1 DEF AttachDevice
  <2>3. CASE devices' = [devices EXCEPT ![id].attachCount = @ + 1]
    BY ZenonT(40), <2>2, <2>3 DEF IDs, ManagerInv, Device
  <2>4. ASSUME NEW i, devices[id].attachCount = 0, devices' = [devices EXCEPT ![id].attachCount = 1, ![id].index = i]
        PROVE  /\ IDs' = IDs
               /\ \A x \in IDs \ {id} : devices'[x] = devices[x]
               /\ devices'[id].refCount = devices[id].refCount
               /\ devices'[id].attachCount = devices[id].attachCount + 1
    <3>1. IDs' = IDs BY Zenon, <2>4 DEF IDs, ManagerInv
    <3>2. \A x \in IDs \ {id} : devices'[x] = devices[x] BY Zenon, <2>2, <2>4 DEF ManagerInv
    <3>3. devices'[id].refCount = devices[id].refCount /\ devices'[id].attachCount = 1
      BY Zenon, <2>2, <2>4 DEF ManagerInv, Device
    <3>4. devices[id].attachCount = 0 BY Zenon, <2>4
    <3> QED BY SMT, <3>1, <3>2, <3>3, <3>4
  <2> QED BY Zenon, <2>2, <2>3, <2>4 DEF AttachDevice
<1>2. \A x : Held(RefsTo(x))' = Held(RefsTo(x)) BY Zenon, SameSets
<1>3. ASSUME NEW x, x # id PROVE Held(AttsTo(x))' = Held(AttsTo(x))
  <2>1. AttsTo(x)'[c] = AttsTo(x)[c] BY Zenon, <1>3 DEF AttsTo, SameIDs, AttsAreRefs
  <2>2. \A e \in Containers : AttsTo(x)'[e] = AttsTo(x)[e] BY SMT, <2>1, OtherSets
  <2>3. Held(AttsTo(x)') = Held(AttsTo(x)) BY Zenon, <2>2, HeldSame
  <2> QED BY Zenon, <2>3 DEF Held
<1>4. IsFiniteSet(Held(AttsTo(id)))
  <2>1. \A e \in Containers : AttsTo(id)[e] \subseteq RefsTo(id)[e] BY Zenon DEF AttsAreRefs, AttsTo, RefsTo
  <2> QED BY Zenon, <1>1, <2>1, HeldPart DEF Ledger
<1>5. Cardinality(Held(AttsTo(id))') = Cardinality(Held(AttsTo(id))) + 1
  <2>1. AttsTo(id)'[c] = AttsTo(id)[c] \cup {k} /\ k \notin AttsTo(id)[c] BY ZenonT(40) DEF AttsTo, SameIDs, AttsAreRefs
  <2>2. \A e \in Containers \ {c} : AttsTo(id)'[e] = AttsTo(id)[e] BY Zenon, OtherSets
  <2>3. Cardinality(Held(AttsTo(id)')) = Cardinality(Held(AttsTo(id))) + 1 BY Zenon, <1>4, <2>1, <2>2, HeldAdd
  <2>4. Held(AttsTo(id))' = Held(AttsTo(id)') BY ZenonT(40) DEF Held
  <2> QED BY Zenon, <2>3, <2>4
<1>6. \A e \in Containers : \A j \in Refs(e)' : SlotID(e, j)' \in IDs' BY SMT, <1>1, OtherSlots DEF Ledger, SameIDs
<1>7. ASSUME NEW x \in IDs \ {id}
      PROVE  /\ IsFiniteSet(Held(RefsTo(x))') /\ devices'[x].refCount >= 1
             /\ devices'[x].refCount = Cardinality(Held(RefsTo(x))')
             /\ devices'[x].attachCount = Cardinality(Held(AttsTo(x))')
  BY Zenon, <1>1, <1>2, <1>3 DEF Ledger
<1>8. /\ IsFiniteSet(Held(RefsTo(id))') /\ devices'[id].refCount >= 1
      /\ devices'[id].refCount = Cardinality(Held(RefsTo(id))')
      /\ devices'[id].attachCount = Cardinality(Held(AttsTo(id))')
  BY Zenon, <1>1, <1>2, <1>5 DEF Ledger
<1> QED BY Zenon, <1>1, <1>6, <1>7, <1>8 DEF Ledger

LEMMA LedgerDetach ==
    ASSUME ManagerInv, Ledger, AttsAreRefs, NEW c \in Containers, Others(c), SameIDs(c),
           NEW id, NEW k \in Atts(c), id = SlotID(c, k), DetachDevice(id), Atts(c)' = Atts(c) \ {k}, Refs(c)' = Refs(c)
    PROVE  Ledger'
<1>1. /\ IDs' = IDs /\ id \in IDs
      /\ \A x \in IDs \ {id} : devices'[x] = devices[x]
      /\ devices'[id].refCount = devices[id].refCount
      /\ devices'[id].attachCount = devices[id].attachCount - 1
  <2>1. \A x \in IDs : devices[x] \in Device BY Zenon DEF ManagerInv
  <2> QED BY SMT, <2>1 DEF DetachDevice, IDs, ManagerInv, Device
<1>2. \A x : Held(RefsTo(x))' = Held(RefsTo(x)) BY Zenon, SameSets
<1>3. ASSUME NEW x, x # id PROVE Held(AttsTo(x))' = Held(AttsTo(x))
  <2>1. AttsTo(x)'[c] = AttsTo(x)[c] BY ZenonT(40), <1>3 DEF AttsTo, SameIDs, AttsAreRefs
  <2>2. \A e \in Containers : AttsTo(x)'[e] = AttsTo(x)[e] BY SMT, <2>1, OtherSets
  <2>3. Held(AttsTo(x)') = Held(AttsTo(x)) BY Zenon, <2>2, HeldSame
  <2> QED BY Zenon, <2>3 DEF Held
<1>4. IsFiniteSet(Held(AttsTo(id)))
  <2>1. \A e \in Containers : AttsTo(id)[e] \subseteq RefsTo(id)[e] BY Zenon DEF AttsAreRefs, AttsTo, RefsTo
  <2> QED BY Zenon, <1>1, <2>1, HeldPart DEF Ledger
<1>5. Cardinality(Held(AttsTo(id))') = Cardinality(Held(AttsTo(id))) - 1
  <2>1. AttsTo(id)'[c] = AttsTo(id)[c] \ {k} /\ k \in AttsTo(id)[c] BY ZenonT(40) DEF AttsTo, SameIDs, AttsAreRefs
  <2>2. \A e \in Containers \ {c} : AttsTo(id)'[e] = AttsTo(id)[e] BY ZenonT(40), OtherSets
  <2>3. Cardinality(Held(AttsTo(id)')) = Cardinality(Held(AttsTo(id))) - 1 BY Zenon, <1>4, <2>1, <2>2, HeldRemove
  <2>4. Held(AttsTo(id))' = Held(AttsTo(id)') BY Zenon DEF Held
  <2> QED BY Zenon, <2>3, <2>4
<1>6. \A e \in Containers : \A j \in Refs(e)' : SlotID(e, j)' \in IDs' BY SMT, <1>1, OtherSlots DEF Ledger, SameIDs
<1>7. ASSUME NEW x \in IDs \ {id}
      PROVE  /\ IsFiniteSet(Held(RefsTo(x))') /\ devices'[x].refCount >= 1
             /\ devices'[x].refCount = Cardinality(Held(RefsTo(x))')
             /\ devices'[x].attachCount = Cardinality(Held(AttsTo(x))')
  BY Zenon, <1>1, <1>2, <1>3 DEF Ledger
<1>8. /\ IsFiniteSet(Held(RefsTo(id))') /\ devices'[id].refCount >= 1
      /\ devices'[id].refCount = Cardinality(Held(RefsTo(id))')
      /\ devices'[id].attachCount = Cardinality(Held(AttsTo(id))')
  BY Zenon, <1>1, <1>2, <1>5 DEF Ledger
<1> QED BY Zenon, <1>1, <1>6, <1>7, <1>8 DEF Ledger

LEMMA HeldIsKnown ==
    ASSUME Ledger, AttsAreRefs, NEW c \in Containers, NEW k
    PROVE  /\ k \in Refs(c) => SlotID(c, k) \in IDs
           /\ k \in Atts(c) => SlotID(c, k) \in IDs /\ devices[SlotID(c, k)].attachCount # 0
<1>1. k \in Refs(c) => SlotID(c, k) \in IDs BY Zenon DEF Ledger
<1>2. ASSUME k \in Atts(c) PROVE devices[SlotID(c, k)].attachCount # 0
  <2>0. SlotID(c, k) \in IDs BY Zenon, <1>1, <1>2 DEF AttsAreRefs
  <2>1. \A e \in Containers : AttsTo(SlotID(c, k))[e] \subseteq RefsTo(SlotID(c, k))[e]
    BY Zenon DEF AttsAreRefs, AttsTo, RefsTo
  <2>2. IsFiniteSet(Held(AttsTo(SlotID(c, k)))) BY Zenon, <2>0, <2>1, HeldPart DEF Ledger
  <2>3. k \in AttsTo(SlotID(c, k))[c] BY Zenon, <1>2 DEF AttsTo
  <2>4. Held(AttsTo(SlotID(c, k))) # {} BY ZenonT(40), <2>3, InHeld
  <2> QED BY Zenon, <2>0, <2>2, <2>4, FS_EmptySet DEF Ledger
<1> QED BY Zenon, <1>1, <1>2 DEF AttsAreRefs
LEMMA Troubles ==
    ASSUME FaultsType, NEW kind, faults' = Append(faults, kind)
    PROVE  (Untroubled' => Untroubled) /\ (kind \in DeviceFaults => ~Untroubled')
BY SMT DEF FaultsType, Untroubled

LEMMA ShapeAtts == ASSUME NEW c \in Containers, Shape(c) PROVE Atts(c) \subseteq Refs(c)
<1>0. Own(c) \in Nat BY SMT, DeviceAssumption DEF Own
<1>1. Len(ctr[c].devs) \in Nat /\ Len(ctr[c].mnts) \in Nat /\ ctr[c].i \in Nat BY SMT DEF Shape
<1>2. ASSUME NEW k \in Atts(c), k # 0 PROVE k \in Refs(c)
  <2>1. ctr[c].pc \in {"attach", "agent", "share", "request", "update", "ready", "detach", "remove"}
    BY ZenonT(40), <1>2 DEF Atts, At
  <2>2. Len(ctr[c].devs) >= Own(c) BY SMT, <1>0, <1>1, <2>1 DEF Shape, Merged
  <2> QED BY SMT, <1>0, <1>1, <1>2, <2>1, <2>2 DEF Atts, Refs, SlotsOf, At
<1>3. 0 \in Atts(c) => 0 \in Refs(c) BY SMT, <1>0, <1>1 DEF Atts, Refs, SlotsOf
<1> QED BY Zenon, <1>2, <1>3

LEMMA Moved ==
    ASSUME CtrDom, NEW c \in Containers, NEW p, Goto(c, p)
    PROVE  /\ CtrDom' /\ Others(c)
           /\ ctr'[c].pc = p /\ ctr'[c].i = 1 /\ ctr'[c].devs = ctr[c].devs
           /\ ctr'[c].mnts = ctr[c].mnts /\ ctr'[c].drive = ctr[c].drive /\ ctr'[c].fstype = ctr[c].fstype
BY Zenon DEF CtrDom, FieldNames, Others, Goto

LEMMA MovedOn ==
    ASSUME CtrDom, NEW c \in Containers, NextItem(c)
    PROVE  /\ CtrDom' /\ Others(c)
           /\ ctr'[c].pc = ctr[c].pc /\ ctr'[c].i = ctr[c].i + 1 /\ ctr'[c].devs = ctr[c].devs
           /\ ctr'[c].mnts = ctr[c].mnts /\ ctr'[c].drive = ctr[c].drive /\ ctr'[c].fstype = ctr[c].fstype
BY Zenon DEF CtrDom, FieldNames, Others, NextItem

LEMMA MountAdded ==
    ASSUME CtrDom, NEW c \in Containers, NEW id, 
           ctr' = [ctr EXCEPT ![c].i = @ + 1, ![c].mnts = Append(@, id)]
    PROVE  /\ CtrDom' /\ Others(c)
           /\ ctr'[c].pc = ctr[c].pc /\ ctr'[c].i = ctr[c].i + 1 /\ ctr'[c].devs = ctr[c].devs
           /\ ctr'[c].mnts = Append(ctr[c].mnts, id) /\ ctr'[c].drive = ctr[c].drive /\ ctr'[c].fstype = ctr[c].fstype
BY Zenon DEF CtrDom, FieldNames, Others

LEMMA DeviceAdded ==
    ASSUME CtrDom, NEW c \in Containers, NEW id, 
           ctr' = [ctr EXCEPT ![c].i = @ + 1, ![c].devs = Append(@, id)]
    PROVE  /\ CtrDom' /\ Others(c)
           /\ ctr'[c].pc = ctr[c].pc /\ ctr'[c].i = ctr[c].i + 1 /\ ctr'[c].devs = Append(ctr[c].devs, id)
           /\ ctr'[c].mnts = ctr[c].mnts /\ ctr'[c].drive = ctr[c].drive /\ ctr'[c].fstype = ctr[c].fstype
BY Zenon DEF CtrDom, FieldNames, Others

LEMMA DriveAdded ==
    ASSUME CtrDom, NEW c \in Containers, NEW id, 
           ctr' = [ctr EXCEPT ![c].pc = "plugDrive", ![c].drive = id]
    PROVE  /\ CtrDom' /\ Others(c)
           /\ ctr'[c].pc = "plugDrive" /\ ctr'[c].i = ctr[c].i /\ ctr'[c].devs = ctr[c].devs
           /\ ctr'[c].mnts = ctr[c].mnts /\ ctr'[c].drive = id /\ ctr'[c].fstype = ctr[c].fstype
BY Zenon DEF CtrDom, FieldNames, Others

LEMMA DrivePlugged ==
    ASSUME CtrDom, NEW c \in Containers, 
           ctr' = [ctr EXCEPT ![c].pc = "attach", ![c].i = 1, ![c].fstype = TRUE]
    PROVE  /\ CtrDom' /\ Others(c)
           /\ ctr'[c].pc = "attach" /\ ctr'[c].i = 1 /\ ctr'[c].devs = ctr[c].devs
           /\ ctr'[c].mnts = ctr[c].mnts /\ ctr'[c].drive = ctr[c].drive /\ ctr'[c].fstype = TRUE
BY ZenonT(40) DEF CtrDom, FieldNames, Others

LEMMA DevicesMerged ==
    ASSUME CtrDom, NEW c \in Containers, NEW q, 
           ctr' = [ctr EXCEPT ![c].pc = "update", ![c].devs = q]
    PROVE  /\ CtrDom' /\ Others(c)
           /\ ctr'[c].pc = "update" /\ ctr'[c].i = ctr[c].i /\ ctr'[c].devs = q
           /\ ctr'[c].mnts = ctr[c].mnts /\ ctr'[c].drive = ctr[c].drive /\ ctr'[c].fstype = ctr[c].fstype
BY Zenon DEF CtrDom, FieldNames, Others

LEMMA RequestUndone ==
    ASSUME CtrDom, NEW c \in Containers, NEW q, 
           ctr' = [ctr EXCEPT ![c].pc = "detach", ![c].i = 1, ![c].devs = q]
    PROVE  /\ CtrDom' /\ Others(c)
           /\ ctr'[c].pc = "detach" /\ ctr'[c].i = 1 /\ ctr'[c].devs = q
           /\ ctr'[c].mnts = ctr[c].mnts /\ ctr'[c].drive = ctr[c].drive /\ ctr'[c].fstype = ctr[c].fstype
BY ZenonT(40) DEF CtrDom, FieldNames, Others

LEMMA StopBegins ==
    ASSUME CtrDom, NEW c \in Containers, NEW w, 
           ctr' = [ctr EXCEPT ![c].pc = "detach", ![c].i = 1, ![c].reason = w]
    PROVE  /\ CtrDom' /\ Others(c)
           /\ ctr'[c].pc = "detach" /\ ctr'[c].i = 1 /\ ctr'[c].devs = ctr[c].devs
           /\ ctr'[c].mnts = ctr[c].mnts /\ ctr'[c].drive = ctr[c].drive /\ ctr'[c].fstype = ctr[c].fstype
BY ZenonT(40) DEF CtrDom, FieldNames, Others

LEMMA RemoveBegins ==
    ASSUME CtrDom, NEW c \in Containers, 
           ctr' = [ctr EXCEPT ![c].pc = "remove"]
    PROVE  /\ CtrDom' /\ Others(c)
           /\ ctr'[c].pc = "remove" /\ ctr'[c].i = ctr[c].i /\ ctr'[c].devs = ctr[c].devs
           /\ ctr'[c].mnts = ctr[c].mnts /\ ctr'[c].drive = ctr[c].drive /\ ctr'[c].fstype = ctr[c].fstype
BY Zenon DEF CtrDom, FieldNames, Others

LEMMA RemoveEnds ==
    ASSUME CtrDom, NEW c \in Containers, 
           ctr' = [ctr EXCEPT ![c].pc = "detach", ![c].i = @ + 1]
    PROVE  /\ CtrDom' /\ Others(c)
           /\ ctr'[c].pc = "detach" /\ ctr'[c].i = ctr[c].i + 1 /\ ctr'[c].devs = ctr[c].devs
           /\ ctr'[c].mnts = ctr[c].mnts /\ ctr'[c].drive = ctr[c].drive /\ ctr'[c].fstype = ctr[c].fstype
BY Zenon DEF CtrDom, FieldNames, Others

\* One step of c while nothing fails: before and after.
Calm(c) == FaultsType /\ ManagerInv /\ CtrDom /\ Ledger /\ AttsAreRefs /\ Shape(c) /\ Untroubled'
Kept(c) == CtrDom' /\ Others(c) /\ Shape(c)' /\ Ledger'

LEMMA Sizes ==
    ASSUME NEW c \in Containers, Shape(c)
    PROVE  /\ Own(c) \in Nat /\ Len(ctr[c].devs) \in Nat /\ Len(ctr[c].mnts) \in Nat /\ ctr[c].i \in Nat \ {0}
BY SMT, DeviceAssumption DEF Own, Shape

\* What an index and the lists of a container are, whatever it is doing.
LEMMA Lists ==
    ASSUME NEW c \in Containers, Shape(c)
    PROVE  /\ ctr[c].devs \in Seq(Nat) /\ ctr[c].mnts \in Seq(Nat) /\ ctr[c].fstype \in BOOLEAN
           /\ 1 \in Nat \ {0} /\ ctr[c].i + 1 \in Nat \ {0}
           /\ 1 <= Own(c) + 1 /\ 1 <= Len(ctr[c].devs) + 1 /\ 1 <= Len(ctr[c].mnts) + 1
<1>1. ctr[c].devs \in Seq(Nat) /\ ctr[c].mnts \in Seq(Nat) /\ ctr[c].fstype \in BOOLEAN BY Zenon DEF Shape
<1>2. Own(c) \in Nat /\ Len(ctr[c].devs) \in Nat /\ Len(ctr[c].mnts) \in Nat /\ ctr[c].i \in Nat \ {0} BY Zenon, Sizes
<1>3. /\ 1 \in Nat \ {0} /\ ctr[c].i + 1 \in Nat \ {0}
      /\ 1 <= Own(c) + 1 /\ 1 <= Len(ctr[c].devs) + 1 /\ 1 <= Len(ctr[c].mnts) + 1
  <2>1. \A n \in Nat : n + 1 \in Nat \ {0} /\ 1 <= n + 1 BY SMT
  <2>2. 1 \in Nat \ {0} /\ ctr[c].i \in Nat BY SMT, <1>2
  <2> QED BY Zenon, <1>2, <2>1, <2>2
<1> QED BY Zenon, <1>1, <1>3

\* The shape of c on the way to its start.
LEMMA StartingShape ==
    ASSUME NEW c \in Containers, ctr'[c].devs \in Seq(Nat), ctr'[c].mnts \in Seq(Nat),
           ctr'[c].fstype \in BOOLEAN, ctr'[c].i \in Nat \ {0},
           \/ /\ ctr'[c].pc = "newMounts" /\ ~ctr'[c].fstype
              /\ Len(ctr'[c].devs) = 0 /\ Len(ctr'[c].mnts) = ctr'[c].i - 1
           \/ /\ ctr'[c].pc = "newDevices" /\ ~ctr'[c].fstype
              /\ Len(ctr'[c].devs) = ctr'[c].i - 1 /\ ctr'[c].i <= Own(c) + 1
           \/ ctr'[c].pc = "newDrive" /\ ~ctr'[c].fstype /\ Len(ctr'[c].devs) = Own(c)
           \/ ctr'[c].pc = "attach" /\ Len(ctr'[c].devs) = Own(c) /\ ctr'[c].i <= Len(ctr'[c].devs) + 1
           \/ ctr'[c].pc = "share" /\ Len(ctr'[c].devs) = Own(c) /\ ctr'[c].i <= Len(ctr'[c].mnts) + 1
           \/ ctr'[c].pc \in {"agent", "request"} /\ Len(ctr'[c].devs) = Own(c)
    PROVE  Shape(c)'
<1>1. Own(c)' = Own(c) BY Zenon DEF Own
<1> QED BY Zenon, <1>1 DEF Shape, Points, Merged

LEMMA NoTrouble ==
    ASSUME FaultsType, Untroubled', NEW kind \in DeviceFaults
    PROVE  ~Fails(kind) /\ faults' # Append(faults, kind)
BY Zenon, Troubles DEF Fails

LEMMA AppendFacts ==
    ASSUME NEW q \in Seq(Nat), NEW e \in Nat
    PROVE  /\ Append(q, e) \in Seq(Nat) /\ Len(Append(q, e)) = Len(q) + 1 /\ Append(q, e)[Len(q) + 1] = e
           /\ \A j \in 1 .. Len(q) : Append(q, e)[j] = q[j]
BY SMT

LEMMA NewIDs == ASSUME ManagerInv, NEW id \in IDs \cup {nextID} PROVE id \in Nat
BY SMT DEF ManagerInv

LEMMA CountNewMounts == ASSUME NEW c \in Containers, Calm(c), NewMounts(c) PROVE Kept(c)
<1> USE Sizes DEF Calm
<1>0. ctr[c].pc = "newMounts" /\ ~ctr[c].fstype /\ Len(ctr[c].devs) = 0 BY Zenon DEF NewMounts, At, Shape
<1>1. CASE ctr[c].i > Len(Mounts[c]) /\ Goto(c, "newDevices") /\ UNCHANGED managerVars
  <2>0. /\ ctr'[c].pc = "newDevices" /\ ctr'[c].i = 1 /\ ctr'[c].devs = ctr[c].devs
        /\ ctr'[c].mnts = ctr[c].mnts /\ ctr'[c].drive = ctr[c].drive /\ ctr'[c].fstype = ctr[c].fstype
    BY Zenon, <1>1, Moved
  <2>1. Refs(c)' = Refs(c) BY Zenon, <1>0, <2>0 DEF Refs, SlotsOf, Own, At
  <2>2. Atts(c)' = Atts(c) BY Zenon, <1>0, <2>0 DEF Atts, SlotsOf, Own, At
  <2>3. SameIDs(c) BY Zenon, <2>0 DEF SameIDs, SlotID, Own
  <2>4. Shape(c)'
    <3>1. Len(ctr[c].devs) = 1 - 1 BY SMT, <1>0
    <3> QED BY <1>0, <2>0, <3>1, Lists, StartingShape
  <2> QED BY SMT, <1>1, <2>1, <2>2, <2>3, <2>4, Moved, LedgerKept DEF Kept
<1>2. ASSUME ctr[c].i \in DOMAIN Mounts[c], NEW id \in IDs \cup {nextID}, NewDevice(Mounts[c][ctr[c].i], id),
             ctr' = [ctr EXCEPT ![c].i = @ + 1, ![c].mnts = Append(@, id)]
      PROVE  Kept(c)
  <2>k. PICK k \in Nat : k = Own(c) + ctr[c].i BY SMT
  <2>0. /\ ctr'[c].pc = "newMounts" /\ ctr'[c].i = ctr[c].i + 1 /\ ctr'[c].devs = ctr[c].devs
        /\ ctr'[c].mnts = Append(ctr[c].mnts, id) /\ ctr'[c].fstype = ctr[c].fstype
    BY Zenon, <1>0, <1>2, MountAdded
  <2>1. id \in Nat /\ ctr[c].mnts \in Seq(Nat) /\ Len(ctr[c].mnts) = ctr[c].i - 1
    BY Zenon, <1>0, NewIDs DEF Shape
  <2>2. Len(ctr'[c].mnts) = ctr[c].i /\ ctr'[c].mnts[ctr[c].i] = id /\ ctr'[c].mnts \in Seq(Nat)
        /\ \A j \in 1 .. Len(ctr[c].mnts) : ctr'[c].mnts[j] = ctr[c].mnts[j]
    <3>1. Len(ctr[c].mnts) + 1 = ctr[c].i BY SMT, <2>1
    <3>2. /\ Append(ctr[c].mnts, id) \in Seq(Nat) /\ Len(Append(ctr[c].mnts, id)) = Len(ctr[c].mnts) + 1
          /\ Append(ctr[c].mnts, id)[Len(ctr[c].mnts) + 1] = id
          /\ \A j \in 1 .. Len(ctr[c].mnts) : Append(ctr[c].mnts, id)[j] = ctr[c].mnts[j]
      BY ZenonT(40), <2>1, AppendFacts
    <3> QED BY Zenon, <2>0, <3>1, <3>2
  <2>3. Refs(c)' = Refs(c) \cup {k} /\ k \notin Refs(c)
    <3>1. \A j : j \in Refs(c) <=> j \in Own(c) + 1 .. Own(c) + ctr[c].i - 1
      BY SMT, <1>0, <2>1 DEF Refs, SlotsOf, At
    <3>2. \A j : j \in Refs(c)' <=> j \in Own(c) + 1 .. Own(c) + ctr[c].i
      <4>1. SlotsOf(c)' = 1 .. Own(c) + ctr[c].i BY Zenon, <2>2 DEF SlotsOf, Own
      <4>2. \A j : j \in Refs(c)' <=> j \in SlotsOf(c)' /\ (j > Own(c) \/ j <= Len(ctr[c].devs))
        BY Zenon, <1>0, <2>0 DEF Refs, At, Own
      <4> QED BY SMT, <1>0, <4>1, <4>2
    <3> QED BY SMT, <2>k, <3>1, <3>2
  <2>4. Atts(c)' = Atts(c) BY Zenon, <1>0, <2>0 DEF Atts, SlotsOf, Own, At
  <2>5. SameIDs(c) /\ SlotID(c, k)' = id
    <3>0. k # 0 /\ ~(k <= Own(c)) /\ k - Own(c) = ctr[c].i BY SMT, <2>k
    <3>1. SlotID(c, k)' = id BY Zenon, <3>0, <2>0, <2>2 DEF SlotID, Own
    <3>2. ASSUME NEW j \in SlotsOf(c) PROVE SlotID(c, j)' = SlotID(c, j)
      <4>1. j # 0 /\ (~(j <= Own(c)) => j - Own(c) \in 1 .. Len(ctr[c].mnts)) BY SMT, <3>2 DEF SlotsOf
      <4> QED BY Zenon, <2>0, <2>2, <4>1 DEF SlotID, Own
    <3>3. \A j \in Refs(c) : j \in SlotsOf(c) BY Zenon, <1>0 DEF Refs, At
    <3> QED BY Zenon, <3>1, <3>2, <3>3 DEF SameIDs
  <2>6. Shape(c)'
    <3>1. ctr[c].i = (ctr[c].i + 1) - 1 BY SMT
    <3> QED BY <1>0, <2>0, <2>2, <3>1, Lists, StartingShape
  <2>7. Mounts[c][ctr[c].i] \in Devices BY SMT, <1>2, DeviceAssumption
  <2>8. CtrDom' /\ Others(c) BY ZenonT(40), <1>2, MountAdded
  <2>9. Ledger' BY SMT, <1>2, <2>3, <2>4, <2>5, <2>7, <2>8, LedgerNew
  <2> QED BY Zenon, <2>6, <2>8, <2>9 DEF Kept
<1>3. ~Fails("new") BY Zenon, NoTrouble DEF DeviceFaults
<1> QED BY Zenon, <1>1, <1>2, <1>3 DEF NewMounts

LEMMA CountNewDevices == ASSUME NEW c \in Containers, Calm(c), NewDevices(c) PROVE Kept(c)
<1> USE Sizes DEF Calm
<1>0. /\ ctr[c].pc = "newDevices" /\ ~ctr[c].fstype /\ Len(ctr[c].devs) = ctr[c].i - 1
      /\ ctr[c].i <= Own(c) + 1
  BY Zenon DEF NewDevices, At, Shape
<1>1. CASE ctr[c].i > Len(DeviceInfos[c]) /\ Goto(c, "newDrive") /\ UNCHANGED managerVars
  <2>0. /\ ctr'[c].pc = "newDrive" /\ ctr'[c].i = 1 /\ ctr'[c].devs = ctr[c].devs
        /\ ctr'[c].mnts = ctr[c].mnts /\ ctr'[c].drive = ctr[c].drive /\ ctr'[c].fstype = ctr[c].fstype
    BY Zenon, <1>1, Moved
  <2>1. Refs(c)' = Refs(c) BY Zenon, <1>0, <2>0 DEF Refs, SlotsOf, Own, At
  <2>2. Atts(c)' = Atts(c) BY Zenon, <1>0, <2>0 DEF Atts, SlotsOf, Own, At
  <2>3. SameIDs(c) BY Zenon, <2>0 DEF SameIDs, SlotID, Own
  <2>4. Shape(c)'
    <3>1. Len(ctr[c].devs) = Own(c) BY SMT, <1>0, <1>1 DEF Own
    <3> QED BY <1>0, <2>0, <3>1, Lists, StartingShape
  <2> QED BY SMT, <1>1, <2>1, <2>2, <2>3, <2>4, Moved, LedgerKept DEF Kept
<1>2. ASSUME ctr[c].i \in DOMAIN DeviceInfos[c], NEW id \in IDs \cup {nextID},
             NewDevice(DeviceInfos[c][ctr[c].i], id),
             ctr' = [ctr EXCEPT ![c].i = @ + 1, ![c].devs = Append(@, id)]
      PROVE  Kept(c)
  <2>k. PICK k \in Nat : k = ctr[c].i BY Zenon
  <2>0. /\ ctr'[c].pc = "newDevices" /\ ctr'[c].i = ctr[c].i + 1 /\ ctr'[c].devs = Append(ctr[c].devs, id)
        /\ ctr'[c].mnts = ctr[c].mnts /\ ctr'[c].fstype = ctr[c].fstype
    BY ZenonT(40), <1>0, <1>2, DeviceAdded
  <2>1. id \in Nat /\ ctr[c].devs \in Seq(Nat) /\ k <= Own(c)
    <3>1. DOMAIN DeviceInfos[c] = 1 .. Own(c) BY SMT, DeviceAssumption DEF Own
    <3> QED BY SMT, <1>2, <2>k, <3>1, NewIDs DEF Shape
  <2>2. Len(ctr'[c].devs) = ctr[c].i /\ ctr'[c].devs[ctr[c].i] = id /\ ctr'[c].devs \in Seq(Nat)
        /\ \A j \in 1 .. Len(ctr[c].devs) : ctr'[c].devs[j] = ctr[c].devs[j]
    <3>1. ctr[c].i = Len(ctr[c].devs) + 1 BY SMT, <1>0
    <3> QED BY SMT, <2>0, <2>1, <3>1, AppendFacts
  <2>3. Refs(c)' = Refs(c) \cup {k} /\ k \notin Refs(c)
    <3>1. \A j : j \in Refs(c) <=> j \in SlotsOf(c) /\ (j > Own(c) \/ j < k)
      BY SMT, <1>0, <2>k DEF Refs, SlotsOf, At
    <3>2. \A j : j \in Refs(c)' <=> j \in SlotsOf(c) /\ (j > Own(c) \/ j <= k)
      BY <1>0, <2>k, <2>0, <2>2 DEF Refs, SlotsOf, At, Own
    <3>3. k \in SlotsOf(c) BY SMT, <2>k, <2>1 DEF SlotsOf
    <3>4. \A j \in SlotsOf(c) : j \in Nat BY SMT DEF SlotsOf
    <3>a. \A j \in SlotsOf(c) : j <= k <=> (j < k \/ j = k) BY SMT, <3>4
    <3>5. \A j : j \in Refs(c)' <=> j \in Refs(c) \/ j = k BY Zenon, <3>1, <3>2, <3>3, <3>a
    <3> QED BY SMT, <2>1, <3>1, <3>5
  <2>4. Atts(c)' = Atts(c) BY Zenon, <1>0, <2>0 DEF Atts, SlotsOf, Own, At
  <2>5. SameIDs(c) /\ SlotID(c, k)' = id
    <3>1. SlotID(c, k)' = id BY Zenon, <2>k, <2>1, <2>2 DEF SlotID, Own
    <3>2. ASSUME NEW j \in Refs(c) PROVE SlotID(c, j)' = SlotID(c, j)
      <4>1. j # 0 /\ (j <= Own(c) => j \in 1 .. Len(ctr[c].devs)) BY SMT, <1>0, <3>2 DEF Refs, SlotsOf, At
      <4> QED BY ZenonT(40), <2>0, <2>2, <4>1 DEF SlotID, Own
    <3> QED BY Zenon, <3>1, <3>2 DEF SameIDs
  <2>6. Shape(c)'
    <3>1. Len(ctr'[c].devs) = (ctr[c].i + 1) - 1 /\ ctr[c].i + 1 <= Own(c) + 1 BY SMT, <2>k, <2>1, <2>2
    <3> QED BY <1>0, <2>0, <2>2, <3>1, Lists, StartingShape
  <2>7. DeviceInfos[c][ctr[c].i] \in Devices BY SMT, <1>2, DeviceAssumption
  <2>8. CtrDom' /\ Others(c) BY Zenon, <1>2, DeviceAdded
  <2>9. Ledger' BY <1>2, <2>3, <2>4, <2>5, <2>7, <2>8, LedgerNew
  <2> QED BY Zenon, <2>6, <2>8, <2>9 DEF Kept
<1>3. ~Fails("new") BY Zenon, NoTrouble DEF DeviceFaults
<1> QED BY Zenon, <1>1, <1>2, <1>3 DEF NewDevices

LEMMA CountNewDrive == ASSUME NEW c \in Containers, Calm(c), NewDrive(c) PROVE Kept(c)
<1> USE Sizes DEF Calm
<1>0. ctr[c].pc = "newDrive" /\ ~ctr[c].fstype /\ Len(ctr[c].devs) = Own(c) BY Zenon DEF NewDrive, At, Shape
<1>1. CASE Goto(c, "attach") /\ UNCHANGED managerVars
  <2>0. /\ ctr'[c].pc = "attach" /\ ctr'[c].i = 1 /\ ctr'[c].devs = ctr[c].devs
        /\ ctr'[c].mnts = ctr[c].mnts /\ ctr'[c].drive = ctr[c].drive /\ ctr'[c].fstype = ctr[c].fstype
    BY Zenon, <1>1, Moved
  <2>1. Refs(c)' = Refs(c) BY Zenon, <1>0, <2>0 DEF Refs, SlotsOf, Own, At
  <2>2. Atts(c)' = Atts(c)
    <3>1. Atts(c) = {} BY Zenon, <1>0 DEF Atts, At
    <3>2. Atts(c)' = {} BY SMT, <1>0, <2>0 DEF Atts, SlotsOf, At
    <3> QED BY Zenon, <3>1, <3>2
  <2>3. SameIDs(c) BY Zenon, <2>0 DEF SameIDs, SlotID, Own
  <2>4. Shape(c)' BY Zenon, <1>0, <2>0, Lists, StartingShape
  <2> QED BY <1>1, <2>1, <2>2, <2>3, <2>4, Moved, LedgerKept DEF Kept
<1>2. ASSUME Rootfs[c] # NoDevice, NEW id \in IDs \cup {nextID}, NewDevice(Rootfs[c], id),
             ctr' = [ctr EXCEPT ![c].pc = "plugDrive", ![c].drive = id]
      PROVE  Kept(c)
  <2>0. /\ ctr'[c].pc = "plugDrive" /\ ctr'[c].i = ctr[c].i /\ ctr'[c].devs = ctr[c].devs
        /\ ctr'[c].mnts = ctr[c].mnts /\ ctr'[c].drive = id /\ ctr'[c].fstype = ctr[c].fstype
    BY Zenon, <1>2, DriveAdded
  <2>1. Refs(c)' = Refs(c) \cup {0} /\ 0 \notin Refs(c)
    <3>1. Refs(c) = SlotsOf(c) BY SMT, <1>0 DEF Refs, SlotsOf, At
    <3>a. SlotsOf(c)' = SlotsOf(c) BY Zenon, <2>0 DEF SlotsOf, Own
    <3>b. \A j \in SlotsOf(c) : j > Own(c) \/ j <= Len(ctr[c].devs) BY SMT, <1>0 DEF SlotsOf
    <3>2. \A j : j \in Refs(c)' <=> j \in SlotsOf(c) \/ j = 0 BY Zenon, <2>0, <3>a, <3>b DEF Refs, At, Own
    <3> QED BY SMT, <3>1, <3>2 DEF SlotsOf
  <2>2. Atts(c)' = Atts(c) BY Zenon, <1>0, <2>0 DEF Atts, SlotsOf, Own, At
  <2>3. SameIDs(c) /\ SlotID(c, 0)' = id BY Zenon, <2>0, <2>1 DEF SameIDs, SlotID, Own
  <2>4. Shape(c)' BY Zenon, <1>0, <2>0 DEF Shape, Own, Points, Merged
  <2>5. Rootfs[c] \in Devices BY Zenon, <1>2, DeviceAssumption
  <2>6. CtrDom' /\ Others(c) BY Zenon, <1>2, DriveAdded
  <2>7. Ledger' BY SMT, <1>2, <2>1, <2>2, <2>3, <2>5, <2>6, LedgerNew
  <2> QED BY Zenon, <2>4, <2>6, <2>7 DEF Kept
<1>3. ~Fails("new") BY Zenon, NoTrouble DEF DeviceFaults
<1> QED BY Zenon, <1>1, <1>2, <1>3 DEF NewDrive

LEMMA NoFailure ==
    ASSUME FaultsType, Untroubled', NEW id \in IDs PROVE ~AttachFails(id) /\ ~DetachFails(id)
BY Zenon, NoTrouble DEF AttachFails, DetachFails, DeviceFaults

LEMMA CountPlugDrive == ASSUME NEW c \in Containers, Calm(c), PlugDrive(c) PROVE Kept(c)
<1> USE Sizes DEF Calm
<1>0. ctr[c].pc = "plugDrive" /\ ~ctr[c].fstype /\ Len(ctr[c].devs) = Own(c) BY Zenon DEF PlugDrive, At, Shape
<1>1. 0 \in Refs(c) \ Atts(c) /\ SlotID(c, 0) = ctr[c].drive BY Zenon, <1>0 DEF Refs, Atts, SlotsOf, At, SlotID
<1>2. ctr[c].drive \in IDs BY Zenon, <1>1, HeldIsKnown
<1>3. ctr' = [ctr EXCEPT ![c].pc = "attach", ![c].i = 1, ![c].fstype = TRUE] /\ AttachDevice(ctr[c].drive)
  BY Zenon, <1>2, NoFailure DEF PlugDrive
<1>4. /\ ctr'[c].pc = "attach" /\ ctr'[c].i = 1 /\ ctr'[c].devs = ctr[c].devs
      /\ ctr'[c].mnts = ctr[c].mnts /\ ctr'[c].drive = ctr[c].drive /\ ctr'[c].fstype
  BY Zenon, <1>3, DrivePlugged
<1>5. Refs(c)' = Refs(c) BY Zenon, <1>0, <1>4 DEF Refs, SlotsOf, Own, At
<1>6. Atts(c)' = Atts(c) \cup {0}
  <2>1. Atts(c) = {} BY Zenon, <1>0 DEF Atts, At
  <2>2. Atts(c)' = {0} BY SMT, <1>4 DEF Atts, SlotsOf, At
  <2> QED BY Zenon, <2>1, <2>2
<1>7. SameIDs(c) BY Zenon, <1>4 DEF SameIDs, SlotID, Own
<1>8. Shape(c)' BY Zenon, <1>0, <1>4, Lists, StartingShape
<1>9. CtrDom' /\ Others(c) BY Zenon, <1>3, DrivePlugged
<1>10. Ledger' BY <1>1, <1>3, <1>5, <1>6, <1>7, <1>9, LedgerAttach
<1> QED BY Zenon, <1>8, <1>9, <1>10 DEF Kept

LEMMA SlotsSame == ASSUME NEW c \in Containers, ctr'[c].mnts = ctr[c].mnts PROVE SlotsOf(c)' = SlotsOf(c)
BY Zenon DEF SlotsOf, Own

LEMMA SlotNumbers ==
    ASSUME NEW c \in Containers, Shape(c)
    PROVE  /\ \A j \in SlotsOf(c) : j \in Nat \ {0}
           /\ Len(ctr[c].devs) >= Own(c) => \A j \in SlotsOf(c) : j > Own(c) \/ j <= Len(ctr[c].devs)
BY SMT, Sizes DEF SlotsOf

LEMMA CountAttach == ASSUME NEW c \in Containers, Calm(c), AttachDevices(c) PROVE Kept(c)
<1> USE Sizes DEF Calm
<1>0. ctr[c].pc = "attach" /\ Len(ctr[c].devs) = Own(c) /\ ctr[c].i <= Own(c) + 1 BY Zenon DEF AttachDevices, At, Shape
<1>1. CASE ctr[c].i > Len(ctr[c].devs) /\ Goto(c, "agent") /\ UNCHANGED managerVars
  <2>0. /\ ctr'[c].pc = "agent" /\ ctr'[c].i = 1 /\ ctr'[c].devs = ctr[c].devs
        /\ ctr'[c].mnts = ctr[c].mnts /\ ctr'[c].drive = ctr[c].drive /\ ctr'[c].fstype = ctr[c].fstype
    BY Zenon, <1>1, Moved
  <2>a. SlotsOf(c)' = SlotsOf(c) BY Zenon, <2>0, SlotsSame
  <2>1. Refs(c)' = Refs(c) BY Zenon, <1>0, <2>0, <2>a DEF Refs, Own, At
  <2>2. Atts(c)' = Atts(c)
    <3>1. \A j \in SlotsOf(c) : j < ctr[c].i <=> j <= Own(c) BY SMT, <1>0, <1>1, SlotNumbers
    <3>2. \A j : j \in Atts(c)' <=> j \in Atts(c) BY <1>0, <2>0, <2>a, <3>1 DEF Atts, Own, At
    <3> QED BY Zenon, <3>2
  <2>3. SameIDs(c) BY Zenon, <2>0 DEF SameIDs, SlotID, Own
  <2>4. Shape(c)' BY Zenon, <1>0, <2>0, Lists, StartingShape
  <2> QED BY <1>1, <2>1, <2>2, <2>3, <2>4, Moved, LedgerKept DEF Kept
<1>2. CASE ctr[c].i <= Len(ctr[c].devs) /\ NextItem(c) /\ AttachDevice(ctr[c].devs[ctr[c].i])
  <2>k. PICK k \in Nat : k = ctr[c].i BY Zenon
  <2>0. /\ ctr'[c].pc = "attach" /\ ctr'[c].i = ctr[c].i + 1 /\ ctr'[c].devs = ctr[c].devs
        /\ ctr'[c].mnts = ctr[c].mnts /\ ctr'[c].drive = ctr[c].drive /\ ctr'[c].fstype = ctr[c].fstype
    BY <1>0, <1>2, MovedOn
  <2>a. SlotsOf(c)' = SlotsOf(c) BY <2>0, SlotsSame
  <2>b. k \in SlotsOf(c) /\ k # 0 BY SMT, <1>0, <1>2, <2>k DEF SlotsOf
  <2>1. Refs(c)' = Refs(c) BY <1>0, <2>0, <2>a DEF Refs, Own, At
  <2>2. k \in Refs(c) \ Atts(c) /\ SlotID(c, k) = ctr[c].devs[ctr[c].i]
    BY SMT, <1>0, <1>2, <2>k, <2>b DEF Refs, Atts, At, SlotID
  <2>3. Atts(c)' = Atts(c) \cup {k}
    <3>1. \A j \in SlotsOf(c) : j < ctr[c].i + 1 <=> (j < ctr[c].i \/ j = k) BY SMT, <2>k, SlotNumbers
    <3>2. \A j : j \in Atts(c)' <=> j \in Atts(c) \/ j = k
      BY <1>0, <2>0, <2>a, <2>b, <3>1 DEF Atts, Own, At
    <3> QED BY Zenon, <3>2
  <2>4. SameIDs(c) BY Zenon, <2>0 DEF SameIDs, SlotID, Own
  <2>5. Shape(c)'
    <3>1. ctr[c].i + 1 <= Len(ctr[c].devs) + 1 BY SMT, <1>2
    <3> QED BY <1>0, <2>0, <3>1, Lists, StartingShape
  <2>6. CtrDom' /\ Others(c) BY Zenon, <1>2, MovedOn
  <2>7. Ledger' BY <1>2, <2>1, <2>2, <2>3, <2>4, <2>6, LedgerAttach
  <2> QED BY <2>5, <2>6, <2>7 DEF Kept
<1>3. CASE ctr[c].i <= Len(ctr[c].devs) /\ AttachFails(ctr[c].devs[ctr[c].i])
  <2>1. ctr[c].i \in Refs(c) /\ SlotID(c, ctr[c].i) = ctr[c].devs[ctr[c].i]
    BY SMT, <1>0, <1>3 DEF Refs, At, SlotID, SlotsOf
  <2> QED BY <1>3, <2>1, HeldIsKnown, NoFailure
<1> QED BY Zenon, <1>1, <1>2, <1>3 DEF AttachDevices

LEMMA CountShareRootfs == ASSUME NEW c \in Containers, Calm(c), ShareRootfs(c) PROVE Kept(c)
<1> USE Sizes DEF Calm
<1>0. ctr[c].pc = "agent" /\ Len(ctr[c].devs) = Own(c) BY Zenon DEF ShareRootfs, At, Shape
<1>1. Goto(c, "share") /\ UNCHANGED managerVars BY Zenon, NoTrouble DEF ShareRootfs, DeviceFaults
<1>2. /\ ctr'[c].pc = "share" /\ ctr'[c].i = 1 /\ ctr'[c].devs = ctr[c].devs
      /\ ctr'[c].mnts = ctr[c].mnts /\ ctr'[c].drive = ctr[c].drive /\ ctr'[c].fstype = ctr[c].fstype
  BY Zenon, <1>1, Moved
<1>3. SlotsOf(c)' = SlotsOf(c) BY Zenon, <1>2, SlotsSame
<1>4. Refs(c)' = Refs(c) BY <1>0, <1>2, <1>3 DEF Refs, Own, At
<1>5. Atts(c)' = Atts(c)
  <2>1. \A j \in SlotsOf(c) : j < Own(c) + 1 <=> j <= Own(c) BY SMT, SlotNumbers
  <2>2. \A j : j \in Atts(c)' <=> j \in Atts(c) BY Zenon, <1>0, <1>2, <1>3, <2>1 DEF Atts, Own, At
  <2> QED BY Zenon, <2>2
<1>6. SameIDs(c) BY Zenon, <1>2 DEF SameIDs, SlotID, Own
<1>7. Shape(c)' BY Zenon, <1>0, <1>2, Lists, StartingShape
<1> QED BY <1>1, <1>4, <1>5, <1>6, <1>7, Moved, LedgerKept DEF Kept

LEMMA CountShareMounts == ASSUME NEW c \in Containers, Calm(c), ShareMounts(c) PROVE Kept(c)
<1> USE Sizes DEF Calm
<1>0. ctr[c].pc = "share" /\ Len(ctr[c].devs) = Own(c) /\ ctr[c].i <= Len(ctr[c].mnts) + 1
  BY Zenon DEF ShareMounts, At, Shape
<1>1. CASE ctr[c].i > Len(ctr[c].mnts) /\ Goto(c, "request") /\ UNCHANGED managerVars
  <2>0. /\ ctr'[c].pc = "request" /\ ctr'[c].i = 1 /\ ctr'[c].devs = ctr[c].devs
        /\ ctr'[c].mnts = ctr[c].mnts /\ ctr'[c].drive = ctr[c].drive /\ ctr'[c].fstype = ctr[c].fstype
    BY Zenon, <1>1, Moved
  <2>a. SlotsOf(c)' = SlotsOf(c) BY Zenon, <2>0, SlotsSame
  <2>1. Refs(c)' = Refs(c) BY <1>0, <2>0, <2>a DEF Refs, Own, At
  <2>2. Atts(c)' = Atts(c)
    <3>1. \A j \in SlotsOf(c) : j < Own(c) + ctr[c].i BY SMT, <1>0, <1>1 DEF SlotsOf
    <3>2. \A j : j \in Atts(c)' <=> j \in Atts(c) BY Zenon, <1>0, <2>0, <2>a, <3>1 DEF Atts, Own, At
    <3> QED BY Zenon, <3>2
  <2>3. SameIDs(c) BY Zenon, <2>0 DEF SameIDs, SlotID, Own
  <2>4. Shape(c)' BY <1>0, <2>0, Lists, StartingShape
  <2> QED BY <1>1, <2>1, <2>2, <2>3, <2>4, Moved, LedgerKept DEF Kept
<1>2. CASE ctr[c].i <= Len(ctr[c].mnts) /\ NextItem(c) /\ AttachDevice(ctr[c].mnts[ctr[c].i])
  <2>k. PICK k \in Nat : k = Own(c) + ctr[c].i BY SMT
  <2>0. /\ ctr'[c].pc = "share" /\ ctr'[c].i = ctr[c].i + 1 /\ ctr'[c].devs = ctr[c].devs
        /\ ctr'[c].mnts = ctr[c].mnts /\ ctr'[c].drive = ctr[c].drive /\ ctr'[c].fstype = ctr[c].fstype
    BY Zenon, <1>0, <1>2, MovedOn
  <2>a. SlotsOf(c)' = SlotsOf(c) BY Zenon, <2>0, SlotsSame
  <2>b. k \in SlotsOf(c) /\ k # 0 /\ k > Own(c) /\ k - Own(c) = ctr[c].i BY SMT, <1>0, <1>2, <2>k DEF SlotsOf
  <2>1. Refs(c)' = Refs(c) BY Zenon, <1>0, <2>0, <2>a DEF Refs, Own, At
  <2>2. k \in Refs(c) \ Atts(c) /\ SlotID(c, k) = ctr[c].mnts[ctr[c].i]
    BY SMT, <1>0, <1>2, <2>k, <2>b DEF Refs, Atts, At, SlotID
  <2>3. Atts(c)' = Atts(c) \cup {k}
    <3>1. \A j \in SlotsOf(c) : j < Own(c) + (ctr[c].i + 1) <=> (j < Own(c) + ctr[c].i \/ j = k)
      BY SMT, <2>k, SlotNumbers
    <3>2. \A j : j \in Atts(c)' <=> j \in Atts(c) \/ j = k
      BY <1>0, <2>0, <2>a, <2>b, <3>1 DEF Atts, Own, At
    <3> QED BY Zenon, <3>2
  <2>4. SameIDs(c) BY Zenon, <2>0 DEF SameIDs, SlotID, Own
  <2>5. Shape(c)'
    <3>1. ctr[c].i + 1 <= Len(ctr[c].mnts) + 1 BY SMT, <1>2
    <3> QED BY <1>0, <2>0, <3>1, Lists, StartingShape
  <2>6. CtrDom' /\ Others(c) BY Zenon, <1>2, MovedOn
  <2>7. Ledger' BY <1>2, <2>1, <2>2, <2>3, <2>4, <2>6, LedgerAttach
  <2> QED BY Zenon, <2>5, <2>6, <2>7 DEF Kept
<1>3. CASE ctr[c].i <= Len(ctr[c].mnts) /\ AttachFails(ctr[c].mnts[ctr[c].i])
  <2>k. PICK k \in Nat : k = Own(c) + ctr[c].i BY SMT
  <2>b. k \in SlotsOf(c) /\ k # 0 /\ k > Own(c) /\ k - Own(c) = ctr[c].i BY SMT, <1>0, <1>3, <2>k DEF SlotsOf
  <2>1. k \in Refs(c) /\ SlotID(c, k) = ctr[c].mnts[ctr[c].i]
    BY SMT, <1>0, <1>3, <2>b DEF Refs, At, SlotID
  <2> QED BY <1>3, <2>1, HeldIsKnown, NoFailure
<1>4. ~Fails("share") BY Zenon, NoTrouble DEF DeviceFaults
<1> QED BY Zenon, <1>1, <1>2, <1>3, <1>4 DEF ShareMounts

LEMMA Merging ==
    ASSUME NEW p \in Seq(Nat), NEW q \in Seq(Nat)
    PROVE  /\ SubSeq(q, 1, Len(q)) = q /\ p \o q \in Seq(Nat) /\ Len(p \o q) = Len(p) + Len(q)
           /\ \A k \in 1 .. Len(p) : (p \o q)[k] = p[k]
           /\ \A k \in 1 .. Len(q) : (p \o q)[Len(p) + k] = q[k]
BY SMT

LEMMA CountRequest == ASSUME NEW c \in Containers, Calm(c), Request(c) PROVE Kept(c)
<1> USE Sizes DEF Calm
<1>0. ctr[c].pc = "request" /\ Len(ctr[c].devs) = Own(c) BY Zenon DEF Request, At, Shape
<1>q. PICK q : q = ctr[c].devs \o ctr[c].mnts BY Zenon
<1>t. ctr[c].devs \in Seq(Nat) /\ ctr[c].mnts \in Seq(Nat) BY Zenon DEF Shape
<1>u. q = ctr[c].devs \o SubSeq(ctr[c].mnts, 1, Len(ctr[c].mnts)) BY ONLY <1>q, <1>t, Merging, Zenon
<1>1. /\ q \in Seq(Nat) /\ Len(q) = Own(c) + Len(ctr[c].mnts)
      /\ \A k \in 1 .. Own(c) : q[k] = ctr[c].devs[k]
      /\ \A k \in 1 .. Len(ctr[c].mnts) : q[Own(c) + k] = ctr[c].mnts[k]
  <2> HIDE DEF Calm
  <2>1. /\ q \in Seq(Nat) /\ Len(q) = Len(ctr[c].devs) + Len(ctr[c].mnts)
        /\ \A k \in 1 .. Len(ctr[c].devs) : q[k] = ctr[c].devs[k]
        /\ \A k \in 1 .. Len(ctr[c].mnts) : q[Len(ctr[c].devs) + k] = ctr[c].mnts[k]
    BY ONLY <1>q, <1>t, Merging, Zenon
  <2> QED BY Zenon, <1>0, <2>1
<1>2. /\ UNCHANGED managerVars
      /\ \/ ctr' = [ctr EXCEPT ![c].pc = "update", ![c].devs = q]
         \/ ctr' = [ctr EXCEPT ![c].pc = "detach", ![c].i = 1, ![c].devs = q]
  <2>1. ~Fails("storage") BY Zenon, NoTrouble DEF DeviceFaults
  <2> QED BY Zenon, <1>u, <2>1 DEF Request
<1>3. /\ CtrDom' /\ Others(c)
      /\ ctr'[c].pc = "update" \/ (ctr'[c].pc = "detach" /\ ctr'[c].i = 1)
      /\ ctr'[c].i \in Nat \ {0} /\ ctr'[c].devs = q
      /\ ctr'[c].mnts = ctr[c].mnts /\ ctr'[c].drive = ctr[c].drive /\ ctr'[c].fstype = ctr[c].fstype
  <2>1. CASE ctr' = [ctr EXCEPT ![c].pc = "update", ![c].devs = q] BY <2>1, DevicesMerged
  <2>2. CASE ctr' = [ctr EXCEPT ![c].pc = "detach", ![c].i = 1, ![c].devs = q]
    <3>1. /\ CtrDom' /\ Others(c)
          /\ ctr'[c].pc = "detach" /\ ctr'[c].i = 1 /\ ctr'[c].devs = q
          /\ ctr'[c].mnts = ctr[c].mnts /\ ctr'[c].drive = ctr[c].drive /\ ctr'[c].fstype = ctr[c].fstype
      BY Zenon, <2>2, RequestUndone
    <3> QED BY SMT, <3>1
  <2> QED BY Zenon, <1>2, <2>1, <2>2
<1>4. SlotsOf(c)' = SlotsOf(c) BY <1>3, SlotsSame
<1>5. \A j \in SlotsOf(c) : j >= 1 /\ j <= Len(q) /\ (j > Own(c) \/ j <= Len(ctr[c].devs))
  <2>1. SlotsOf(c) = 1 .. Len(q) BY Zenon, <1>1 DEF SlotsOf
  <2> QED BY SMT, <1>0, <1>1, <2>1
<1>6. Refs(c)' = Refs(c)
  <2>1. \A j : j \in Refs(c)' <=> j \in Refs(c) BY <1>0, <1>3, <1>4, <1>5 DEF Refs, Own, At
  <2> QED BY Zenon, <2>1
<1>7. Atts(c)' = Atts(c)
  <2>1. \A j : j \in Atts(c)' <=> j \in Atts(c) BY <1>0, <1>3, <1>4, <1>5 DEF Atts, Own, At
  <2> QED BY Zenon, <2>1
<1>8. SameIDs(c)
  <2>1. \A k \in Refs(c) : k = 0 \/ (k \in Nat /\ k >= 1) BY SMT, SlotNumbers DEF Refs
  <2>2. Own(c)' = Own(c) BY Zenon DEF Own
  <2>3. \A k \in Refs(c) : k # 0 /\ k <= Own(c) => q[k] = ctr[c].devs[k] BY SMT, <1>1, <2>1
  <2> QED BY <1>3, <2>2, <2>3 DEF SameIDs, SlotID
<1>9. Shape(c)'
  <2>1. Own(c)' = Own(c) BY Zenon DEF Own
  <2>2. 1 <= Len(q) + 1 BY SMT, <1>1
  <2>3. /\ ctr'[c].pc \in {"update", "detach"} /\ ctr'[c].fstype \in BOOLEAN
        /\ ctr'[c].pc = "detach" => ctr'[c].i <= Len(ctr'[c].devs) + 1
    BY Zenon, <1>3, <2>2 DEF Shape
  <2> QED BY <1>1, <1>3, <1>t, <2>1, <2>3 DEF Shape, Points, Merged
<1> QED BY <1>2, <1>3, <1>6, <1>7, <1>8, <1>9, LedgerKept DEF Kept

LEMMA CountUpdate == ASSUME NEW c \in Containers, Calm(c), UpdateResources(c) \/ \E force \in BOOLEAN : Stop(c, force) PROVE Kept(c)
<1> USE Sizes DEF Calm
<1>0. ctr[c].pc \in {"update", "ready"} /\ Len(ctr[c].devs) = Own(c) + Len(ctr[c].mnts)
  BY Zenon DEF UpdateResources, Stop, At, Shape, Merged
<1>1. /\ UNCHANGED managerVars
      /\ Goto(c, "ready") \/ \E w : ctr' = [ctr EXCEPT ![c].pc = "detach", ![c].i = 1, ![c].reason = w]
  BY Zenon DEF UpdateResources, Stop
<1>2. /\ CtrDom' /\ Others(c)
      /\ ctr'[c].pc \in {"ready", "detach"} /\ ctr'[c].i = 1 /\ ctr'[c].devs = ctr[c].devs
      /\ ctr'[c].mnts = ctr[c].mnts /\ ctr'[c].drive = ctr[c].drive /\ ctr'[c].fstype = ctr[c].fstype
  BY <1>1, Moved, StopBegins
<1>3. SlotsOf(c)' = SlotsOf(c) BY Zenon, <1>2, SlotsSame
<1>4. \A j \in SlotsOf(c) : j >= 1 BY SMT DEF SlotsOf
<1>5. Refs(c)' = Refs(c)
  <2>1. \A j : j \in Refs(c)' <=> j \in Refs(c) BY <1>0, <1>2, <1>3, <1>4 DEF Refs, Own, At
  <2> QED BY Zenon, <2>1
<1>6. Atts(c)' = Atts(c)
  <2>1. \A j : j \in Atts(c)' <=> j \in Atts(c) BY <1>0, <1>2, <1>3, <1>4 DEF Atts, Own, At
  <2> QED BY Zenon, <2>1
<1>7. SameIDs(c) BY Zenon, <1>2 DEF SameIDs, SlotID, Own
<1>8. Shape(c)'
  <2>1. Own(c)' = Own(c) BY Zenon DEF Own
  <2>2. /\ ctr[c].devs \in Seq(Nat) /\ ctr[c].mnts \in Seq(Nat) /\ ctr[c].fstype \in BOOLEAN
        /\ \A k \in 1 .. Len(ctr[c].mnts) : ctr[c].devs[Own(c) + k] = ctr[c].mnts[k]
    BY Zenon, <1>0 DEF Shape, Merged
  <2> QED BY <1>0, <1>2, <2>1, <2>2, Lists DEF Shape, Points, Merged
<1> QED BY <1>1, <1>2, <1>5, <1>6, <1>7, <1>8, LedgerKept DEF Kept

\* Once the devices of the mounts are added, the slots of c are the places of
\* its device list.
LEMMA Stopping ==
    ASSUME NEW c \in Containers, Shape(c), ctr[c].pc \in Merged
    PROVE  /\ SlotsOf(c) = 1 .. Len(ctr[c].devs)
           /\ \A k \in SlotsOf(c) : SlotID(c, k) = ctr[c].devs[k] /\ (k > Own(c) \/ k <= Len(ctr[c].devs))
<1>1. Len(ctr[c].devs) = Own(c) + Len(ctr[c].mnts) BY Zenon DEF Shape
<1>2. \A k \in 1 .. Len(ctr[c].mnts) : ctr[c].devs[Own(c) + k] = ctr[c].mnts[k] BY Zenon DEF Shape
<1>3. SlotsOf(c) = 1 .. Len(ctr[c].devs) BY <1>1 DEF SlotsOf
<1>4. ASSUME NEW k \in SlotsOf(c) PROVE SlotID(c, k) = ctr[c].devs[k]
  <2>1. k \in Nat /\ k # 0 /\ k <= Own(c) + Len(ctr[c].mnts) BY SMT, Sizes, <1>4 DEF SlotsOf
  <2>2. CASE k <= Own(c) BY Zenon, <2>1, <2>2 DEF SlotID
  <2>3. CASE k > Own(c)
    <3>1. k - Own(c) \in 1 .. Len(ctr[c].mnts) /\ Own(c) + (k - Own(c)) = k BY SMT, <2>1, <2>3, Sizes
    <3>2. ctr[c].devs[k] = ctr[c].mnts[k - Own(c)] BY Zenon, <1>2, <3>1
    <3>3. ~(k <= Own(c)) BY SMT, <2>1, <2>3, Sizes
    <3> QED BY <2>1, <3>2, <3>3 DEF SlotID
  <2> QED BY SMT, <2>1, <2>2, <2>3, Sizes
<1> QED BY SMT, <1>3, <1>4, Sizes

\* The shape of c does not depend on how far its stop is.
LEMMA StoppingShape ==
    ASSUME NEW c \in Containers, Shape(c), ctr[c].pc \in {"detach", "remove", "detachDrive", "removeDrive"},
           ctr'[c].devs = ctr[c].devs, ctr'[c].mnts = ctr[c].mnts, ctr'[c].fstype = ctr[c].fstype,
           ctr'[c].i \in Nat \ {0},
           \/ ctr'[c].pc = "detach" /\ ctr'[c].i <= Len(ctr[c].devs) + 1
           \/ ctr'[c].pc = "remove" /\ ctr'[c].i <= Len(ctr[c].devs)
           \/ ctr'[c].pc \in {"detachDrive", "failed", "stopped"}
           \/ ctr'[c].pc = "removeDrive" /\ ctr[c].fstype
    PROVE  Shape(c)'
<1>1. Own(c)' = Own(c) BY Zenon DEF Own
<1>2. /\ ctr[c].devs \in Seq(Nat) /\ ctr[c].mnts \in Seq(Nat) /\ ctr[c].fstype \in BOOLEAN
      /\ Len(ctr[c].devs) = Own(c) + Len(ctr[c].mnts)
      /\ \A k \in 1 .. Len(ctr[c].mnts) : ctr[c].devs[Own(c) + k] = ctr[c].mnts[k]
  BY Zenon DEF Shape, Merged
<1> QED BY Zenon, <1>1, <1>2 DEF Shape, Points, Merged

LEMMA CountDetach == ASSUME NEW c \in Containers, Calm(c), DetachDevices(c) PROVE Kept(c)
<1> USE Sizes DEF Calm
<1>0. ctr[c].pc = "detach" /\ ctr[c].i <= Len(ctr[c].devs) + 1 BY Zenon DEF DetachDevices, At, Shape
<1>1. CASE ctr[c].i > Len(ctr[c].devs) /\ Goto(c, "detachDrive") /\ UNCHANGED managerVars
  <2>0. /\ ctr'[c].pc = "detachDrive" /\ ctr'[c].i = 1 /\ ctr'[c].devs = ctr[c].devs
        /\ ctr'[c].mnts = ctr[c].mnts /\ ctr'[c].drive = ctr[c].drive /\ ctr'[c].fstype = ctr[c].fstype
    BY Zenon, <1>1, Moved
  <2>a. SlotsOf(c)' = SlotsOf(c) BY <2>0, SlotsSame
  <2>b. \A j \in SlotsOf(c) : ~(j >= ctr[c].i) BY SMT, <1>0, <1>1, Stopping DEF Merged
  <2>1. Refs(c)' = Refs(c)
    <3>1. \A j : j \in Refs(c)' <=> j \in Refs(c) BY <1>0, <2>0, <2>a, <2>b DEF Refs, Own, At
    <3> QED BY Zenon, <3>1
  <2>2. Atts(c)' = Atts(c)
    <3>1. \A j : j \in Atts(c)' <=> j \in Atts(c) BY <1>0, <2>0, <2>a, <2>b DEF Atts, Own, At
    <3> QED BY Zenon, <3>1
  <2>3. SameIDs(c) BY Zenon, <2>0 DEF SameIDs, SlotID, Own
  <2>4. Shape(c)' BY <1>0, <2>0, Lists, StoppingShape
  <2> QED BY <1>1, <2>1, <2>2, <2>3, <2>4, Moved, LedgerKept DEF Kept
<1>2. CASE ctr[c].i <= Len(ctr[c].devs)
  <2>k. PICK k \in Nat : k = ctr[c].i BY Zenon
  <2>b. k \in SlotsOf(c) /\ k # 0 /\ SlotID(c, k) = ctr[c].devs[ctr[c].i] /\ (k > Own(c) \/ k <= Len(ctr[c].devs))
    BY SMT, <1>0, <1>2, <2>k, Stopping DEF Merged
  <2>c. k \in Refs(c) /\ k \in Atts(c) BY SMT, <1>0, <2>k, <2>b DEF Refs, Atts, At
  <2>d. SlotID(c, k) \in IDs /\ devices[SlotID(c, k)].attachCount # 0 BY Zenon, <2>c, HeldIsKnown
  <2>e. ~NotAttached(ctr[c].devs[ctr[c].i]) BY Zenon, <2>b, <2>d DEF NotAttached
  <2>f. ~DetachFails(ctr[c].devs[ctr[c].i]) BY <2>b, <2>d, NoFailure
  <2>g. DetachDevice(ctr[c].devs[ctr[c].i]) /\ ctr' = [ctr EXCEPT ![c].pc = "remove"]
    BY SMT, <1>2, <2>e, <2>f DEF DetachDevices
  <2>0. /\ CtrDom' /\ Others(c)
        /\ ctr'[c].pc = "remove" /\ ctr'[c].i = ctr[c].i /\ ctr'[c].devs = ctr[c].devs
        /\ ctr'[c].mnts = ctr[c].mnts /\ ctr'[c].drive = ctr[c].drive /\ ctr'[c].fstype = ctr[c].fstype
    BY Zenon, <2>g, RemoveBegins
  <2>a. SlotsOf(c)' = SlotsOf(c) BY Zenon, <2>0, SlotsSame
  <2>1. Refs(c)' = Refs(c)
    <3>1. \A j : j \in Refs(c)' <=> j \in Refs(c) BY Zenon, <1>0, <2>0, <2>a DEF Refs, Own, At
    <3> QED BY Zenon, <3>1
  <2>3. Atts(c)' = Atts(c) \ {k}
    <3>1. \A j \in SlotsOf(c) : j > ctr[c].i <=> (j >= ctr[c].i /\ j # k) BY SMT, <2>k, SlotNumbers
    <3>2. \A j : j \in Atts(c)' <=> j \in Atts(c) /\ j # k
      BY <1>0, <2>0, <2>a, <2>b, <3>1 DEF Atts, Own, At
    <3> QED BY Zenon, <3>2
  <2>4. SameIDs(c) BY Zenon, <2>0 DEF SameIDs, SlotID, Own
  <2>5. Shape(c)' BY <1>0, <1>2, <2>0, StoppingShape
  <2>7. Ledger' BY SMT, <2>0, <2>b, <2>c, <2>g, <2>1, <2>3, <2>4, LedgerDetach
  <2> QED BY <2>0, <2>5, <2>7 DEF Kept
<1> QED BY Zenon, <1>1, <1>2 DEF DetachDevices

LEMMA CountRemove == ASSUME NEW c \in Containers, Calm(c), RemoveDevices(c) PROVE Kept(c)
<1> USE Sizes DEF Calm
<1>0. ctr[c].pc = "remove" /\ ctr[c].i <= Len(ctr[c].devs) BY Zenon DEF RemoveDevices, At, Shape
<1>k. PICK k \in Nat : k = ctr[c].i BY Zenon
<1>i. PICK id : id = ctr[c].devs[ctr[c].i] BY Zenon
<1>b. k \in SlotsOf(c) /\ k # 0 /\ SlotID(c, k) = id /\ (k > Own(c) \/ k <= Len(ctr[c].devs))
  BY SMT, <1>0, <1>k, <1>i, Stopping DEF Merged
<1>c. k \in Refs(c) \ Atts(c) BY SMT, <1>0, <1>k, <1>b DEF Refs, Atts, At
<1>1. CASE RemoveDevice(id) /\ ctr' = [ctr EXCEPT ![c].pc = "detach", ![c].i = @ + 1]
  <2>0. /\ CtrDom' /\ Others(c)
        /\ ctr'[c].pc = "detach" /\ ctr'[c].i = ctr[c].i + 1 /\ ctr'[c].devs = ctr[c].devs
        /\ ctr'[c].mnts = ctr[c].mnts /\ ctr'[c].drive = ctr[c].drive /\ ctr'[c].fstype = ctr[c].fstype
    BY Zenon, <1>1, RemoveEnds
  <2>a. SlotsOf(c)' = SlotsOf(c) BY Zenon, <2>0, SlotsSame
  <2>n. \A j \in SlotsOf(c) : /\ j >= ctr[c].i + 1 <=> (j >= ctr[c].i /\ j # k)
                              /\ j >= ctr[c].i + 1 <=> j > ctr[c].i
    BY SMT, <1>k, SlotNumbers
  <2>1. Refs(c)' = Refs(c) \ {k}
    <3>1. \A j : j \in Refs(c)' <=> j \in Refs(c) /\ j # k
      BY <1>0, <1>b, <2>0, <2>a, <2>n DEF Refs, Own, At
    <3> QED BY Zenon, <3>1
  <2>2. Atts(c)' = Atts(c)
    <3>1. \A j : j \in Atts(c)' <=> j \in Atts(c) BY <1>0, <2>0, <2>a, <2>n DEF Atts, Own, At
    <3> QED BY Zenon, <3>1
  <2>3. SameIDs(c) BY Zenon, <2>0 DEF SameIDs, SlotID, Own
  <2>4. Shape(c)'
    <3>1. ctr[c].i + 1 <= Len(ctr[c].devs) + 1 BY SMT, <1>0
    <3> QED BY <1>0, <2>0, <3>1, Lists, StoppingShape
  <2>5. Ledger' BY <1>1, <1>b, <1>c, <2>0, <2>1, <2>2, <2>3, LedgerRemove
  <2> QED BY Zenon, <2>0, <2>4, <2>5 DEF Kept
<1>2. ~RemoveRefused(id) BY Zenon, <1>b, <1>c, NotRefused
<1> QED BY Zenon, <1>1, <1>2, <1>i DEF RemoveDevices

LEMMA CountDetachDrive == ASSUME NEW c \in Containers, Calm(c), DetachDrive(c) PROVE Kept(c)
<1> USE Sizes DEF Calm
<1>0. ctr[c].pc = "detachDrive" BY Zenon DEF DetachDrive, At
<1>1. CASE ~ctr[c].fstype /\ Goto(c, Finished(c)) /\ UNCHANGED managerVars
  <2>0. /\ CtrDom' /\ Others(c)
        /\ ctr'[c].pc \in {"failed", "stopped"} /\ ctr'[c].i = 1 /\ ctr'[c].devs = ctr[c].devs
        /\ ctr'[c].mnts = ctr[c].mnts /\ ctr'[c].drive = ctr[c].drive /\ ctr'[c].fstype = ctr[c].fstype
    BY Zenon, <1>1, Moved DEF Finished
  <2>a. SlotsOf(c)' = SlotsOf(c) BY Zenon, <2>0, SlotsSame
  <2>1. Refs(c)' = Refs(c) BY Zenon, <1>0, <1>1, <2>0, <2>a DEF Refs, Own, At
  <2>2. Atts(c)' = Atts(c) BY Zenon, <1>0, <1>1, <2>0, <2>a DEF Atts, Own, At
  <2>3. SameIDs(c) BY Zenon, <2>0 DEF SameIDs, SlotID, Own
  <2>4. Shape(c)' BY Zenon, <1>0, <2>0, Lists, StoppingShape
  <2> QED BY <1>1, <2>0, <2>1, <2>2, <2>3, <2>4, LedgerKept DEF Kept
<1>2. CASE ctr[c].fstype
  <2>c. 0 \in Refs(c) /\ 0 \in Atts(c) /\ SlotID(c, 0) = ctr[c].drive BY Zenon, <1>0, <1>2 DEF Refs, Atts, At, SlotID
  <2>d. ctr[c].drive \in IDs /\ devices[ctr[c].drive].attachCount # 0 BY Zenon, <2>c, HeldIsKnown
  <2>e. ~NotAttached(ctr[c].drive) BY Zenon, <2>d DEF NotAttached
  <2>f. ~DetachFails(ctr[c].drive) BY Zenon, <2>d, NoFailure
  <2>g. DetachDevice(ctr[c].drive) /\ Goto(c, "removeDrive") BY Zenon, <1>2, <2>e, <2>f DEF DetachDrive
  <2>0. /\ CtrDom' /\ Others(c)
        /\ ctr'[c].pc = "removeDrive" /\ ctr'[c].i = 1 /\ ctr'[c].devs = ctr[c].devs
        /\ ctr'[c].mnts = ctr[c].mnts /\ ctr'[c].drive = ctr[c].drive /\ ctr'[c].fstype = ctr[c].fstype
    BY Zenon, <2>g, Moved
  <2>a. SlotsOf(c)' = SlotsOf(c) BY Zenon, <2>0, SlotsSame
  <2>1. Refs(c)' = Refs(c) BY Zenon, <1>0, <1>2, <2>0, <2>a DEF Refs, Own, At
  <2>2. Atts(c)' = Atts(c) \ {0} BY Zenon, <1>0, <1>2, <2>0, <2>a DEF Atts, Own, At
  <2>3. SameIDs(c) BY Zenon, <2>0 DEF SameIDs, SlotID, Own
  <2>4. Shape(c)'
    <3> HIDE Sizes DEF Calm
    <3>1. Shape(c) /\ 1 \in Nat \ {0} BY SMT DEF Calm
    <3> QED BY <1>0, <1>2, <2>0, <3>1, StoppingShape
  <2>5. Ledger' BY <2>0, <2>c, <2>g, <2>1, <2>2, <2>3, LedgerDetach
  <2> QED BY Zenon, <2>0, <2>4, <2>5 DEF Kept
<1> QED BY Zenon, <1>1, <1>2 DEF DetachDrive

LEMMA CountRemoveDrive == ASSUME NEW c \in Containers, Calm(c), RemoveDrive(c) PROVE Kept(c)
<1> USE Sizes DEF Calm
<1>0. ctr[c].pc = "removeDrive" /\ ctr[c].fstype BY Zenon DEF RemoveDrive, At, Shape
<1>1. 0 \in Refs(c) \ Atts(c) /\ SlotID(c, 0) = ctr[c].drive
  <2>1. 0 \notin SlotsOf(c) BY Zenon, SlotNumbers
  <2> QED BY Zenon, <1>0, <2>1 DEF Refs, Atts, At, SlotID
<1>2. RemoveDevice(ctr[c].drive) /\ Goto(c, Finished(c)) BY Zenon, <1>1, NotRefused DEF RemoveDrive
<1>3. /\ CtrDom' /\ Others(c)
      /\ ctr'[c].pc \in {"failed", "stopped"} /\ ctr'[c].i = 1 /\ ctr'[c].devs = ctr[c].devs
      /\ ctr'[c].mnts = ctr[c].mnts /\ ctr'[c].drive = ctr[c].drive /\ ctr'[c].fstype = ctr[c].fstype
  BY <1>2, Moved DEF Finished
<1>4. SlotsOf(c)' = SlotsOf(c) BY Zenon, <1>3, SlotsSame
<1>5. Refs(c)' = Refs(c) \ {0} BY Zenon, <1>0, <1>3, <1>4 DEF Refs, Own, At
<1>6. Atts(c)' = Atts(c) BY Zenon, <1>0, <1>3, <1>4 DEF Atts, Own, At
<1>7. SameIDs(c) BY Zenon, <1>3 DEF SameIDs, SlotID, Own
<1>8. Shape(c)'
  <2> HIDE Sizes DEF Calm
  <2>1. Shape(c) /\ 1 \in Nat \ {0} BY SMT DEF Calm
  <2> QED BY <1>0, <1>3, <2>1, StoppingShape
<1>9. Ledger' BY <1>1, <1>2, <1>3, <1>5, <1>6, <1>7, LedgerRemove
<1> QED BY <1>3, <1>8, <1>9 DEF Kept

\* A step records at most one fault, and none is ever forgotten.
LEMMA FaultsGrow ==
    ASSUME FaultsType, Next
    PROVE  faults' = faults \/ \E kind \in FaultKinds \cup {"index"} : faults' = Append(faults, kind)
<1> DEFINE Grow == faults' = faults \/ \E kind \in FaultKinds \cup {"index"} : faults' = Append(faults, kind)
<1>1. \A kind : Fails(kind) => Grow BY Zenon, DeviceAssumption DEF Fails
<1>2. \A id : AttachFails(id) \/ DetachFails(id) => Grow BY Zenon, <1>1 DEF AttachFails, DetachFails
<1>3. faults' = faults => Grow BY Zenon
<1> HIDE DEF Grow
<1>4. PICK c \in Containers :
         \/ NewMounts(c) \/ NewDevices(c) \/ NewDrive(c) \/ PlugDrive(c) \/ AttachDevices(c)
         \/ ShareRootfs(c) \/ ShareMounts(c) \/ Unshare(c) \/ Request(c) \/ UpdateResources(c)
         \/ \E force \in BOOLEAN : Stop(c, force)
         \/ DetachDevices(c) \/ RemoveDevices(c) \/ DetachDrive(c) \/ RemoveDrive(c)
  BY Zenon DEF Next
<1>5. NewMounts(c) \/ NewDevices(c) \/ NewDrive(c) => Grow BY Zenon, <1>1, <1>3 DEF NewMounts, NewDevices, NewDrive
<1>6. PlugDrive(c) \/ AttachDevices(c) \/ ShareRootfs(c) => Grow
  BY Zenon, <1>1, <1>2, <1>3 DEF PlugDrive, AttachDevices, ShareRootfs
<1>7. ShareMounts(c) \/ Unshare(c) => Grow BY Zenon, <1>1, <1>2, <1>3 DEF ShareMounts, Unshare
<1>8. Request(c) \/ UpdateResources(c) \/ (\E force \in BOOLEAN : Stop(c, force)) => Grow
  BY Zenon, <1>1, <1>3 DEF Request, UpdateResources, Stop
<1>9. DetachDevices(c) \/ RemoveDevices(c) \/ DetachDrive(c) \/ RemoveDrive(c) => Grow
  BY Zenon, <1>2, <1>3 DEF DetachDevices, RemoveDevices, DetachDrive, RemoveDrive
<1>10. Grow BY <1>4, <1>5, <1>6, <1>7, <1>8, <1>9
<1> QED BY Zenon, <1>10 DEF Grow

LEMMA CountNext == FaultsType /\ ManagerInv /\ CountInv /\ [Next]_vars => FaultsType' /\ CountInv'
<1> SUFFICES ASSUME FaultsType, ManagerInv, CountInv, [Next]_vars PROVE FaultsType' /\ CountInv' BY Zenon
<1>1. CASE UNCHANGED vars
  <2>1. UNCHANGED <<devices, ctr, faults>> BY Zenon, <1>1 DEF vars
  <2>2. CtrDom' = CtrDom /\ Untroubled' = Untroubled BY Zenon, <2>1 DEF CtrDom, Untroubled
  <2>3. \A c \in Containers : Shape(c)' = Shape(c) BY SMT, <2>1 DEF Shape, Own
  <2>4. \A id : AttsTo(id)' = AttsTo(id) BY SMT, <2>1 DEF AttsTo, Atts, SlotsOf, SlotID, Own, At
  <2>5. \A id : RefsTo(id)' = RefsTo(id) BY SMT, <2>1 DEF RefsTo, Refs, SlotsOf, SlotID, Own, At
  <2>6. \A c \in Containers : Refs(c)' = Refs(c) /\ \A k : SlotID(c, k)' = SlotID(c, k)
    BY ZenonT(40), <2>1 DEF Refs, SlotsOf, SlotID, Own, At
  <2>7. Ledger' = Ledger BY Zenon, <2>1, <2>4, <2>5, <2>6 DEF Ledger, IDs
  <2> QED BY <2>1, <2>2, <2>3, <2>7 DEF FaultsType, CountInv
<1>2. CASE Next
  <2>1. faults' = faults \/ \E kind \in FaultKinds \cup {"index"} : faults' = Append(faults, kind)
    BY Zenon, <1>2, FaultsGrow
  <2>2. FaultsType' BY SMT, <2>1 DEF FaultsType
  <2>3. SUFFICES ASSUME Untroubled' PROVE CtrDom' /\ Ledger' /\ \A d \in Containers : Shape(d)'
    BY Zenon, <2>2 DEF CountInv
  <2>4. Untroubled
    <3>1. CASE faults' = faults BY Zenon, <2>3, <3>1 DEF Untroubled
    <3>2. CASE \E kind \in FaultKinds \cup {"index"} : faults' = Append(faults, kind) BY Zenon, <2>3, <3>2, Troubles
    <3> QED BY Zenon, <2>1, <3>1, <3>2
  <2>5. CtrDom /\ Ledger /\ \A d \in Containers : Shape(d) BY Zenon, <2>4 DEF CountInv
  <2>6. AttsAreRefs BY Zenon, <2>5, ShapeAtts DEF AttsAreRefs
  <2>7. \A d \in Containers : Calm(d) BY Zenon, <2>3, <2>5, <2>6 DEF Calm
  <2>8. PICK c \in Containers :
           \/ NewMounts(c) \/ NewDevices(c) \/ NewDrive(c) \/ PlugDrive(c) \/ AttachDevices(c)
           \/ ShareRootfs(c) \/ ShareMounts(c) \/ Unshare(c) \/ Request(c) \/ UpdateResources(c)
           \/ \E force \in BOOLEAN : Stop(c, force)
           \/ DetachDevices(c) \/ RemoveDevices(c) \/ DetachDrive(c) \/ RemoveDrive(c)
    BY Zenon, <1>2 DEF Next
  <2>9. ~Unshare(c) BY Zenon, <2>5 DEF Unshare, At, Shape, Points, Merged
  <2>10. Kept(c)
    <3>1. Calm(c) BY Zenon, <2>7
    <3> QED BY <2>8, <2>9, <3>1, CountNewMounts, CountNewDevices, CountNewDrive, CountPlugDrive, CountAttach,
             CountShareRootfs, CountShareMounts, CountRequest, CountUpdate, CountDetach, CountRemove,
             CountDetachDrive, CountRemoveDrive
  <2>11. ASSUME NEW d \in Containers \ {c} PROVE Shape(d)'
    <3>1. ctr'[d] = ctr[d] /\ Shape(d) BY Zenon, <2>5, <2>10 DEF Kept, Others
    <3> QED BY Zenon, <3>1 DEF Shape, Own
  <2> QED BY Zenon, <2>10, <2>11 DEF Kept
<1> QED BY Zenon, <1>1, <1>2

LEMMA CountInit == Init => FaultsType /\ CountInv
<1> SUFFICES ASSUME Init PROVE FaultsType /\ CountInv BY Zenon
<1>1. FaultsType BY SMT DEF Init, FaultsType
<1>2. IDs = {} BY Zenon DEF Init, IDs
<1>3. CtrDom BY Zenon DEF Init, CtrDom, FieldNames
<1>4. ASSUME NEW c \in Containers PROVE Shape(c) /\ Refs(c) = {}
  <2>1. /\ ctr[c].pc = "newMounts" /\ ctr[c].i = 1 /\ ctr[c].devs = <<>> /\ ctr[c].mnts = <<>> /\ ctr[c].fstype = FALSE
    BY Zenon DEF Init
  <2>2. Own(c) \in Nat BY SMT, DeviceAssumption DEF Own
  <2>a. Len(ctr[c].devs) = 0 /\ Len(ctr[c].mnts) = 0 /\ ctr[c].devs \in Seq(Nat) /\ ctr[c].mnts \in Seq(Nat)
        /\ 1 \in Nat \ {0}
    BY SMT, <2>1
  <2>3. Shape(c)
    <3>1. 0 = 1 - 1 BY SMT
    <3> QED BY Zenon, <2>1, <2>2, <2>a, <3>1 DEF Shape, Points, Merged
  <2>4. \A k \in SlotsOf(c) : k > 0 /\ k <= Own(c) /\ ~(k > Own(c)) BY SMT, <2>2, <2>a DEF SlotsOf
  <2>5. \A k \in SlotsOf(c) : ~(k <= Len(ctr[c].devs)) BY SMT, <2>2, <2>4, <2>a DEF SlotsOf
  <2>6. Refs(c) = {} BY Zenon, <2>1, <2>4, <2>5 DEF Refs, At
  <2> QED BY Zenon, <2>3, <2>6
<1> QED BY Zenon, <1>1, <1>2, <1>3, <1>4 DEF CountInv, Ledger

LEMMA CountHolds == Spec => [](FaultsType /\ ManagerInv /\ CountInv)
<1>1. Init => FaultsType /\ CountInv BY Zenon, CountInit
<1>2. FaultsType /\ ManagerInv /\ CountInv /\ [Next]_vars => FaultsType' /\ CountInv' BY Zenon, CountNext
<1> QED BY <1>1, <1>2, InvHolds, PTL DEF Spec

\* As long as no device operation failed, all devices of a created container
\* are in the virtual machine until it is stopped, whatever the containers that
\* share them do (the attach counts of device/drivers/generic.go).
THEOREM UsedDevicesArePlugged == Spec => []UsedIsPluggedUntroubled
<1>1. FaultsType /\ ManagerInv /\ CountInv => UsedIsPluggedUntroubled
  <2> SUFFICES ASSUME ManagerInv, CountInv, Untroubled, NEW c \in Containers, At(c, "update") \/ At(c, "ready"),
                      NEW id \in Uses(c)
               PROVE  id \in IDs /\ \E i \in Index : <<id, i>> \in plugged
    BY Zenon DEF UsedIsPluggedUntroubled, UsedIsPlugged
  <2>1. Ledger /\ \A d \in Containers : Shape(d) BY Zenon DEF CountInv
  <2>2. AttsAreRefs BY Zenon, <2>1, ShapeAtts DEF AttsAreRefs
  <2>3. PICK k : k \in Atts(c) /\ SlotID(c, k) = id
    <3>1. CASE ctr[c].fstype /\ id = ctr[c].drive BY Zenon, <3>1 DEF Atts, At, SlotID
    <3>2. CASE \E k \in 1 .. Len(ctr[c].devs) : id = ctr[c].devs[k]
      <4>1. PICK k \in 1 .. Len(ctr[c].devs) : id = ctr[c].devs[k] BY Zenon, <3>2
      <4>2. k \in SlotsOf(c) /\ SlotID(c, k) = id BY Zenon, <2>1, <4>1, Stopping DEF At, Merged
      <4>3. k \in Atts(c) BY Zenon, <4>2 DEF Atts, At
      <4> QED BY Zenon, <4>2, <4>3
    <3> QED BY Zenon, <3>1, <3>2 DEF Uses
  <2>4. id \in IDs /\ devices[id].attachCount # 0 BY Zenon, <2>1, <2>2, <2>3, HeldIsKnown
  <2>5. devices[id].attachCount > 0 BY SMT, <2>4 DEF ManagerInv, Device
  <2> QED BY SMT, <2>4, <2>5 DEF ManagerInv, IndexOwned
<1> QED BY <1>1, CountHolds, PTL

\* What a container holds between operations.
LEMMA QuietSlots ==
    ASSUME NEW c \in Containers, Shape(c),
           ctr[c].pc \in {"ready", "failed", "stopped"} \/ (At(c, "newMounts") /\ ctr[c].i = 1)
    PROVE  /\ ctr[c].pc # "ready" => Refs(c) = {} /\ Atts(c) = {}
           /\ ctr[c].pc = "ready" =>
                /\ \A k : k \in Refs(c) <=> k \in 1 .. Len(ctr[c].devs) \/ (k = 0 /\ ctr[c].fstype)
                /\ Atts(c) = Refs(c)
                /\ \A k \in 1 .. Len(ctr[c].devs) : SlotID(c, k) = ctr[c].devs[k]
<1>1. CASE ctr[c].pc = "ready"
  <2>1. /\ SlotsOf(c) = 1 .. Len(ctr[c].devs)
        /\ \A k \in SlotsOf(c) : SlotID(c, k) = ctr[c].devs[k] /\ (k > Own(c) \/ k <= Len(ctr[c].devs))
    BY Zenon, <1>1, Stopping DEF Merged
  <2>2. \A k : k \in Refs(c) <=> k \in SlotsOf(c) \/ (k = 0 /\ ctr[c].fstype) BY Zenon, <1>1, <2>1 DEF Refs, At
  <2>3. \A k : k \in Atts(c) <=> k \in SlotsOf(c) \/ (k = 0 /\ ctr[c].fstype) BY Zenon, <1>1, <2>1 DEF Atts, At
  <2>4. Atts(c) = Refs(c) BY Zenon, <2>2, <2>3
  <2> QED BY <1>1, <2>1, <2>2, <2>4
<1>2. CASE ctr[c].pc \in {"failed", "stopped"} BY Zenon, <1>2 DEF Refs, Atts, At
<1>3. CASE ctr[c].pc = "newMounts" /\ ctr[c].i = 1
  <2>1. Len(ctr[c].devs) = 0 /\ Len(ctr[c].mnts) = 0 /\ ~ctr[c].fstype BY SMT, <1>3 DEF Shape
  <2>2. \A k \in SlotsOf(c) : ~(k > Own(c)) /\ ~(k <= Len(ctr[c].devs)) BY SMT, <2>1, Sizes DEF SlotsOf
  <2>3. Refs(c) = {} /\ Atts(c) = {} BY <1>3, <2>1, <2>2 DEF Refs, Atts, At
  <2> QED BY <1>3, <2>3
<1> QED BY Zenon, <1>1, <1>2, <1>3 DEF At

\* Between operations, and as long as no device operation failed, each device
\* has as many references and attachments as running containers name it, so
\* that the last one unplugs and forgets it (device/manager/manager.go).
THEOREM CountsAreExact == Spec => []CountsMatch
<1>1. FaultsType /\ ManagerInv /\ CountInv => CountsMatch
  <2> SUFFICES ASSUME ManagerInv, CountInv, Quiet, Untroubled, NEW id \in IDs
               PROVE  LET n == Cardinality(Users(id)) + Cardinality(Slots(id)) IN
                      n > 0 /\ devices[id].refCount = n /\ devices[id].attachCount = n
    BY Zenon DEF CountsMatch
  <2> DEFINE Drives == Users(id) \X {0}
             All == Held(RefsTo(id))
  <2>1. Ledger /\ \A d \in Containers : Shape(d) BY Zenon DEF CountInv
  <2>2. /\ IsFiniteSet(All) /\ devices[id].refCount >= 1
        /\ devices[id].refCount = Cardinality(All) /\ devices[id].attachCount = Cardinality(Held(AttsTo(id)))
    BY Zenon, <2>1 DEF Ledger
  <2>3. Held(AttsTo(id)) = All
    <3>1. \A d \in Containers : AttsTo(id)[d] = RefsTo(id)[d] BY Zenon, <2>1, QuietSlots DEF Quiet, AttsTo, RefsTo
    <3> QED BY Zenon, <3>1, HeldSame
  <2>4. ASSUME NEW d \in Containers, NEW k
        PROVE  k \in RefsTo(id)[d] <=> \/ d \in Users(id) /\ k = 0
                                       \/ At(d, "ready") /\ k \in 1 .. Len(ctr[d].devs) /\ ctr[d].devs[k] = id
    <3>1. CASE ctr[d].pc # "ready"
      <4>1. Refs(d) = {} BY Zenon, <2>1, <3>1, QuietSlots DEF Quiet
      <4> QED BY Zenon, <3>1, <4>1 DEF RefsTo, Users, At
    <3>2. CASE ctr[d].pc = "ready"
      <4>1. /\ k \in Refs(d) <=> k \in 1 .. Len(ctr[d].devs) \/ (k = 0 /\ ctr[d].fstype)
            /\ k \in 1 .. Len(ctr[d].devs) => SlotID(d, k) = ctr[d].devs[k]
        BY Zenon, <2>1, <3>2, QuietSlots DEF Quiet
      <4>2. SlotID(d, 0) = ctr[d].drive BY Zenon DEF SlotID
      <4>3. k \in 1 .. Len(ctr[d].devs) => k # 0 BY SMT, <2>1, Sizes
      <4> QED BY Zenon, <3>2, <4>1, <4>2, <4>3 DEF RefsTo, Users, At
    <3> QED BY Zenon, <3>1, <3>2
  <2>5. \A s : s \in All <=> s \in Drives \cup Slots(id)
    <3>1. \A s : s \in Slots(id) <=> \E d \in Containers : \E k \in 1 .. Len(ctr[d].devs) :
                     At(d, "ready") /\ ctr[d].devs[k] = id /\ s = <<d, k>>
      BY SMT DEF Slots
    <3>2. \A s : s \in Drives <=> \E d \in Users(id) : s = <<d, 0>> BY SMT
    <3>3. Users(id) \subseteq Containers BY Zenon DEF Users
    <3>4. \A s : s \in All <=> \E d \in Containers : \E k \in RefsTo(id)[d] : s = <<d, k>> BY Zenon, InHeld
    <3>5. ASSUME NEW s, s \in All PROVE s \in Drives \cup Slots(id)
      <4>1. PICK d, k : d \in Containers /\ k \in RefsTo(id)[d] /\ s = <<d, k>> BY Zenon, <3>4, <3>5
      <4> QED BY <2>4, <3>1, <3>2, <4>1
    <3>6. ASSUME NEW s \in Drives PROVE s \in All
      <4>1. PICK d : d \in Users(id) /\ s = <<d, 0>> BY Zenon, <3>2
      <4>2. d \in Containers /\ 0 \in RefsTo(id)[d] BY Zenon, <2>4, <3>3, <4>1
      <4> QED BY Zenon, <3>4, <4>1, <4>2
    <3>7. ASSUME NEW s \in Slots(id) PROVE s \in All
      <4>1. PICK d, k : /\ d \in Containers /\ k \in 1 .. Len(ctr[d].devs)
                        /\ At(d, "ready") /\ ctr[d].devs[k] = id /\ s = <<d, k>>
        BY Zenon, <3>1
      <4>2. k \in RefsTo(id)[d] BY Zenon, <2>4, <4>1
      <4> QED BY Zenon, <3>4, <4>1, <4>2
    <3> QED BY Zenon, <3>5, <3>6, <3>7
  <2>6. Drives \cap Slots(id) = {}
    <3>1. ASSUME NEW s \in Drives, s \in Slots(id) PROVE FALSE
      <4>1. PICK d : s = <<d, 0>> BY SMT
      <4>2. PICK e, k : e \in Containers /\ k \in 1 .. Len(ctr[e].devs) /\ s = <<e, k>> BY SMT, <3>1 DEF Slots
      <4>3. k # 0 BY SMT, <2>1, <4>2, Sizes
      <4> QED BY SMT, <4>1, <4>2, <4>3
    <3> QED BY Zenon, <3>1
  <2>7. IsFiniteSet(Drives) /\ IsFiniteSet(Slots(id)) BY Zenon, <2>2, <2>5, FS_Subset
  <2>8. Cardinality(All) = Cardinality(Drives) + Cardinality(Slots(id))
    <3>1. All = Drives \cup Slots(id) BY Zenon, <2>5
    <3>2. Cardinality(Drives \cap Slots(id)) = 0 BY Zenon, <2>6, FS_EmptySet
    <3>3. Cardinality(Drives) \in Nat /\ Cardinality(Slots(id)) \in Nat BY Zenon, <2>7, FS_CardinalityType
    <3> QED BY SMT, <2>7, <3>1, <3>2, <3>3, FS_Union
  <2>9. Cardinality(Drives) = Cardinality(Users(id))
    <3> DEFINE f == [s \in Drives |-> s[1]]
    <3>a. f \in [Drives -> Users(id)] BY Zenon
    <3>b. \A s, t \in Drives : f[s] = f[t] => s = t BY SMT
    <3>c. \A c \in Users(id) : <<c, 0>> \in Drives /\ f[<<c, 0>>] = c BY Zenon
    <3>d. f \in Injection(Drives, Users(id)) BY Zenon, <3>a, <3>b DEF Injection, IsInjective
    <3>e. f \in Surjection(Drives, Users(id)) BY Zenon, <3>a, <3>c DEF Surjection
    <3>1. f \in Bijection(Drives, Users(id)) BY Zenon, <3>d, <3>e DEF Bijection
    <3>2. ExistsBijection(Drives, Users(id)) BY Zenon, <3>1 DEF ExistsBijection
    <3> QED BY Zenon, <2>7, <3>2, FS_Bijection
  <2>10. Cardinality(All) = Cardinality(Users(id)) + Cardinality(Slots(id)) BY Zenon, <2>8, <2>9
  <2>11. Cardinality(All) \in Nat BY Zenon, <2>2, FS_CardinalityType
  <2> HIDE DEF All, Drives
  <2>12. Cardinality(All) > 0 /\ devices[id].refCount = Cardinality(All) /\ devices[id].attachCount = Cardinality(All)
    BY SMT, <2>2, <2>3, <2>11
  <2> QED BY Zenon, <2>10, <2>12
<1> QED BY <1>1, CountHolds, PTL
=============================================================================
