------------------------- MODULE ShimServiceProofs -------------------------
(***************************************************************************)
(* Proofs about ShimService for every pod, client behaviour and failure:   *)
(* types, and how the end of a process is reported.                        *)
(***************************************************************************)
EXTENDS ShimService, TLAPS

\* The sets the variables range over, in the form the proofs use them.
LEMMA ProcFacts ==
    /\ Sandbox \in Containers /\ Sandbox \in Procs
    /\ Containers \subseteq Procs /\ Execs \subseteq Procs /\ Apps \subseteq Containers
    /\ \A p \in Procs : ContOf(p) \in Containers
    /\ Codes \subseteq Nat /\ 0 \in Codes /\ ExitCode255 \in Codes
    /\ GuestCodes \subseteq Codes /\ NoCode \notin Codes
BY ProcsAssumption, CodesAssumption DEF Procs, Containers, ContOf, Codes, ExitCode255, NoCode

\* What a lock holder, an event and an exit record look like.
LEMMA RecordFacts ==
    /\ Free \in [at : Points, p : Procs]
    /\ \A l \in Points, p \in Procs : At(l, p) \in [at : Points, p : Procs]
    /\ \A k \in {"create", "start", "exit", "paused", "running", "delete"}, p \in Procs,
          c \in Codes : Event(k, p, c) \in EventSet
BY Zenon, ProcFacts DEF Free, At, Points, Event, EventSet

\* Sending an event keeps the type of the channel.
LEMMA SendType ==
    ASSUME EventType, NEW e \in EventSet
    PROVE  Send(e) => events' \in Seq(EventSet)
<1>1. events \in Seq(EventSet) BY Zenon DEF EventType
<1> QED BY <1>1 DEF Send

\* Stopping processes keeps the type of the guest.
LEMMA EndProcsType ==
    ASSUME SandboxType, NEW S
    PROVE  EndProcs(S) => /\ proc' \in [Procs -> {"none", "running", "exited"}]
                          /\ code' \in [Procs -> Codes]
BY ProcFacts DEF SandboxType, EndProcs

\* The lock is held by the wait goroutine of p.
Locked(m, p) == m \in {At("cancel", p), At("stop", p), At("exit", p)}

\* Points at which the lock is held differ when their labels do.
LEMMA LockFacts ==
    /\ \A l, k, p, q : At(l, p) = At(k, q) => l = k /\ p = q
    /\ \A l, p : At(l, p) = Free => l = "free"
<1>1. \A l, p : At(l, p).at = l /\ At(l, p).p = p BY Zenon DEF At
<1>2. Free.at = "free" BY Zenon DEF Free
<1> QED BY <1>1, <1>2

USE DEF vars, taskVars, waitVars, evVars, vcVars, monVars

LEMMA StopAndDeleteType ==
    ASSUME SandboxType, MonitorType, StopAndDelete
    PROVE  /\ watcher' \in [q : Seq({"err", "nil"}), open : BOOLEAN]
           /\ vcs' \in [Containers -> {"none", "ready", "running", "paused", "stopped"}]
           /\ sbox' \in {"nil", "ready", "running", "stopped"}
           /\ vm' \in {"none", "on", "off"} /\ agent' \in {"ok", "dead"}
           /\ proc' \in [Procs -> {"none", "running", "exited"}]
           /\ code' \in [Procs -> Codes]
<1>0. watcher' \in [q : Seq({"err", "nil"}), open : BOOLEAN]
  <2>1. watcher' = watcher \/ watcher' = [watcher EXCEPT !.open = FALSE] BY Zenon DEF StopAndDelete
  <2> QED BY Zenon, <2>1 DEF MonitorType
<1>1. vcs' \in [Containers -> {"none", "ready", "running", "paused", "stopped"}]
  <2>1. \/ vcs' = [c \in Containers |-> "none"]
        \/ \E S : vcs' = [c \in Containers |-> IF c \in S THEN "stopped" ELSE vcs[c]]
    BY Zenon DEF StopAndDelete
  <2> QED BY Zenon, <2>1 DEF SandboxType
<1>2. /\ sbox' \in {"nil", "ready", "running", "stopped"}
      /\ vm' \in {"none", "on", "off"} /\ agent' \in {"ok", "dead"}
  BY Zenon DEF StopAndDelete, SandboxType
<1>3. \E S : EndProcs(S) BY Zenon DEF StopAndDelete
<1>4. /\ proc' \in [Procs -> {"none", "running", "exited"}]
      /\ code' \in [Procs -> Codes]
  BY Zenon, <1>3, EndProcsType
<1> QED BY Zenon, <1>0, <1>1, <1>2, <1>4

LEMMA TypeCreate ==
    ASSUME TypeOK, NEW c \in Containers, Create(c) PROVE TypeOK'
<1>1. ShimType'
  BY ZenonT(60), ProcFacts, RecordFacts DEF TypeOK, Create, ShimType, Points
<1>2. TaskType' /\ WaitType' /\ EventType' /\ SandboxType' /\ MonitorType'
  BY DEF TypeOK, Create, TaskType, WaitType, EventType, SandboxType, MonitorType
<1> QED BY Zenon, <1>1, <1>2 DEF TypeOK

LEMMA TypeCreateSucceeds ==
    ASSUME TypeOK, NEW c \in Containers, CreateSucceeds(c) PROVE TypeOK'
<1>1. ShimType'
  BY Zenon, ProcFacts, RecordFacts DEF TypeOK, ShimType, CreateSucceeds
<1>2. SandboxType'
  BY Zenon, ProcFacts DEF TypeOK, SandboxType, CreateSucceeds
<1>3. MonitorType'
  BY Zenon, ProcFacts DEF TypeOK, MonitorType, CreateSucceeds
<1>4. TaskType'
  BY Zenon, ProcFacts DEF TypeOK, TaskType, CreateSucceeds
<1>5. WaitType' BY Zenon DEF TypeOK, WaitType, CreateSucceeds
<1>6. EventType' BY ZenonT(60) DEF TypeOK, EventType, CreateSucceeds
<1> QED BY ZenonT(60), <1>1, <1>2, <1>3, <1>4, <1>5, <1>6 DEF TypeOK

LEMMA TypeCreateFails ==
    ASSUME TypeOK, NEW c \in Containers, CreateFails(c) PROVE TypeOK'
<1>1. ShimType'
  BY Zenon, ProcFacts, RecordFacts DEF TypeOK, ShimType, CreateFails
<1>2. SandboxType'
  BY Zenon, ProcFacts DEF TypeOK, SandboxType, CreateFails
<1>3. MonitorType'
  BY Zenon, ProcFacts DEF TypeOK, MonitorType, CreateFails
<1>4. TaskType'
  BY Zenon, ProcFacts DEF TypeOK, TaskType, CreateFails
<1>5. WaitType' BY Zenon DEF TypeOK, WaitType, CreateFails
<1>6. EventType' BY Zenon DEF TypeOK, EventType, CreateFails
<1> QED BY Zenon, <1>1, <1>2, <1>3, <1>4, <1>5, <1>6 DEF TypeOK

LEMMA TypeCreateReturns ==
    ASSUME TypeOK, NEW c \in Containers, CreateReturns(c) PROVE TypeOK'
<1>1. ShimType'
  BY Zenon, ProcFacts, RecordFacts DEF TypeOK, CreateReturns, ShimType, Points
<1>2. TaskType'
  BY ZenonT(40), ProcFacts DEF TypeOK, CreateReturns, TaskType, Statuses
<1>3. EventType'
  <2>1. Send(Event("create", c, 0)) => events' \in Seq(EventSet)
    BY Zenon, ProcFacts, RecordFacts, SendType DEF TypeOK
  <2>2. UNCHANGED events => events' \in Seq(EventSet) BY Zenon DEF TypeOK, EventType
  <2> QED BY Zenon, <2>1, <2>2 DEF TypeOK, CreateReturns, EventType
<1>4. WaitType' BY Zenon DEF TypeOK, WaitType, CreateReturns
<1>5. SandboxType' BY Zenon DEF TypeOK, SandboxType, CreateReturns
<1>6. MonitorType' BY Zenon DEF TypeOK, MonitorType, CreateReturns
<1> QED BY Zenon, <1>1, <1>2, <1>3, <1>4, <1>5, <1>6 DEF TypeOK

LEMMA TypeCreateTimesOut ==
    ASSUME TypeOK, NEW c \in Containers, CreateTimesOut(c) PROVE TypeOK'
<1>1. ShimType'
  BY Zenon, ProcFacts, RecordFacts DEF TypeOK, ShimType, CreateTimesOut, Points, Free
<1>2. TaskType' BY Zenon DEF TypeOK, TaskType, CreateTimesOut
<1>3. WaitType' BY Zenon DEF TypeOK, WaitType, CreateTimesOut
<1>4. EventType' BY Zenon DEF TypeOK, EventType, CreateTimesOut
<1>5. SandboxType' BY Zenon DEF TypeOK, SandboxType, CreateTimesOut
<1>6. MonitorType' BY Zenon DEF TypeOK, MonitorType, CreateTimesOut
<1> QED BY Zenon, <1>1, <1>2, <1>3, <1>4, <1>5, <1>6 DEF TypeOK

LEMMA TypeExec ==
    ASSUME TypeOK, NEW e \in Execs, Exec(e) PROVE TypeOK'
BY ProcFacts DEF TypeOK, ShimType, TaskType, WaitType, EventType, SandboxType, MonitorType, Exec, Points, Send, Event, EventSet, Statuses

LEMMA TypeStartSucceeds ==
    ASSUME TypeOK, NEW p \in Procs, StartSucceeds(p) PROVE TypeOK'
<1>1. ShimType'
  BY Zenon, ProcFacts, RecordFacts DEF TypeOK, StartSucceeds, ShimType, Points
<1>2. TaskType'
  BY Zenon, ProcFacts DEF TypeOK, StartSucceeds, TaskType, Statuses
<1>3. WaitType'
  BY Zenon DEF TypeOK, StartSucceeds, WaitType
<1>4. SandboxType'
  BY Zenon, ProcFacts DEF TypeOK, StartSucceeds, SandboxType, RunProcs
<1>5. MonitorType'
  <2>1. [q |-> <<>>, open |-> TRUE] \in [q : Seq({"err", "nil"}), open : BOOLEAN] OBVIOUS
  <2> QED BY Zenon, <2>1 DEF TypeOK, StartSucceeds, MonitorType
<1>6. EventType'
  BY Zenon DEF TypeOK, StartSucceeds, EventType
<1> QED BY Zenon, <1>1, <1>2, <1>3, <1>4, <1>5, <1>6 DEF TypeOK

LEMMA TypeSendStarted ==
    ASSUME TypeOK, NEW p \in Procs, SendStarted(p) PROVE TypeOK'
BY SMTT(30), ProcFacts DEF TypeOK, ShimType, TaskType, WaitType, EventType, SandboxType, MonitorType, SendStarted, Points, Send, Event, EventSet, Free

LEMMA TypeStartRefused ==
    ASSUME TypeOK, NEW p \in Procs, StartRefused(p) PROVE TypeOK'
<1>1. ShimType'
  BY Zenon, ProcFacts, RecordFacts DEF TypeOK, StartRefused, ShimType, Points
<1>2. TaskType'
  BY ZenonT(60) DEF TypeOK, StartRefused, TaskType
<1>3. WaitType' /\ EventType' /\ SandboxType' /\ MonitorType'
  BY SMTT(30) DEF TypeOK, StartRefused, WaitType, EventType, SandboxType, MonitorType
<1> QED BY Zenon, <1>1, <1>2, <1>3 DEF TypeOK

LEMMA TypeStartAgentFails ==
    ASSUME TypeOK, NEW c \in Containers, StartAgentFails(c) PROVE TypeOK'
<1>1. ShimType'
  BY ZenonT(60), ProcFacts, RecordFacts DEF TypeOK, StartAgentFails, ShimType, Points
<1>2. TaskType'
  BY Zenon, ProcFacts DEF TypeOK, StartAgentFails, TaskType
<1>3. SandboxType'
  BY ZenonT(60), ProcFacts DEF TypeOK, StartAgentFails, SandboxType
<1>4. WaitType' /\ EventType' /\ MonitorType'
  BY Zenon DEF TypeOK, StartAgentFails, WaitType, EventType, MonitorType
<1> QED BY Zenon, <1>1, <1>2, <1>3, <1>4 DEF TypeOK

LEMMA TypeStartFailsLate ==
    ASSUME TypeOK, NEW p \in Procs, StartFailsLate(p) PROVE TypeOK'
<1>1. ShimType'
  BY Zenon, ProcFacts, RecordFacts DEF TypeOK, StartFailsLate, ShimType, Points
<1>2. TaskType'
  BY ZenonT(60), ProcFacts DEF TypeOK, StartFailsLate, TaskType, Statuses
<1>3. SandboxType'
  BY Zenon, ProcFacts DEF TypeOK, StartFailsLate, SandboxType, RunProcs
<1>4. MonitorType'
  <2>1. [q |-> <<>>, open |-> TRUE] \in [q : Seq({"err", "nil"}), open : BOOLEAN] OBVIOUS
  <2> QED BY Zenon, <2>1 DEF TypeOK, StartFailsLate, MonitorType
<1>5. WaitType' /\ EventType'
  BY ZenonT(60) DEF TypeOK, StartFailsLate, WaitType, EventType
<1> QED BY Zenon, <1>1, <1>2, <1>3, <1>4, <1>5 DEF TypeOK

LEMMA TypeNotifyStartError ==
    ASSUME TypeOK, NEW p \in Procs, NotifyStartError(p) PROVE TypeOK'
<1>1. ShimType'
  BY Zenon, ProcFacts, RecordFacts DEF TypeOK, ShimType, NotifyStartError, Points, Free
<1>2. TaskType'
  BY Zenon, ProcFacts DEF TypeOK, TaskType, NotifyStartError
<1>3. WaitType' BY Zenon DEF TypeOK, WaitType, NotifyStartError
<1>4. EventType' BY Zenon DEF TypeOK, EventType, NotifyStartError
<1>5. SandboxType' BY Zenon DEF TypeOK, SandboxType, NotifyStartError
<1>6. MonitorType' BY Zenon DEF TypeOK, MonitorType, NotifyStartError
<1> QED BY Zenon, <1>1, <1>2, <1>3, <1>4, <1>5, <1>6 DEF TypeOK

LEMMA TypeProcExits ==
    ASSUME TypeOK, NEW p \in Procs, ProcExits(p) PROVE TypeOK'
<1>1. SandboxType'
  BY ProcFacts DEF TypeOK, SandboxType, ProcExits
<1>2. ShimType' BY Zenon DEF TypeOK, ShimType, ProcExits
<1>3. TaskType' BY Zenon DEF TypeOK, TaskType, ProcExits
<1>4. WaitType' BY Zenon DEF TypeOK, WaitType, ProcExits
<1>5. EventType' BY Zenon DEF TypeOK, EventType, ProcExits
<1>6. MonitorType' BY Zenon DEF TypeOK, MonitorType, ProcExits
<1> QED BY ZenonT(60), <1>1, <1>2, <1>3, <1>4, <1>5, <1>6 DEF TypeOK

LEMMA TypeIOCopyEnds ==
    ASSUME TypeOK, NEW p \in Procs, IOCopyEnds(p) PROVE TypeOK'
<1>1. TaskType'
  BY Zenon, ProcFacts DEF TypeOK, TaskType, IOCopyEnds
<1>2. ShimType' BY Zenon DEF TypeOK, ShimType, IOCopyEnds
<1>3. WaitType' BY Zenon DEF TypeOK, WaitType, IOCopyEnds
<1>4. EventType' BY Zenon DEF TypeOK, EventType, IOCopyEnds
<1>5. SandboxType' BY Zenon DEF TypeOK, SandboxType, IOCopyEnds
<1>6. MonitorType' BY Zenon DEF TypeOK, MonitorType, IOCopyEnds
<1> QED BY ZenonT(60), <1>1, <1>2, <1>3, <1>4, <1>5, <1>6 DEF TypeOK

LEMMA TypeAgentDies ==
    ASSUME TypeOK, AgentDies PROVE TypeOK'
<1>1. SandboxType'
  BY Zenon, ProcFacts DEF TypeOK, SandboxType, AgentDies
<1>2. ShimType' BY Zenon DEF TypeOK, ShimType, AgentDies
<1>3. TaskType' BY Zenon DEF TypeOK, TaskType, AgentDies
<1>4. WaitType' BY Zenon DEF TypeOK, WaitType, AgentDies
<1>5. EventType' BY Zenon DEF TypeOK, EventType, AgentDies
<1>6. MonitorType' BY Zenon DEF TypeOK, MonitorType, AgentDies
<1> QED BY ZenonT(60), <1>1, <1>2, <1>3, <1>4, <1>5, <1>6 DEF TypeOK

LEMMA TypeWaitGetExec ==
    ASSUME TypeOK, NEW p \in Procs, WaitGetExec(p) PROVE TypeOK'
<1>1. WaitType'
  BY Zenon, ProcFacts DEF TypeOK, WaitType, WaitGetExec, WaitStep
<1>2. ShimType' BY Zenon DEF TypeOK, ShimType, WaitGetExec
<1>3. TaskType' BY Zenon DEF TypeOK, TaskType, WaitGetExec
<1>4. EventType' BY Zenon DEF TypeOK, EventType, WaitGetExec
<1>5. SandboxType' BY Zenon DEF TypeOK, SandboxType, WaitGetExec
<1>6. MonitorType' BY ZenonT(60) DEF TypeOK, MonitorType, WaitGetExec
<1> QED BY ZenonT(60), <1>1, <1>2, <1>3, <1>4, <1>5, <1>6 DEF TypeOK

LEMMA TypeWaitIOClosed ==
    ASSUME TypeOK, NEW p \in Procs, WaitIOClosed(p) PROVE TypeOK'
<1>1. WaitType'
  BY Zenon, ProcFacts DEF TypeOK, WaitType, WaitIOClosed, WaitStep
<1>2. ShimType' BY Zenon DEF TypeOK, ShimType, WaitIOClosed
<1>3. TaskType' BY Zenon DEF TypeOK, TaskType, WaitIOClosed
<1>4. EventType' BY Zenon DEF TypeOK, EventType, WaitIOClosed
<1>5. SandboxType' BY Zenon DEF TypeOK, SandboxType, WaitIOClosed
<1>6. MonitorType' BY ZenonT(60) DEF TypeOK, MonitorType, WaitIOClosed
<1> QED BY Zenon, <1>1, <1>2, <1>3, <1>4, <1>5, <1>6 DEF TypeOK

LEMMA TypeWaitProcess ==
    ASSUME TypeOK, NEW p \in Procs, WaitProcess(p) PROVE TypeOK'
<1>1. WaitType'
  BY SMTT(30), ProcFacts DEF TypeOK, WaitProcess, WaitStep, WaitType
<1>2. ShimType' BY Zenon DEF TypeOK, ShimType, WaitProcess
<1>3. TaskType' BY Zenon DEF TypeOK, TaskType, WaitProcess
<1>4. EventType' BY Zenon DEF TypeOK, EventType, WaitProcess
<1>5. SandboxType' BY Zenon DEF TypeOK, SandboxType, WaitProcess
<1>6. MonitorType' BY Zenon DEF TypeOK, MonitorType, WaitProcess
<1> QED BY Zenon, <1>1, <1>2, <1>3, <1>4, <1>5, <1>6 DEF TypeOK

LEMMA TypeWaitAgent ==
    ASSUME TypeOK, NEW p \in Procs, WaitAgent(p) PROVE TypeOK'
<1>1. WaitType'
  BY ZenonT(60), ProcFacts DEF TypeOK, WaitAgent, WaitStep, WaitType, SandboxType
<1>2. ShimType' BY Zenon DEF TypeOK, ShimType, WaitAgent
<1>3. TaskType' BY Zenon DEF TypeOK, TaskType, WaitAgent
<1>4. EventType' BY Zenon DEF TypeOK, EventType, WaitAgent
<1>5. SandboxType' BY Zenon DEF TypeOK, SandboxType, WaitAgent
<1>6. MonitorType' BY Zenon DEF TypeOK, MonitorType, WaitAgent
<1> QED BY Zenon, <1>1, <1>2, <1>3, <1>4, <1>5, <1>6 DEF TypeOK

LEMMA TypeWaitLock ==
    ASSUME TypeOK, NEW p \in Procs, WaitLock(p) PROVE TypeOK'
<1>1. ShimType' BY Zenon, ProcFacts DEF TypeOK, ShimType, WaitLock, Points, WaitStep, At
<1>2. TaskType' BY Zenon, ProcFacts DEF TypeOK, TaskType, WaitLock, Points, WaitStep, At
<1>3. WaitType' BY Zenon, ProcFacts DEF TypeOK, WaitType, WaitLock, Points, WaitStep, At
<1>4. EventType' BY Zenon, ProcFacts DEF TypeOK, EventType, WaitLock, Points, WaitStep, At
<1>5. SandboxType' BY Zenon, ProcFacts DEF TypeOK, SandboxType, WaitLock, Points, WaitStep, At
<1>6. MonitorType' BY Zenon, ProcFacts DEF TypeOK, MonitorType, WaitLock, Points, WaitStep, At
<1> QED BY Zenon, <1>1, <1>2, <1>3, <1>4, <1>5, <1>6 DEF TypeOK

LEMMA TypeWaitCancelWatcher ==
    ASSUME TypeOK, NEW p \in Procs, WaitCancelWatcher(p) PROVE TypeOK'
<1>1. ShimType'
  BY Zenon, ProcFacts, RecordFacts DEF TypeOK, WaitCancelWatcher, ShimType, Points
<1>2. MonitorType'
  <2>1. watcher' \in [q : Seq({"err", "nil"}), open : BOOLEAN]
    <3>1. watcher \in [q : Seq({"err", "nil"}), open : BOOLEAN] BY Zenon DEF TypeOK, MonitorType
    <3>2. Append(watcher.q, "nil") \in Seq({"err", "nil"}) BY <3>1
    <3> QED BY Zenon, <3>1, <3>2 DEF WaitCancelWatcher
  <2> QED BY Zenon, <2>1 DEF TypeOK, WaitCancelWatcher, MonitorType
<1>3. TaskType' /\ WaitType' /\ EventType' /\ SandboxType'
  BY ZenonT(40) DEF TypeOK, WaitCancelWatcher, TaskType, WaitType, EventType, SandboxType
<1> QED BY Zenon, <1>1, <1>2, <1>3 DEF TypeOK

LEMMA TypeWaitStop ==
    ASSUME TypeOK, NEW p \in Procs, WaitStop(p) PROVE TypeOK'
<1>1. ShimType'
  BY Zenon, ProcFacts, RecordFacts DEF TypeOK, WaitStop, ShimType, Points
<1>2. TaskType'
  BY Zenon, ProcFacts DEF TypeOK, WaitStop, TaskType, WaitType, Statuses
<1>3. SandboxType'
  <2>1. CASE p = Sandbox
    <3>1. StopAndDelete BY Zenon, <2>1, ProcsAssumption DEF WaitStop, Containers
    <3>2. hpid' \in {"none", "vm", "shim"} BY Zenon DEF TypeOK, SandboxType, WaitStop
    <3>3. SandboxType /\ MonitorType BY Zenon DEF TypeOK
    <3>4. /\ vcs' \in [Containers -> {"none", "ready", "running", "paused", "stopped"}]
          /\ sbox' \in {"nil", "ready", "running", "stopped"}
          /\ vm' \in {"none", "on", "off"} /\ agent' \in {"ok", "dead"}
          /\ proc' \in [Procs -> {"none", "running", "exited"}]
          /\ code' \in [Procs -> Codes]
      BY Zenon, <3>1, <3>3, StopAndDeleteType
    <3> QED BY Zenon, <3>2, <3>4 DEF SandboxType
  <2>2. CASE p \in Apps
    BY ZenonT(60), <2>2, ProcsAssumption, EndProcsType DEF TypeOK, WaitStop, StopContainer, SandboxType, Containers
  <2>3. CASE p \in Execs
    BY Zenon, <2>3, ProcsAssumption DEF TypeOK, WaitStop, SandboxType, Containers
  <2> QED BY Zenon, <2>1, <2>2, <2>3 DEF Procs, Containers
<1>4. MonitorType'
  <2>1. CASE p = Sandbox
    BY Zenon, <2>1, StopAndDeleteType DEF TypeOK, WaitStop, MonitorType
  <2>2. CASE p \in Apps
    BY Zenon, <2>2, ProcsAssumption, EndProcsType DEF TypeOK, WaitStop, StopContainer, MonitorType, Containers
  <2>3. CASE p \in Execs
    BY Zenon, <2>3, ProcsAssumption DEF TypeOK, WaitStop, MonitorType, Containers
  <2> QED BY Zenon, <2>1, <2>2, <2>3 DEF Procs, Containers
<1>5. WaitType' /\ EventType'
  BY Zenon DEF TypeOK, WaitStop, WaitType, EventType
<1> QED BY Zenon, <1>1, <1>2, <1>3, <1>4, <1>5 DEF TypeOK

LEMMA TypeWaitNotify ==
    ASSUME TypeOK, NEW p \in Procs, WaitNotify(p) PROVE TypeOK'
<1>1. ShimType'
  BY Zenon, ProcFacts, RecordFacts DEF TypeOK, WaitNotify, ShimType, Points
<1>2. TaskType'
  BY Zenon, ProcFacts DEF TypeOK, WaitNotify, TaskType, WaitType
<1>3. WaitType'
  BY ZenonT(60) DEF TypeOK, WaitNotify, WaitStep, WaitType
<1>4. EventType'
  BY DEF TypeOK, WaitNotify, EventType, WaitType, Exits
<1>5. SandboxType' /\ MonitorType'
  BY ZenonT(60) DEF TypeOK, WaitNotify, SandboxType, MonitorType
<1> QED BY Zenon, <1>1, <1>2, <1>3, <1>4, <1>5 DEF TypeOK

LEMMA TypeReap ==
    ASSUME TypeOK, NEW r \in reap, Reap(r) PROVE TypeOK'
<1>1. EventType' BY ProcFacts DEF TypeOK, EventType, Reap, Exits
<1>2. ShimType' BY Zenon DEF TypeOK, ShimType, Reap
<1>3. TaskType' BY Zenon DEF TypeOK, TaskType, Reap
<1>4. WaitType' BY Zenon DEF TypeOK, WaitType, Reap
<1>5. SandboxType' BY Zenon DEF TypeOK, SandboxType, Reap
<1>6. MonitorType' BY Zenon DEF TypeOK, MonitorType, Reap
<1> QED BY Zenon, <1>1, <1>2, <1>3, <1>4, <1>5, <1>6 DEF TypeOK

LEMMA TypeProcessExits ==
    ASSUME TypeOK, ProcessExits PROVE TypeOK'
<1>1. EventType'
  <2>1. ec \in Seq(Exits) /\ ec # <<>> BY Zenon DEF TypeOK, EventType, ProcessExits
  <2>2. Head(ec) \in Exits /\ Tail(ec) \in Seq(Exits) BY <2>1
  <2> QED BY Zenon, <2>2 DEF TypeOK, EventType, ProcessExits
<1>2. ShimType' BY Zenon DEF TypeOK, ShimType, ProcessExits
<1>3. TaskType' BY Zenon DEF TypeOK, TaskType, ProcessExits
<1>4. WaitType' BY Zenon DEF TypeOK, WaitType, ProcessExits
<1>5. SandboxType' BY Zenon DEF TypeOK, SandboxType, ProcessExits
<1>6. MonitorType' BY Zenon DEF TypeOK, MonitorType, ProcessExits
<1> QED BY Zenon, <1>1, <1>2, <1>3, <1>4, <1>5, <1>6 DEF TypeOK

LEMMA TypeCheckProcesses ==
    ASSUME TypeOK, CheckProcesses PROVE TypeOK'
<1>1. ShimType' BY Zenon, ProcFacts DEF TypeOK, ShimType, CheckProcesses, Points, Send, Event, EventSet, Exits, NoExit
<1>2. TaskType' BY Zenon, ProcFacts DEF TypeOK, TaskType, CheckProcesses, Points, Send, Event, EventSet, Exits, NoExit
<1>3. WaitType' BY Zenon, ProcFacts DEF TypeOK, WaitType, CheckProcesses, Points, Send, Event, EventSet, Exits, NoExit
<1>4. EventType' BY ProcFacts DEF TypeOK, EventType, CheckProcesses, Points, Send, Event, EventSet, Exits, NoExit
<1>5. SandboxType' BY Zenon, ProcFacts DEF TypeOK, SandboxType, CheckProcesses, Points, Send, Event, EventSet, Exits, NoExit
<1>6. MonitorType' BY Zenon, ProcFacts DEF TypeOK, MonitorType, CheckProcesses, Points, Send, Event, EventSet, Exits, NoExit
<1> QED BY Zenon, <1>1, <1>2, <1>3, <1>4, <1>5, <1>6 DEF TypeOK

LEMMA TypeForward ==
    ASSUME TypeOK, Forward PROVE TypeOK'
<1>1. EventType'
  <2>1. events \in Seq(EventSet) /\ events # <<>> BY Zenon DEF TypeOK, EventType, Forward
  <2>2. Head(events) \in EventSet /\ Tail(events) \in Seq(EventSet) BY <2>1
  <2> QED BY Zenon, <2>2 DEF TypeOK, EventType, Forward
<1>2. ShimType' BY Zenon DEF TypeOK, ShimType, Forward
<1>3. TaskType' BY Zenon DEF TypeOK, TaskType, Forward
<1>4. WaitType' BY Zenon DEF TypeOK, WaitType, Forward
<1>5. SandboxType' BY Zenon DEF TypeOK, SandboxType, Forward
<1>6. MonitorType' BY Zenon DEF TypeOK, MonitorType, Forward
<1> QED BY Zenon, <1>1, <1>2, <1>3, <1>4, <1>5, <1>6 DEF TypeOK

LEMMA TypeWait ==
    ASSUME TypeOK, NEW w \in Waiters, NEW p \in Procs, Wait(w, p) PROVE TypeOK'
<1>1. ShimType' BY Zenon, ProcFacts DEF TypeOK, ShimType, Wait, Points
<1>2. TaskType' BY Zenon, ProcFacts DEF TypeOK, TaskType, Wait, Points
<1>3. WaitType' BY Zenon, ProcFacts DEF TypeOK, WaitType, Wait, Points
<1>4. EventType' BY Zenon, ProcFacts DEF TypeOK, EventType, Wait, Points
<1>5. SandboxType' BY Zenon, ProcFacts DEF TypeOK, SandboxType, Wait, Points
<1>6. MonitorType' BY Zenon, ProcFacts DEF TypeOK, MonitorType, Wait, Points
<1> QED BY Zenon, <1>1, <1>2, <1>3, <1>4, <1>5, <1>6 DEF TypeOK

LEMMA TypeWaitRpcGetExec ==
    ASSUME TypeOK, NEW w \in Waiters, WaitRpcGetExec(w) PROVE TypeOK'
<1>1. WaitType'
  BY DEF TypeOK, WaitRpcGetExec, RpcAt, WaitType
<1>2. ShimType' /\ TaskType' /\ EventType' /\ SandboxType' /\ MonitorType'
  BY DEF TypeOK, WaitRpcGetExec, ShimType, TaskType, EventType, SandboxType, MonitorType
<1> QED BY Zenon, <1>1, <1>2 DEF TypeOK

LEMMA TypeWaitRpcReceive ==
    ASSUME TypeOK, NEW w \in Waiters, WaitRpcReceive(w) PROVE TypeOK'
<1>1. TaskType'
  BY Zenon DEF TypeOK, WaitRpcReceive, WaitType, TaskType
<1>2. WaitType'
  <2>1. rpc[w].p \in Procs /\ exitCh[rpc[w].p] \in Codes \cup {NoCode}
    BY Zenon DEF TypeOK, WaitType, TaskType
  <2> QED BY ZenonT(60), <2>1 DEF TypeOK, WaitRpcReceive, WaitType
<1>3. ShimType' /\ EventType' /\ SandboxType' /\ MonitorType'
  BY DEF TypeOK, WaitRpcReceive, ShimType, EventType, SandboxType, MonitorType
<1> QED BY Zenon, <1>1, <1>2, <1>3 DEF TypeOK

LEMMA TypeWaitRpcRefill ==
    ASSUME TypeOK, NEW w \in Waiters, WaitRpcRefill(w) PROVE TypeOK'
<1>1. TaskType'
  BY Zenon DEF TypeOK, WaitRpcRefill, WaitType, TaskType
<1>2. WaitType'
  BY DEF TypeOK, WaitRpcRefill, WaitType
<1>3. ShimType' /\ EventType' /\ SandboxType' /\ MonitorType'
  BY DEF TypeOK, WaitRpcRefill, ShimType, EventType, SandboxType, MonitorType
<1> QED BY Zenon, <1>1, <1>2, <1>3 DEF TypeOK

LEMMA TypeKillChildren ==
    ASSUME TypeOK, KillChildren PROVE TypeOK'
<1>1. SandboxType'
  BY Zenon, ProcFacts, EndProcsType DEF TypeOK, KillChildren, SandboxType
<1>2. ShimType' /\ TaskType' /\ WaitType' /\ EventType' /\ MonitorType'
  BY Zenon DEF TypeOK, KillChildren, ShimType, TaskType, WaitType, EventType, MonitorType
<1> QED BY ZenonT(60), <1>1, <1>2 DEF TypeOK

LEMMA TypeKill ==
    ASSUME TypeOK, NEW p \in Procs, Kill(p) PROVE TypeOK'
<1>1. SandboxType'
  BY ProcFacts, EndProcsType DEF TypeOK, Kill, SignalProcess, SandboxType
<1>2. ShimType' /\ TaskType' /\ WaitType' /\ EventType' /\ MonitorType'
  BY ZenonT(60) DEF TypeOK, Kill, ShimType, TaskType, WaitType, EventType, MonitorType
<1> QED BY ZenonT(60), <1>1, <1>2 DEF TypeOK

LEMMA TypePause ==
    ASSUME TypeOK, NEW c \in Containers, Pause(c) PROVE TypeOK'
<1>1. ShimType'
  BY ZenonT(60) DEF TypeOK, Pause, Switch, ShimType
<1>2. TaskType'
  <2>1. ContainerStatus(c) \in Statuses
    BY Zenon DEF TypeOK, SandboxType, ContainerStatus, Statuses
  <2> QED BY Zenon, <2>1, ProcFacts DEF TypeOK, Pause, Switch, TaskType, Statuses
<1>3. WaitType'
  BY ZenonT(60) DEF TypeOK, Pause, Switch, WaitType
<1>4. EventType'
  <2>1. Send(Event("paused", c, 0)) => events' \in Seq(EventSet)
    BY ZenonT(60), ProcFacts, RecordFacts, SendType DEF TypeOK
  <2>2. UNCHANGED events => events' \in Seq(EventSet) BY Zenon DEF TypeOK, EventType
  <2> QED BY Zenon, <2>1, <2>2 DEF TypeOK, Pause, Switch, EventType
<1>5. SandboxType'
  BY SMTT(30) DEF TypeOK, Pause, Switch, SandboxType
<1>6. MonitorType'
  BY Zenon DEF TypeOK, Pause, Switch, MonitorType
<1> QED BY Zenon, <1>1, <1>2, <1>3, <1>4, <1>5, <1>6 DEF TypeOK

LEMMA TypeResume ==
    ASSUME TypeOK, NEW c \in Containers, Resume(c) PROVE TypeOK'
<1>1. ShimType'
  BY Zenon DEF TypeOK, Resume, Switch, ShimType
<1>2. TaskType'
  <2>1. ContainerStatus(c) \in Statuses
    BY Zenon DEF TypeOK, SandboxType, ContainerStatus, Statuses
  <2> QED BY Zenon, <2>1, ProcFacts DEF TypeOK, Resume, Switch, TaskType, Statuses
<1>3. WaitType'
  BY ZenonT(60) DEF TypeOK, Resume, Switch, WaitType
<1>4. EventType'
  <2>1. Send(Event("running", c, 0)) => events' \in Seq(EventSet)
    BY Zenon, ProcFacts, RecordFacts, SendType DEF TypeOK
  <2>2. UNCHANGED events => events' \in Seq(EventSet) BY Zenon DEF TypeOK, EventType
  <2> QED BY Zenon, <2>1, <2>2 DEF TypeOK, Resume, Switch, EventType
<1>5. SandboxType'
  BY SMTT(30) DEF TypeOK, Resume, Switch, SandboxType
<1>6. MonitorType'
  BY Zenon DEF TypeOK, Resume, Switch, MonitorType
<1> QED BY Zenon, <1>1, <1>2, <1>3, <1>4, <1>5, <1>6 DEF TypeOK

LEMMA TypeDeleteContainer ==
    ASSUME TypeOK, NEW c \in Containers, DeleteContainer(c) PROVE TypeOK'
<1>1. TaskType'
  BY SMTT(30) DEF TypeOK, DeleteContainer, Forget, TaskType
<1>2. EventType'
  <2>1. exit[c] \in Codes BY Zenon, ProcFacts DEF TypeOK, TaskType
  <2>2. Send(Event("delete", c, exit[c])) => events' \in Seq(EventSet)
    BY Zenon, <2>1, ProcFacts, RecordFacts, SendType DEF TypeOK
  <2>3. UNCHANGED events => events' \in Seq(EventSet) BY Zenon DEF TypeOK, EventType
  <2> QED BY Zenon, <2>2, <2>3 DEF TypeOK, DeleteContainer, Forget, EventType
<1>3. SandboxType'
  BY ZenonT(60), EndProcsType DEF TypeOK, DeleteContainer, Forget, SandboxType
<1>4. ShimType' /\ WaitType' /\ MonitorType'
  BY Zenon DEF TypeOK, DeleteContainer, ShimType, WaitType, MonitorType
<1> QED BY ZenonT(60), <1>1, <1>2, <1>3, <1>4 DEF TypeOK

LEMMA TypeDeleteExec ==
    ASSUME TypeOK, NEW e \in Execs, DeleteExec(e) PROVE TypeOK'
<1>1. ShimType' BY Zenon, ProcFacts DEF TypeOK, ShimType, DeleteExec, Points
<1>2. TaskType' BY Zenon, ProcFacts DEF TypeOK, TaskType, DeleteExec, Points
<1>3. WaitType' BY Zenon, ProcFacts DEF TypeOK, WaitType, DeleteExec, Points
<1>4. EventType' BY ZenonT(60), ProcFacts DEF TypeOK, EventType, DeleteExec, Points
<1>5. SandboxType' BY ZenonT(60), ProcFacts DEF TypeOK, SandboxType, DeleteExec, Points
<1>6. MonitorType' BY ZenonT(60), ProcFacts DEF TypeOK, MonitorType, DeleteExec, Points
<1> QED BY Zenon, <1>1, <1>2, <1>3, <1>4, <1>5, <1>6 DEF TypeOK

LEMMA TypeShutdown ==
    ASSUME TypeOK, Shutdown PROVE TypeOK'
<1>1. ShimType' BY Zenon, ProcFacts DEF TypeOK, ShimType, Shutdown, Points
<1>2. TaskType' BY Zenon, ProcFacts DEF TypeOK, TaskType, Shutdown, Points
<1>3. WaitType' BY Zenon, ProcFacts DEF TypeOK, WaitType, Shutdown, Points
<1>4. EventType' BY Zenon, ProcFacts DEF TypeOK, EventType, Shutdown, Points
<1>5. SandboxType' BY Zenon, ProcFacts DEF TypeOK, SandboxType, Shutdown, Points
<1>6. MonitorType' BY Zenon, ProcFacts DEF TypeOK, MonitorType, Shutdown, Points
<1> QED BY Zenon, <1>1, <1>2, <1>3, <1>4, <1>5, <1>6 DEF TypeOK

LEMMA TypeShutdownExit ==
    ASSUME TypeOK, ShutdownExit PROVE TypeOK'
<1>1. ShimType' BY Zenon, ProcFacts DEF TypeOK, ShimType, ShutdownExit, Points
<1>2. TaskType' BY Zenon, ProcFacts DEF TypeOK, TaskType, ShutdownExit, Points
<1>3. WaitType' BY Zenon, ProcFacts DEF TypeOK, WaitType, ShutdownExit, Points
<1>4. EventType' BY Zenon, ProcFacts DEF TypeOK, EventType, ShutdownExit, Points
<1>5. SandboxType' BY ZenonT(60), ProcFacts DEF TypeOK, SandboxType, ShutdownExit, Points
<1>6. MonitorType' BY Zenon, ProcFacts DEF TypeOK, MonitorType, ShutdownExit, Points
<1> QED BY Zenon, <1>1, <1>2, <1>3, <1>4, <1>5, <1>6 DEF TypeOK

LEMMA TypeMonitorNotify ==
    ASSUME TypeOK, MonitorNotify PROVE TypeOK'
<1>1. MonitorType'
  <2>1. watcher \in [q : Seq({"err", "nil"}), open : BOOLEAN] BY Zenon DEF TypeOK, MonitorType
  <2>2. Append(watcher.q, "err") \in Seq({"err", "nil"}) BY <2>1
  <2> QED BY ZenonT(60), <2>1, <2>2 DEF TypeOK, MonitorNotify, MonitorType
<1>2. ShimType' /\ TaskType' /\ WaitType' /\ EventType' /\ SandboxType'
  BY DEF TypeOK, MonitorNotify, ShimType, TaskType, WaitType, EventType, SandboxType
<1> QED BY Zenon, <1>1, <1>2 DEF TypeOK

LEMMA TypeWatchReceive ==
    ASSUME TypeOK, WatchReceive PROVE TypeOK'
<1>1. MonitorType'
  <2>1. watcher \in [q : Seq({"err", "nil"}), open : BOOLEAN] BY Zenon DEF TypeOK, MonitorType
  <2>2. watcher.q # <<>> => Tail(watcher.q) \in Seq({"err", "nil"}) BY <2>1
  <2> QED BY Zenon, <2>1, <2>2 DEF TypeOK, WatchReceive, MonitorType
<1>2. ShimType' /\ TaskType' /\ WaitType' /\ EventType' /\ SandboxType'
  BY ZenonT(60) DEF TypeOK, WatchReceive, ShimType, TaskType, WaitType, EventType, SandboxType
<1> QED BY Zenon, <1>1, <1>2 DEF TypeOK

LEMMA TypeWatchResetMonitor ==
    ASSUME TypeOK, WatchResetMonitor PROVE TypeOK'
<1>1. MonitorType'
  BY Zenon, ProcFacts DEF TypeOK, MonitorType, WatchResetMonitor
<1>2. ShimType' BY Zenon DEF TypeOK, ShimType, WatchResetMonitor
<1>3. TaskType' BY Zenon DEF TypeOK, TaskType, WatchResetMonitor
<1>4. WaitType' BY Zenon DEF TypeOK, WaitType, WatchResetMonitor
<1>5. EventType' BY Zenon DEF TypeOK, EventType, WatchResetMonitor
<1>6. SandboxType' BY Zenon DEF TypeOK, SandboxType, WatchResetMonitor
<1> QED BY Zenon, <1>1, <1>2, <1>3, <1>4, <1>5, <1>6 DEF TypeOK

LEMMA TypeWatchCleanup ==
    ASSUME TypeOK, WatchCleanup PROVE TypeOK'
<1>1. SandboxType'
  BY SMTT(30), StopAndDeleteType DEF TypeOK, WatchCleanup, SandboxType
<1>2. MonitorType'
  BY ZenonT(60), StopAndDeleteType DEF TypeOK, WatchCleanup, MonitorType
<1>3. ShimType' /\ TaskType' /\ WaitType' /\ EventType'
  BY Zenon DEF TypeOK, WatchCleanup, ShimType, TaskType, WaitType, EventType
<1> QED BY ZenonT(60), <1>1, <1>2, <1>3 DEF TypeOK

\* Every step keeps the types.
LEMMA TypeNext == TypeOK /\ [Next]_vars => TypeOK'
<1> SUFFICES ASSUME TypeOK, [Next]_vars PROVE TypeOK'
  BY Zenon
<1>1. CASE ClientNext
  BY ZenonT(60), <1>1, TypeCreate, TypePause, TypeResume, TypeDeleteContainer, TypeExec, TypeDeleteExec,
     TypeKill, TypeStartSucceeds, TypeStartRefused, TypeStartFailsLate, TypeStartAgentFails,
     TypeWait, TypeKillChildren, TypeShutdown DEF ClientNext
<1>2. CASE GuestNext
  BY Zenon, <1>2, TypeAgentDies, TypeProcExits DEF GuestNext
<1>3. CASE ShimNext
  BY ZenonT(60), <1>3, TypeCreateSucceeds, TypeCreateFails, TypeCreateReturns, TypeCreateTimesOut,
     TypeSendStarted, TypeNotifyStartError, TypeIOCopyEnds, TypeWaitLock, TypeWaitGetExec,
     TypeWaitIOClosed, TypeWaitProcess, TypeWaitAgent, TypeWaitCancelWatcher, TypeWaitStop,
     TypeWaitNotify, TypeWaitRpcGetExec, TypeWaitRpcReceive, TypeWaitRpcRefill, TypeReap,
     TypeProcessExits, TypeCheckProcesses, TypeForward, TypeMonitorNotify, TypeWatchReceive,
     TypeWatchResetMonitor, TypeWatchCleanup, TypeShutdownExit
     DEF ShimNext, CreateNext, WaitGoroutine, WaitRpc
<1>4. CASE UNCHANGED vars
  <2>1. ShimType' BY Zenon, <1>4 DEF TypeOK, ShimType
  <2>2. TaskType' BY Zenon, <1>4 DEF TypeOK, TaskType
  <2>3. WaitType' BY Zenon, <1>4 DEF TypeOK, WaitType
  <2>4. EventType' BY Zenon, <1>4 DEF TypeOK, EventType
  <2>5. SandboxType' BY ZenonT(60), <1>4 DEF TypeOK, SandboxType
  <2>6. MonitorType' BY Zenon, <1>4 DEF TypeOK, MonitorType
  <2> QED BY Zenon, <2>1, <2>2, <2>3, <2>4, <2>5, <2>6 DEF TypeOK
<1> QED BY Zenon, <1>1, <1>2, <1>3, <1>4 DEF Next, Exited

LEMMA TypeInit == Init => TypeOK
<1> SUFFICES ASSUME Init PROVE TypeOK BY Zenon
<1>1. ShimType BY Zenon, ProcFacts DEF Init, ShimType, Points, Statuses, Idle, Free, NoExit
<1>2. TaskType BY Zenon, ProcFacts DEF Init, TaskType, Points, Statuses, Idle, Free, NoExit
<1>3. WaitType BY ZenonT(60), ProcFacts DEF Init, WaitType, Points, Statuses, Idle, Free, NoExit
<1>4. EventType BY SMTT(30), ProcFacts DEF Init, EventType, Points, Statuses, Idle, Free, NoExit
<1>5. SandboxType BY SMTT(30), ProcFacts DEF Init, SandboxType, Points, Statuses, Idle, Free, NoExit
<1>6. MonitorType
  <2>1. monitor = "nil" /\ watcher = [q |-> <<>>, open |-> FALSE] /\ watch = "none"
    BY Zenon DEF Init
  <2>2. watcher \in [q : Seq({"err", "nil"}), open : BOOLEAN] BY <2>1
  <2> QED BY Zenon, <2>1, <2>2 DEF MonitorType
<1> QED BY Zenon, <1>1, <1>2, <1>3, <1>4, <1>5, <1>6 DEF TypeOK

\* The type invariant of the shim, for every behaviour of its client, its guest
\* and its goroutines.
THEOREM TypeCorrect == Spec => []TypeOK
BY TypeInit, TypeNext, PTL DEF Spec

-----------------------------------------------------------------------------
(* How the shim tells the end of a process.  Its exit event follows its     *)
(* start event.  It gets at most one exit code, and that code is what the   *)
(* shim records, what every Wait RPC returns and what the exit events       *)
(* report.                                                                  *)
(*                                                                          *)
(* Start events precede exit events.  The lock is what orders them: wait    *)
(* can pass s.mu.Lock() only after Start has sent its event and released    *)
(* the lock, so a process whose wait goroutine runs and whose Start is not  *)
(* in progress has its start event in the channel or forwarded.             *)

\* The start event of p was sent.
StartSent(p) ==
    \/ Event("start", p, 0) \in forwarded
    \/ \E i \in 1..Len(events) : events[i] = Event("start", p, 0)

\* Every process with a running or finished wait goroutine, except the one that
\* Start is just working on, was announced; so was every exit on its way.
Announced ==
    /\ \A p \in Procs : wg[p] # "none" /\ mu # At("start", p) => StartSent(p)
    /\ \A r \in reap : StartSent(r.p)
    /\ \A i \in 1..Len(ec) : StartSent(ec[i].p)
    /\ pe # NoExit => StartSent(pe.p)

OrderInv == StartBeforeExit /\ Announced

LEMMA OrderInit == Init => OrderInv
BY DEF Init, OrderInv, StartBeforeExit, Announced

\* Events that are sent do not disappear.
LEMMA AppendKeepsSent ==
    ASSUME EventType, NEW e \in EventSet, events' = Append(events, e),
           forwarded' = forwarded, NEW p, StartSent(p)
    PROVE  StartSent(p)'
<1>1. events \in Seq(EventSet) BY Zenon DEF EventType
<1>2. /\ Len(events') = Len(events) + 1
      /\ \A i \in 1..Len(events) : events'[i] = events[i]
  BY <1>1
<1> QED BY <1>1, <1>2 DEF StartSent

LEMMA ForwardKeepsSent ==
    ASSUME EventType, Forward, NEW p, StartSent(p)
    PROVE  StartSent(p)'
<1>1. events \in Seq(EventSet) /\ events # <<>> BY Zenon DEF EventType, Forward
<1>2. /\ Len(events') = Len(events) - 1 /\ Head(events) = events[1]
      /\ \A i \in 1..Len(events') : events'[i] = events[i + 1]
  BY <1>1 DEF Forward
<1>3. CASE Event("start", p, 0) \in forwarded BY Zenon, <1>3 DEF StartSent, Forward
<1>4. ASSUME NEW i \in 1..Len(events), events[i] = Event("start", p, 0)
      PROVE  StartSent(p)'
  <2>1. CASE i = 1 BY Zenon, <1>2, <1>4, <2>1 DEF StartSent, Forward
  <2>2. CASE i # 1
    <3>1. i - 1 \in 1..Len(events') /\ events'[i - 1] = events[i]
      BY <1>1, <1>2, <2>2
    <3> QED BY Zenon, <1>4, <3>1 DEF StartSent
  <2> QED BY ZenonT(60), <2>1, <2>2
<1> QED BY Zenon, <1>3, <1>4 DEF StartSent

\* Sending an event keeps the order unless it is an unannounced exit.
LEMMA AppendKeepsOrder ==
    ASSUME EventType, StartBeforeExit, NEW e \in EventSet, events' = Append(events, e),
           forwarded' = forwarded,
           \A p \in Procs, k \in Codes : e = Event("exit", p, k) => StartSent(p)
    PROVE  StartBeforeExit'
<1>1. events \in Seq(EventSet) BY Zenon DEF EventType
<1>2. /\ Len(events') = Len(events) + 1 /\ events'[Len(events) + 1] = e
      /\ \A i \in 1..Len(events) : events'[i] = events[i]
  BY <1>1
<1> SUFFICES ASSUME NEW p \in Procs, NEW k \in Codes, NEW i \in 1..Len(events'),
                    events'[i] = Event("exit", p, k)
             PROVE  \/ Event("start", p, 0) \in forwarded
                    \/ \E j \in 1..(i - 1) : events'[j] = Event("start", p, 0)
  BY Zenon DEF StartBeforeExit
<1>3. CASE i \in 1..Len(events)
  <2>1. \/ Event("start", p, 0) \in forwarded
        \/ \E j \in 1..(i - 1) : events[j] = Event("start", p, 0)
    BY Zenon, <1>2, <1>3 DEF StartBeforeExit
  <2> QED BY <1>1, <1>2, <1>3, <2>1
<1>4. CASE i = Len(events) + 1
  <2>1. StartSent(p) BY Zenon, <1>2, <1>4
  <2> QED BY <1>1, <1>2, <1>4, <2>1 DEF StartSent
<1> QED BY <1>1, <1>2, <1>3, <1>4

\* Forwarding takes the oldest event, so it keeps the order.
LEMMA ForwardKeepsOrder ==
    ASSUME EventType, StartBeforeExit, Forward
    PROVE  StartBeforeExit'
<1>1. events \in Seq(EventSet) /\ events # <<>> BY Zenon DEF EventType, Forward
<1>2. /\ Len(events') = Len(events) - 1 /\ Head(events) = events[1] /\ 1 \in 1..Len(events)
      /\ \A i \in 1..Len(events') : events'[i] = events[i + 1] /\ i + 1 \in 1..Len(events)
      /\ forwarded' = forwarded \cup {events[1]}
  BY <1>1 DEF Forward
<1>3. ASSUME NEW p \in Procs, NEW k \in Codes, Event("exit", p, k) \in forwarded'
      PROVE  Event("start", p, 0) \in forwarded'
  <2>1. CASE Event("exit", p, k) \in forwarded BY Zenon, <1>2, <2>1 DEF StartBeforeExit
  <2>2. CASE events[1] = Event("exit", p, k)
    BY <1>2, <2>2 DEF StartBeforeExit
  <2> QED BY Zenon, <1>2, <1>3, <2>1, <2>2
<1>4. ASSUME NEW p \in Procs, NEW k \in Codes, NEW i \in 1..Len(events'),
             events'[i] = Event("exit", p, k)
      PROVE  \/ Event("start", p, 0) \in forwarded'
             \/ \E j \in 1..(i - 1) : events'[j] = Event("start", p, 0)
  <2>1. \/ Event("start", p, 0) \in forwarded
        \/ \E j \in 1..i : events[j] = Event("start", p, 0)
    BY <1>1, <1>2, <1>4 DEF StartBeforeExit
  <2>2. ASSUME NEW j \in 1..i, events[j] = Event("start", p, 0)
        PROVE  \/ Event("start", p, 0) \in forwarded'
               \/ \E l \in 1..(i - 1) : events'[l] = Event("start", p, 0)
    <3>1. CASE j = 1 BY Zenon, <1>2, <2>2, <3>1
    <3>2. CASE j # 1
      <4>1. j - 1 \in 1..(i - 1) /\ j - 1 \in 1..Len(events') BY <1>1, <1>2, <3>2
      <4>2. events'[j - 1] = events[j] BY <1>1, <1>2, <4>1
      <4> QED BY Zenon, <2>2, <4>1, <4>2
    <3> QED BY Zenon, <3>1, <3>2
  <2> QED BY Zenon, <1>2, <2>1, <2>2
<1> QED BY Zenon, <1>3, <1>4 DEF StartBeforeExit

-----------------------------------------------------------------------------
(* The invariant is preserved by every step.                                *)

\* A step that leaves the events alone and starts no wait goroutine other than
\* that of the process Start is working on.
LEMMA OrderFrame ==
    ASSUME OrderInv, UNCHANGED evVars,
           \A p \in Procs : wg'[p] # "none" /\ mu' # At("start", p)
                            => wg[p] # "none" /\ mu # At("start", p)
    PROVE  OrderInv'
<1>1. \A p : StartSent(p)' <=> StartSent(p) BY Zenon DEF StartSent
<1>2. StartBeforeExit' BY Zenon DEF OrderInv, StartBeforeExit
<1>3. Announced' BY Zenon, <1>1 DEF OrderInv, Announced
<1> QED BY Zenon, <1>2, <1>3 DEF OrderInv

\* A step that sends an event other than an exit event.
LEMMA OrderSend ==
    ASSUME TypeOK, OrderInv, NEW e \in EventSet, e.kind # "exit", Send(e),
           UNCHANGED <<reap, ec, pe, forwarded>>,
           \A p \in Procs : wg'[p] # "none" /\ mu' # At("start", p)
                => (wg[p] # "none" /\ mu # At("start", p)) \/ e = Event("start", p, 0)
    PROVE  OrderInv'
<1>1. EventType BY Zenon DEF TypeOK
<1>2. events' = Append(events, e) BY Zenon DEF Send
<1>3. \A p : StartSent(p) => StartSent(p)' BY Zenon, <1>1, <1>2, AppendKeepsSent
<1>4. \A p \in Procs, k \in Codes : e # Event("exit", p, k) BY DEF Event
<1>5. StartBeforeExit' BY Zenon, <1>1, <1>2, <1>4, AppendKeepsOrder DEF OrderInv
<1>6. \A p : e = Event("start", p, 0) => StartSent(p)'
  <2>1. events \in Seq(EventSet) BY Zenon, <1>1 DEF EventType
  <2>2. Len(events) + 1 \in 1..Len(events') /\ events'[Len(events) + 1] = e
    BY <1>2, <2>1
  <2> QED BY Zenon, <2>2 DEF StartSent
<1>7. Announced' BY Zenon, <1>3, <1>6 DEF OrderInv, Announced
<1> QED BY Zenon, <1>5, <1>7 DEF OrderInv

LEMMA OrderCreate ==
    ASSUME TypeOK, OrderInv, NEW c \in Containers, CreateNext(c) \/ Create(c)
    PROVE  OrderInv'
<1>1. CASE Create(c) BY Zenon, <1>1, OrderFrame DEF Create, At, Free
<1>2. CASE CreateSucceeds(c) BY Zenon, <1>2, OrderFrame DEF CreateSucceeds
<1>3. CASE CreateFails(c) BY Zenon, <1>3, OrderFrame DEF CreateFails
<1>4. CASE CreateTimesOut(c) BY Zenon, <1>4, OrderFrame DEF CreateTimesOut, At, Free
<1>5. CASE CreateReturns(c)
  <2>1. UNCHANGED wg BY Zenon, <1>5 DEF CreateReturns
  <2>2. \A p \in Procs : mu # At("start", p) BY Zenon, <1>5 DEF CreateReturns, At
  <2>3. CASE UNCHANGED events BY Zenon, <1>5, <2>1, <2>2, <2>3, OrderFrame DEF CreateReturns
  <2>4. CASE Send(Event("create", c, 0))
    <3>1. Event("create", c, 0) \in EventSet /\ Event("create", c, 0).kind # "exit"
      BY Zenon, RecordFacts, ProcFacts DEF Event
    <3> QED BY ZenonT(60), <1>5, <2>1, <2>2, <2>4, <3>1, OrderSend DEF CreateReturns
  <2> QED BY Zenon, <1>5, <2>3, <2>4 DEF CreateReturns
<1> QED BY ZenonT(60), <1>1, <1>2, <1>3, <1>4, <1>5 DEF CreateNext

LEMMA OrderExec ==
    ASSUME TypeOK, OrderInv, NEW e \in Execs, Exec(e) PROVE OrderInv'
<1>1. Event("create", e, 0) \in EventSet /\ Event("create", e, 0).kind # "exit"
  BY Zenon, RecordFacts, ProcFacts DEF Event
<1> QED BY ZenonT(60), <1>1, OrderSend DEF Exec

LEMMA OrderStart ==
    ASSUME TypeOK, OrderInv, NEW p \in Procs,
           \/ StartSucceeds(p) \/ StartRefused(p) \/ StartFailsLate(p)
           \/ StartAgentFails(p) \/ SendStarted(p) \/ NotifyStartError(p)
    PROVE  OrderInv'
<1>0. wg \in [Procs -> {"none", "get", "io", "check", "agent", "lock", "locked", "done", "gone"}]
  BY Zenon DEF TypeOK, WaitType
<1>1. CASE StartSucceeds(p)
  <2>1. mu = Free /\ \A q \in Procs : mu # At("start", q)
    BY Zenon, <1>1 DEF StartSucceeds, CanStart, Serve, Free, At
  <2>2. /\ mu' = At("start", p) /\ UNCHANGED evVars
        /\ \A q \in Procs : q # p => wg'[q] = wg[q]
    BY ZenonT(60), <1>0, <1>1 DEF StartSucceeds
  <2> QED BY Zenon, <2>1, <2>2, OrderFrame
<1>2. CASE StartRefused(p)
  BY ZenonT(60), <1>2, OrderFrame DEF StartRefused, CanStart, Serve, At, Free
<1>3. CASE StartFailsLate(p)
  BY Zenon, <1>3, OrderFrame DEF StartFailsLate, CanStart, Serve, At, Free
<1>4. CASE StartAgentFails(p)
  BY Zenon, <1>4, OrderFrame DEF StartAgentFails, CanStart, Serve, At, Free
<1>5. CASE SendStarted(p)
  <2>1. Event("start", p, 0) \in EventSet /\ Event("start", p, 0).kind # "exit"
    BY Zenon, RecordFacts, ProcFacts DEF Event
  <2>2. UNCHANGED wg /\ \A q \in Procs : q # p => mu # At("start", q)
    BY ZenonT(60), <1>5 DEF SendStarted, At
  <2> QED BY Zenon, <1>5, <2>1, <2>2, OrderSend DEF SendStarted
<1>6. CASE NotifyStartError(p)
  BY Zenon, <1>6, OrderFrame DEF NotifyStartError, At, Free
<1> QED BY ZenonT(60), <1>1, <1>2, <1>3, <1>4, <1>5, <1>6

\* The wait goroutine of p gets the lock only when Start has released it.
LEMMA OrderWait ==
    ASSUME TypeOK, OrderInv, NEW p \in Procs, WaitLock(p) \/ WaitGoroutine(p)
    PROVE  OrderInv'
<1>0. wg \in [Procs -> {"none", "get", "io", "check", "agent", "lock", "locked", "done", "gone"}]
  BY Zenon DEF TypeOK, WaitType
<1>a. ASSUME NEW f, f # "none", NEW t, WaitStep(p, f, t)
      PROVE  \A q \in Procs : wg'[q] # "none" => wg[q] # "none"
  BY Zenon, <1>0, <1>a DEF WaitStep
<1>1. CASE WaitGetExec(p)
  <2>1. \A q \in Procs : wg'[q] # "none" => wg[q] # "none" BY Zenon, <1>1, <1>a DEF WaitGetExec
  <2> QED BY Zenon, <1>1, <2>1, OrderFrame DEF WaitGetExec
<1>2. CASE WaitIOClosed(p)
  <2>1. \A q \in Procs : wg'[q] # "none" => wg[q] # "none" BY Zenon, <1>2, <1>a DEF WaitIOClosed
  <2> QED BY Zenon, <1>2, <2>1, OrderFrame DEF WaitIOClosed
<1>3. CASE WaitProcess(p)
  <2>1. \A q \in Procs : wg'[q] # "none" => wg[q] # "none" BY Zenon, <1>3, <1>a DEF WaitProcess
  <2> QED BY Zenon, <1>3, <2>1, OrderFrame DEF WaitProcess
<1>4. CASE WaitAgent(p)
  <2>1. \A q \in Procs : wg'[q] # "none" => wg[q] # "none" BY Zenon, <1>4, <1>a DEF WaitAgent
  <2> QED BY Zenon, <1>4, <2>1, OrderFrame DEF WaitAgent
<1>5. CASE WaitLock(p)
  <2>1. \A q \in Procs : wg'[q] # "none" => wg[q] # "none" BY ZenonT(60), <1>5, <1>a DEF WaitLock
  <2>2. \A q \in Procs : mu # At("start", q) BY Zenon, <1>5 DEF WaitLock, Free, At
  <2> QED BY Zenon, <1>5, <2>1, <2>2, OrderFrame DEF WaitLock
<1>6. CASE WaitCancelWatcher(p)
  BY Zenon, <1>6, OrderFrame DEF WaitCancelWatcher, At
<1>7. CASE WaitStop(p)
  <2>1. UNCHANGED <<wg, evVars>> /\ mu = At("stop", p) BY Zenon, <1>7 DEF WaitStop
  <2> QED BY Zenon, <2>1, OrderFrame DEF At
<1>8. CASE WaitNotify(p)
  <2>1. \A q \in Procs : wg'[q] # "none" => wg[q] # "none" BY Zenon, <1>8, <1>a DEF WaitNotify
  <2>2. wg[p] # "none" BY Zenon, <1>8 DEF WaitNotify, WaitStep
  <2>3. \A q \in Procs : mu # At("start", q) BY Zenon, <1>8 DEF WaitNotify, At
  <2>4. \A q : StartSent(q)' <=> StartSent(q) BY Zenon, <1>8 DEF WaitNotify, StartSent
  <2>5. reap' = reap \cup {[p |-> p, status |-> wret[p]]} /\ UNCHANGED <<ec, pe, events, forwarded>>
    BY Zenon, <1>8 DEF WaitNotify
  <2>6. StartSent(p) BY ZenonT(60), <2>2, <2>3 DEF OrderInv, Announced
  <2>7. \A r \in reap' : StartSent(r.p)
    BY <2>5, <2>6 DEF OrderInv, Announced
  <2>8. StartBeforeExit' BY ZenonT(60), <2>5 DEF OrderInv, StartBeforeExit
  <2>9. Announced' BY Zenon, <2>1, <2>3, <2>4, <2>5, <2>7 DEF OrderInv, Announced
  <2> QED BY Zenon, <2>8, <2>9 DEF OrderInv
<1> QED BY ZenonT(60), <1>1, <1>2, <1>3, <1>4, <1>5, <1>6, <1>7, <1>8 DEF WaitGoroutine

\* An exit moves from cReap to the channel and to processExits.
LEMMA OrderReap ==
    ASSUME TypeOK, OrderInv, (\E r \in reap : Reap(r)) \/ ProcessExits
    PROVE  OrderInv'
<1>0. ec \in Seq(Exits) BY Zenon DEF TypeOK, EventType
<1>1. UNCHANGED <<events, forwarded, wg, mu>> BY Zenon DEF Reap, ProcessExits
<1>2. \A q : StartSent(q)' <=> StartSent(q) BY Zenon, <1>1 DEF StartSent
<1>3. StartBeforeExit' BY Zenon, <1>1 DEF OrderInv, StartBeforeExit
<1>4. ASSUME NEW r \in reap, Reap(r) PROVE Announced'
  <2>1. /\ reap' \subseteq reap /\ pe' = pe
        /\ Len(ec') = Len(ec) + 1 /\ ec'[Len(ec) + 1] = r
        /\ \A i \in 1..Len(ec) : ec'[i] = ec[i]
    BY <1>0, <1>4 DEF Reap
  <2>2. \A i \in 1..Len(ec') : i \in 1..Len(ec) \/ i = Len(ec) + 1 BY <1>0, <2>1
  <2>3. \A i \in 1..Len(ec') : StartSent(ec'[i].p)
    BY Zenon, <2>1, <2>2 DEF OrderInv, Announced
  <2> QED BY ZenonT(60), <1>1, <1>2, <2>1, <2>3 DEF OrderInv, Announced
<1>5. ASSUME ProcessExits PROVE Announced'
  <2>1. /\ reap' = reap /\ pe' = ec[1] /\ 1 \in 1..Len(ec)
        /\ Len(ec') = Len(ec) - 1
        /\ \A i \in 1..Len(ec') : ec'[i] = ec[i + 1] /\ i + 1 \in 1..Len(ec)
    BY <1>0, <1>5 DEF ProcessExits
  <2> QED BY ZenonT(60), <1>1, <1>2, <2>1 DEF OrderInv, Announced
<1> QED BY Zenon, <1>3, <1>4, <1>5 DEF OrderInv

LEMMA OrderCheckProcesses ==
    ASSUME TypeOK, OrderInv, CheckProcesses PROVE OrderInv'
<1> DEFINE e == Event("exit", pe.p, pe.status)
<1>0. EventType BY ZenonT(60) DEF TypeOK
<1>1. pe \in Exits /\ StartSent(pe.p)
  BY Zenon, <1>0 DEF EventType, CheckProcesses, OrderInv, Announced
<1>2. e \in EventSet BY Zenon, <1>1, RecordFacts DEF Exits
<1>3. events' = Append(events, e) /\ UNCHANGED <<wg, mu, reap, ec, forwarded>> /\ pe' = NoExit
  BY Zenon DEF CheckProcesses, Send
<1>4. \A q : StartSent(q) => StartSent(q)' BY ZenonT(60), <1>0, <1>2, <1>3, AppendKeepsSent
<1>5. \A q \in Procs, k \in Codes : e = Event("exit", q, k) => q = pe.p BY Zenon DEF Event
<1>6. \A q \in Procs, k \in Codes : e = Event("exit", q, k) => StartSent(q) BY Zenon, <1>1, <1>5
<1> HIDE DEF e
<1>7. StartBeforeExit' BY ZenonT(60), <1>0, <1>2, <1>3, <1>6, AppendKeepsOrder DEF OrderInv
<1>8. Announced' BY Zenon, <1>3, <1>4 DEF OrderInv, Announced
<1> QED BY Zenon, <1>7, <1>8 DEF OrderInv

LEMMA OrderForward ==
    ASSUME TypeOK, OrderInv, Forward PROVE OrderInv'
<1>0. EventType BY Zenon DEF TypeOK
<1>1. StartBeforeExit' BY Zenon, <1>0, ForwardKeepsOrder DEF OrderInv
<1>2. \A q : StartSent(q) => StartSent(q)' BY Zenon, <1>0, ForwardKeepsSent
<1>3. UNCHANGED <<wg, mu, reap, ec, pe>> BY Zenon DEF Forward
<1>4. Announced' BY Zenon, <1>2, <1>3 DEF OrderInv, Announced
<1> QED BY Zenon, <1>1, <1>4 DEF OrderInv

\* Pause, Resume and Delete send events of their own.
LEMMA OrderTask ==
    ASSUME TypeOK, OrderInv, NEW c \in Containers, Pause(c) \/ Resume(c) \/ DeleteContainer(c)
    PROVE  OrderInv'
<1>0. exit \in [Procs -> Codes] /\ c \in Procs BY Zenon, ProcFacts DEF TypeOK, TaskType
<1>1. ASSUME NEW k \in {"paused", "running", "delete"}, NEW s \in Codes
      PROVE  Event(k, c, s) \in EventSet /\ Event(k, c, s).kind # "exit"
  BY Zenon, <1>0, RecordFacts DEF Event
<1>2. ASSUME NEW f, NEW t \in {"paused", "running"}, Switch(c, f, t) PROVE OrderInv'
  <2>1. UNCHANGED <<wg, mu, reap, ec, pe, forwarded>> BY Zenon, <1>2 DEF Switch
  <2>2. UNCHANGED events \/ Send(Event(t, c, 0)) BY Zenon, <1>2 DEF Switch
  <2>3. Event(t, c, 0) \in EventSet /\ Event(t, c, 0).kind # "exit" BY Zenon, <1>1, ProcFacts
  <2>4. CASE UNCHANGED events BY Zenon, <2>1, <2>4, OrderFrame
  <2>5. CASE Send(Event(t, c, 0)) BY Zenon, <2>1, <2>3, <2>5, OrderSend
  <2> QED BY ZenonT(60), <2>2, <2>4, <2>5
<1>3. CASE DeleteContainer(c)
  <2>1. UNCHANGED <<wg, mu, reap, ec, pe, forwarded>> BY Zenon, <1>3 DEF DeleteContainer
  <2>2. UNCHANGED events \/ Send(Event("delete", c, exit[c]))
    BY Zenon, <1>3 DEF DeleteContainer, Forget
  <2>3. Event("delete", c, exit[c]) \in EventSet /\ Event("delete", c, exit[c]).kind # "exit"
    BY Zenon, <1>0, <1>1
  <2>4. CASE UNCHANGED events BY Zenon, <2>1, <2>4, OrderFrame
  <2>5. CASE Send(Event("delete", c, exit[c])) BY Zenon, <2>1, <2>3, <2>5, OrderSend
  <2> QED BY Zenon, <2>2, <2>4, <2>5
<1> QED BY Zenon, <1>2, <1>3 DEF Pause, Resume

LEMMA OrderNext == TypeOK /\ OrderInv /\ [Next]_vars => OrderInv'
<1> SUFFICES ASSUME TypeOK, OrderInv, [Next]_vars PROVE OrderInv'
  BY Zenon
<1>1. CASE ClientNext
  <2>1. ASSUME NEW e \in Execs, DeleteExec(e) PROVE OrderInv' BY Zenon, <2>1, OrderFrame DEF DeleteExec
  <2>2. ASSUME NEW p \in Procs, Kill(p) PROVE OrderInv'
    <3>1. UNCHANGED <<wg, mu, evVars>> BY Zenon, <2>2 DEF Kill
    <3> QED BY Zenon, <3>1, OrderFrame
  <2>3. ASSUME NEW w \in Waiters, NEW p \in Procs, Wait(w, p) PROVE OrderInv'
    BY Zenon, <2>3, OrderFrame DEF Wait
  <2>4. CASE KillChildren \/ Shutdown
    <3>1. UNCHANGED <<wg, mu, evVars>> BY Zenon, <2>4 DEF KillChildren, Shutdown
    <3> QED BY Zenon, <3>1, OrderFrame
  <2> QED BY ZenonT(60), <1>1, <2>1, <2>2, <2>3, <2>4, OrderCreate, OrderTask, OrderExec, OrderStart, ProcFacts
       DEF ClientNext
<1>2. CASE GuestNext
  BY Zenon, <1>2, OrderFrame DEF GuestNext, AgentDies, ProcExits
<1>3. CASE ShimNext
  <2>1. ASSUME NEW p \in Procs, IOCopyEnds(p) PROVE OrderInv' BY Zenon, <2>1, OrderFrame DEF IOCopyEnds
  <2>2. ASSUME NEW w \in Waiters, WaitRpc(w) PROVE OrderInv'
    BY ZenonT(60), <2>2, OrderFrame DEF WaitRpc, WaitRpcGetExec, WaitRpcReceive, WaitRpcRefill
  <2>3. CASE MonitorNotify \/ WatchReceive \/ WatchResetMonitor \/ WatchCleanup \/ ShutdownExit
    <3>1. UNCHANGED <<wg, mu, evVars>>
      BY ZenonT(60), <2>3 DEF MonitorNotify, WatchReceive, WatchResetMonitor, WatchCleanup, ShutdownExit
    <3> QED BY Zenon, <3>1, OrderFrame
  <2> QED BY ZenonT(60), <1>3, <2>1, <2>2, <2>3, OrderCreate, OrderStart, OrderWait, OrderReap,
          OrderCheckProcesses, OrderForward DEF ShimNext
<1>4. CASE UNCHANGED vars BY Zenon, <1>4, OrderFrame
<1> QED BY Zenon, <1>1, <1>2, <1>3, <1>4 DEF Next, Exited

\* For any number of containers, execs and waiters and any capacity of the
\* channels, no exit event of a process overtakes its start event
\* (service.go:462-466, wait.go:68, 112).
THEOREM StartPrecedesExit == Spec => []StartBeforeExit
<1>1. Init => TypeOK /\ OrderInv BY ZenonT(60), TypeInit, OrderInit
<1>2. (TypeOK /\ OrderInv) /\ [Next]_vars => (TypeOK /\ OrderInv)' BY Zenon, TypeNext, OrderNext
<1>3. OrderInv => StartBeforeExit BY Zenon DEF OrderInv
<1> QED BY <1>1, <1>2, <1>3, PTL DEF Spec

-----------------------------------------------------------------------------
(* A process gets at most one exit code, because Start and wait produce one *)
(* only for a process that has none yet; the Wait RPCs then hand it from    *)
(* one to the next.  This needs a client that starts a container once.      *)

\* The exit code of p was produced: by wait, or by a Start that failed.
Produced(p) ==
    \/ wg[p] = "done"
    \/ started[p] /\ wg[p] = "none" /\ mu # At("startfail", p)

\* Where the goroutines that produce an exit code are.
Producers ==
    /\ \A p \in Procs : wg[p] # "none" => started[p]
    /\ \A p \in Procs : mu \in {At("cancel", p), At("stop", p), At("exit", p)} => wg[p] = "locked"
    /\ \A p \in Procs : mu = At("startfail", p) => started[p] /\ wg[p] = "none"

\* There is an exit code only after it was produced, and then one.
OneCode ==
    \A p \in Procs :
        /\ exitCh[p] # NoCode \/ Refilling(p) # {} => Produced(p)
        /\ Refilling(p) # {} => exitCh[p] = NoCode
        /\ \A w1, w2 \in Refilling(p) : w1 = w2

CodeInv == Producers /\ OneCode

-----------------------------------------------------------------------------
(* At most one exit code.                                                   *)

LEMMA ExitPoint ==
    ASSUME NEW q
    PROVE  /\ At("exit", q) # Free
           /\ \A p : /\ At("create", p) # At("exit", q) /\ At("start", p) # At("exit", q)
                    /\ At("startfail", p) # At("exit", q)
                    /\ At("cancel", p) # At("exit", q) /\ At("stop", p) # At("exit", q)
<1>1. \A l, p : At(l, p).at = l BY Zenon DEF At
<1>2. Free.at = "free" BY Zenon DEF Free
<1> QED BY <1>1, <1>2

LEMMA CodeInit == Init => CodeInv
<1> SUFFICES ASSUME Init PROVE CodeInv
  BY Zenon
<1>1. \A p \in Procs : Refilling(p) = {} BY Zenon DEF Init, Refilling, Idle
<1>2. Producers BY Zenon DEF Init, Producers, At, Free
<1>3. OneCode BY Zenon, <1>1 DEF Init, OneCode
<1> QED BY Zenon, <1>2, <1>3 DEF CodeInv

\* A step that moves no producer and no exit code.
LEMMA CodeFrame ==
    ASSUME CodeInv, UNCHANGED <<wg, started, exitCh, rpc>>,
           \A p \in Procs : Locked(mu', p) => Locked(mu, p),
           \A p \in Procs : mu' = At("startfail", p) => mu = At("startfail", p)
    PROVE  CodeInv'
<1>1. Producers' BY Zenon DEF CodeInv, Producers, Locked
<1>2. \A p : Refilling(p)' = Refilling(p) BY Zenon DEF Refilling
<1>3. \A p \in Procs : Produced(p) => Produced(p)' BY Zenon DEF Produced
<1>4. OneCode' BY Zenon, <1>2, <1>3 DEF CodeInv, OneCode
<1> QED BY Zenon, <1>1, <1>4 DEF CodeInv

LEMMA CodeSameLock ==
    ASSUME CodeInv, UNCHANGED <<mu, wg, started, exitCh, rpc>>
    PROVE  CodeInv'
BY Zenon, CodeFrame

\* A wait goroutine that still has to produce the exit code moves on.
LEMMA CodeWaitStep ==
    ASSUME TypeOK, CodeInv, NEW p \in Procs, NEW f, NEW t, WaitStep(p, f, t),
           f \notin {"none", "done", "locked"}, t \notin {"none", "done"},
           UNCHANGED <<started, exitCh, rpc>>,
           mu' = mu \/ (mu = Free /\ Locked(mu', p) /\ t = "locked")
    PROVE  CodeInv'
<1>0. wg \in [Procs -> {"none", "get", "io", "check", "agent", "lock", "locked", "done", "gone"}]
  BY Zenon DEF TypeOK, WaitType
<1>1. wg[p] = f /\ wg'[p] = t /\ \A q \in Procs : q # p => wg'[q] = wg[q]
  BY Zenon, <1>0 DEF WaitStep
<1>2. \A q \in Procs : mu' = At("startfail", q) => mu = At("startfail", q) BY DEF Locked, At
<1>3. \A q \in Procs : Locked(mu', q) => Locked(mu, q) \/ (q = p /\ t = "locked")
  BY DEF Locked, At
<1>4. Producers' BY Zenon, <1>1, <1>2, <1>3 DEF CodeInv, Producers, Locked
<1>5. \A q : Refilling(q)' = Refilling(q) BY Zenon DEF Refilling
<1>6. ~Produced(p) BY Zenon, <1>1 DEF Produced
<1>7. \A q \in Procs : q # p /\ Produced(q) => Produced(q)' BY Zenon, <1>1, <1>2 DEF Produced
<1>8. OneCode' BY Zenon, <1>5, <1>6, <1>7 DEF CodeInv, OneCode
<1> QED BY Zenon, <1>4, <1>8 DEF CodeInv

\* A process that was not started has no exit code.
LEMMA FreshHasNoCode ==
    ASSUME CodeInv, NEW p \in Procs, ~started[p]
    PROVE  wg[p] = "none" /\ exitCh[p] = NoCode /\ Refilling(p) = {}
<1>1. wg[p] = "none" BY Zenon DEF CodeInv, Producers
<1>2. ~Produced(p) BY Zenon, <1>1 DEF Produced
<1> QED BY Zenon, <1>1, <1>2 DEF CodeInv, OneCode

LEMMA CodeStart ==
    ASSUME "restart" \notin ClientCalls, TypeOK, CodeInv, NEW p \in Procs,
           \/ StartSucceeds(p) \/ StartRefused(p) \/ StartFailsLate(p) \/ StartAgentFails(p)
    PROVE  CodeInv'
<1>0. /\ wg \in [Procs -> {"none", "get", "io", "check", "agent", "lock", "locked", "done", "gone"}]
      /\ started \in [Procs -> BOOLEAN]
  BY ZenonT(60) DEF TypeOK, WaitType, TaskType
<1>1. /\ ~started[p] /\ mu = Free /\ UNCHANGED <<exitCh, rpc>>
      /\ started' = [started EXCEPT ![p] = TRUE]
      /\ \/ mu' = At("start", p) /\ wg' = [wg EXCEPT ![p] = IF p \in Execs THEN "get" ELSE "io"]
         \/ mu' = At("startfail", p) /\ wg' = wg
  BY Zenon DEF StartSucceeds, StartRefused, StartFailsLate, StartAgentFails, CanStart, Serve
<1>2. wg[p] = "none" /\ exitCh[p] = NoCode /\ Refilling(p) = {} BY Zenon, <1>1, FreshHasNoCode
<1>3. /\ started'[p] /\ \A q \in Procs : q # p => started'[q] = started[q] /\ wg'[q] = wg[q]
      /\ mu' = At("startfail", p) => wg'[p] = "none"
  BY <1>0, <1>1, <1>2 DEF At
<1>4. \A q \in Procs : ~Locked(mu', q) /\ (mu' = At("startfail", q) => q = p)
  BY <1>1 DEF Locked, At
<1>5. Producers' BY Zenon, <1>3, <1>4 DEF CodeInv, Producers, Locked
<1>6. \A q : Refilling(q)' = Refilling(q) BY Zenon, <1>1 DEF Refilling
<1>7. \A q \in Procs : q # p /\ Produced(q) => Produced(q)' BY Zenon, <1>3, <1>4 DEF Produced
<1>8. OneCode' BY Zenon, <1>1, <1>2, <1>6, <1>7 DEF CodeInv, OneCode
<1> QED BY Zenon, <1>5, <1>8 DEF CodeInv

\* The two steps that produce an exit code find none.
LEMMA CodeProduced ==
    ASSUME TypeOK, CodeInv, NEW p \in Procs, WaitNotify(p) \/ NotifyStartError(p)
    PROVE  CodeInv'
<1>0. /\ wg \in [Procs -> {"none", "get", "io", "check", "agent", "lock", "locked", "done", "gone"}]
      /\ exitCh \in [Procs -> Codes \cup {NoCode}]
  BY Zenon DEF TypeOK, WaitType, TaskType
<1>1. /\ mu' = Free /\ UNCHANGED <<started, rpc>>
      /\ \A q \in Procs : q # p => wg'[q] = wg[q] /\ exitCh'[q] = exitCh[q]
      /\ \/ mu = At("exit", p) /\ wg[p] = "locked" /\ wg'[p] = "done"
         \/ mu = At("startfail", p) /\ wg'[p] = wg[p]
  BY Zenon, <1>0 DEF WaitNotify, NotifyStartError, WaitStep
<1>2. \A q \in Procs : ~Locked(mu', q) /\ mu' # At("startfail", q)
  BY Zenon, <1>1 DEF Locked, At, Free
<1>3. /\ Produced(p)' /\ ~Produced(p) /\ (wg'[p] # "none" => started[p])
  BY Zenon, <1>1, <1>2 DEF CodeInv, Producers, Produced, At
<1>4. Producers' BY ZenonT(60), <1>1, <1>2, <1>3 DEF CodeInv, Producers, Locked
<1>5. \A q : Refilling(q)' = Refilling(q) BY Zenon, <1>1 DEF Refilling
<1>6. \A q \in Procs : q # p /\ Produced(q) => Produced(q)' BY Zenon, <1>1, <1>2 DEF Produced
<1>7. Refilling(p) = {} BY ZenonT(60), <1>3 DEF CodeInv, OneCode
<1>8. OneCode' BY Zenon, <1>1, <1>3, <1>5, <1>6, <1>7 DEF CodeInv, OneCode
<1> QED BY Zenon, <1>4, <1>8 DEF CodeInv

\* The Wait RPCs hand the exit code on.
LEMMA CodeWaitRpc ==
    ASSUME TypeOK, CodeInv, NEW w \in Waiters, WaitRpc(w) \/ \E p \in Procs : Wait(w, p)
    PROVE  CodeInv'
<1>0. /\ rpc \in [Waiters -> [pc : {"idle", "get", "recv", "refill", "done", "error"},
                              p : Procs, ret : Codes \cup {NoCode}]]
      /\ exitCh \in [Procs -> Codes \cup {NoCode}] /\ rpc[w].p \in Procs
  BY Zenon DEF TypeOK, WaitType, TaskType
<1>1. UNCHANGED <<mu, wg, started>> /\ \A v \in Waiters : v # w => rpc'[v] = rpc[v]
  BY Zenon, <1>0 DEF WaitRpc, Wait, WaitRpcGetExec, WaitRpcReceive, WaitRpcRefill
<1>2. Producers' /\ \A p : Produced(p)' <=> Produced(p)
  BY Zenon, <1>1 DEF CodeInv, Producers, Produced
<1>3. CASE WaitRpcGetExec(w) \/ \E p \in Procs : Wait(w, p)
  <2>1. exitCh' = exitCh /\ rpc[w].pc # "refill" /\ rpc'[w].pc # "refill"
    BY <1>0, <1>3 DEF WaitRpcGetExec, Wait, RpcAt
  <2>2. \A p : Refilling(p)' = Refilling(p) BY Zenon, <1>1, <2>1 DEF Refilling
  <2> QED BY ZenonT(60), <1>2, <2>1, <2>2 DEF CodeInv, OneCode
<1>4. CASE WaitRpcReceive(w)
  <2>0. PICK p \in Procs : p = rpc[w].p BY Zenon, <1>0
  <2>1. /\ exitCh[p] # NoCode /\ exitCh'[p] = NoCode /\ rpc'[w].pc = "refill" /\ rpc'[w].p = p
        /\ rpc[w].pc = "recv" /\ \A q \in Procs : q # p => exitCh'[q] = exitCh[q]
    BY Zenon, <1>0, <1>4, <2>0 DEF WaitRpcReceive, RpcAt
  <2>2. Refilling(p)' = {w} \cup Refilling(p) /\ \A q \in Procs : q # p => Refilling(q)' = Refilling(q)
    BY ZenonT(60), <1>1, <2>0, <2>1 DEF Refilling
  <2>3. Refilling(p) = {} /\ Produced(p) BY Zenon, <1>0, <2>1 DEF CodeInv, OneCode
  <2> DEFINE One(q) == /\ exitCh[q] # NoCode \/ Refilling(q) # {} => Produced(q)
                       /\ Refilling(q) # {} => exitCh[q] = NoCode
                       /\ \A w1, w2 \in Refilling(q) : w1 = w2
  <2>b. One(p)' BY Zenon, <1>2, <2>1, <2>2, <2>3
  <2>c. ASSUME NEW q \in Procs, q # p PROVE One(q)'
    <3>1. One(q) BY Zenon DEF CodeInv, OneCode
    <3> QED BY ZenonT(60), <1>2, <2>1, <2>2, <2>c, <3>1
  <2>4. OneCode' BY ZenonT(60), <2>b, <2>c DEF OneCode
  <2> QED BY Zenon, <1>2, <2>4 DEF CodeInv
<1>5. CASE WaitRpcRefill(w)
  <2>0. PICK p \in Procs : p = rpc[w].p BY Zenon, <1>0
  <2>1. /\ rpc'[w].pc = "done" /\ rpc'[w].p = p /\ w \in Refilling(p)
        /\ \A q \in Procs : q # p => exitCh'[q] = exitCh[q]
    BY Zenon, <1>0, <1>5, <2>0 DEF WaitRpcRefill, RpcAt, Refilling
  <2>2. Refilling(p)' = Refilling(p) \ {w} /\ \A q \in Procs : q # p => Refilling(q)' = Refilling(q)
    BY ZenonT(60), <1>1, <2>0, <2>1 DEF Refilling
  <2>3. Refilling(p) = {w} /\ Produced(p) BY <1>0, <2>1 DEF CodeInv, OneCode
  <2> DEFINE One(q) == /\ exitCh[q] # NoCode \/ Refilling(q) # {} => Produced(q)
                       /\ Refilling(q) # {} => exitCh[q] = NoCode
                       /\ \A w1, w2 \in Refilling(q) : w1 = w2
  <2>b. One(p)' BY Zenon, <1>2, <2>1, <2>2, <2>3
  <2>c. ASSUME NEW q \in Procs, q # p PROVE One(q)'
    <3>1. One(q) BY Zenon DEF CodeInv, OneCode
    <3> QED BY ZenonT(60), <1>2, <2>1, <2>2, <2>c, <3>1
  <2>4. OneCode' BY Zenon, <2>b, <2>c DEF OneCode
  <2> QED BY Zenon, <1>2, <2>4 DEF CodeInv
<1> QED BY Zenon, <1>3, <1>4, <1>5 DEF WaitRpc

LEMMA CodeWait ==
    ASSUME TypeOK, CodeInv, NEW p \in Procs, WaitLock(p) \/ WaitGoroutine(p)
    PROVE  CodeInv'
<1>1. ASSUME WaitGetExec(p) \/ WaitIOClosed(p) \/ WaitProcess(p) \/ WaitAgent(p)
      PROVE  CodeInv'
  <2>1. UNCHANGED <<mu, started, exitCh, rpc>>
    BY Zenon, <1>1 DEF WaitGetExec, WaitIOClosed, WaitProcess, WaitAgent
  <2>2. PICK f \in {"get", "io", "check", "agent"}, t \in {"io", "gone", "check", "agent", "lock"} :
          WaitStep(p, f, t)
    BY Zenon, <1>1 DEF WaitGetExec, WaitIOClosed, WaitProcess, WaitAgent
  <2>3. f \notin {"none", "done", "locked"} /\ t \notin {"none", "done"}
    BY Zenon
  <2>4. mu' = mu \/ (mu = Free /\ Locked(mu', p) /\ t = "locked") BY Zenon, <2>1
  <2>5. UNCHANGED <<started, exitCh, rpc>> BY Zenon, <2>1
  <2> QED BY SMTT(30), <2>2, <2>3, <2>4, <2>5, CodeWaitStep
<1>5. CASE WaitLock(p)
  <2>1. Locked(mu', p) BY Zenon, <1>5 DEF WaitLock, Locked
  <2> QED BY ZenonT(60), <1>5, <2>1, CodeWaitStep DEF WaitLock
<1>6. CASE WaitCancelWatcher(p) BY Zenon, <1>6, CodeFrame DEF WaitCancelWatcher, Locked, At
<1>7. CASE WaitStop(p)
  <2>1. UNCHANGED <<wg, started, exitCh, rpc>> /\ mu = At("stop", p) /\ mu' = At("exit", p)
    BY Zenon, <1>7 DEF WaitStop
  <2> QED BY Zenon, <2>1, CodeFrame DEF Locked, At
<1>8. CASE WaitNotify(p) BY Zenon, <1>8, CodeProduced
<1> QED BY Zenon, <1>1, <1>5, <1>6, <1>7, <1>8 DEF WaitGoroutine

LEMMA CodeNext ==
    ASSUME "restart" \notin ClientCalls
    PROVE  TypeOK /\ CodeInv /\ [Next]_vars => CodeInv'
<1> SUFFICES ASSUME TypeOK, CodeInv, [Next]_vars PROVE CodeInv'
  BY Zenon
<1>1. ASSUME NEW c \in Containers, Create(c) \/ CreateNext(c) PROVE CodeInv'
  <2>1. /\ UNCHANGED <<wg, started, exitCh, rpc>>
        /\ mu' \in {mu, Free, At("create", c)}
    BY Zenon, <1>1 DEF Create, CreateNext, CreateSucceeds, CreateFails, CreateReturns, CreateTimesOut
  <2> QED BY SMTT(30), <2>1, CodeFrame DEF Locked, At, Free
<1>2. ASSUME NEW c \in Containers, Pause(c) \/ Resume(c) \/ DeleteContainer(c) PROVE CodeInv'
  <2>1. UNCHANGED <<mu, wg, started, exitCh, rpc>>
    BY Zenon, <1>2 DEF Pause, Resume, Switch, DeleteContainer
  <2> QED BY ZenonT(60), <2>1, CodeSameLock
<1>3. ASSUME NEW p \in Procs, Kill(p) \/ IOCopyEnds(p) \/ ProcExits(p) \/ SendStarted(p)
      PROVE  CodeInv'
  <2>1. UNCHANGED <<wg, started, exitCh, rpc>>
    BY ZenonT(60), <1>3 DEF Kill, IOCopyEnds, ProcExits, SendStarted
  <2>2. mu' = mu \/ mu' = Free BY ZenonT(60), <1>3 DEF Kill, IOCopyEnds, ProcExits, SendStarted
  <2>3. /\ \A q \in Procs : Locked(mu', q) => Locked(mu, q)
        /\ \A q \in Procs : mu' = At("startfail", q) => mu = At("startfail", q)
    BY <2>2, LockFacts DEF Locked
  <2> QED BY SMTT(30), <2>1, <2>3, CodeFrame
<1>4. ASSUME NEW e \in Execs, Exec(e) \/ DeleteExec(e) PROVE CodeInv'
  <2>1. UNCHANGED <<mu, wg, started, exitCh, rpc>> BY Zenon, <1>4 DEF Exec, DeleteExec
  <2> QED BY ZenonT(60), <2>1, CodeSameLock
<1>5. CASE \/ KillChildren \/ Shutdown \/ ShutdownExit \/ AgentDies \/ (\E r \in reap : Reap(r))
           \/ ProcessExits \/ CheckProcesses \/ Forward
  <2>1. UNCHANGED <<mu, wg, started, exitCh, rpc>>
    BY Zenon, <1>5 DEF KillChildren, Shutdown, ShutdownExit, AgentDies, Reap, ProcessExits, CheckProcesses, Forward
  <2> QED BY Zenon, <2>1, CodeSameLock
<1>6. CASE MonitorNotify \/ WatchReceive \/ WatchResetMonitor \/ WatchCleanup \/ UNCHANGED vars
  <2>1. UNCHANGED <<mu, wg, started, exitCh, rpc>>
    BY Zenon, <1>6 DEF MonitorNotify, WatchReceive, WatchResetMonitor, WatchCleanup
  <2> QED BY Zenon, <2>1, CodeSameLock
<1>7. CASE ClientNext
  BY ZenonT(60), <1>1, <1>2, <1>3, <1>4, <1>5, <1>7, CodeStart, CodeWaitRpc, ProcFacts DEF ClientNext
<1>8. CASE GuestNext BY Zenon, <1>3, <1>5, <1>8 DEF GuestNext
<1>9. CASE ShimNext
  BY ZenonT(60), <1>1, <1>3, <1>5, <1>6, <1>9, CodeProduced, CodeWait, CodeWaitRpc DEF ShimNext
<1> QED BY ZenonT(60), <1>6, <1>7, <1>8, <1>9 DEF Next, Exited

\* If the client starts each container once, no process ever has a second exit
\* code, whatever fails and however many Wait RPCs there are: the sends at
\* start.go:28 and wait.go:97, made under s.mu, and the refill at
\* service.go:1165 never block.
THEOREM ExitCodeIsSingle ==
    ASSUME "restart" \notin ClientCalls
    PROVE  Spec => []OneExitCode
<1>1. Init => TypeOK /\ CodeInv BY ZenonT(60), TypeInit, CodeInit
<1>2. (TypeOK /\ CodeInv) /\ [Next]_vars => (TypeOK /\ CodeInv)' BY Zenon, TypeNext, CodeNext
<1>3. CodeInv => OneExitCode
  <2> SUFFICES ASSUME CodeInv, NEW p \in Procs, mu \in {At("exit", p), At("startfail", p)}
               PROVE  exitCh[p] = NoCode /\ Refilling(p) = {}
    BY ZenonT(60) DEF CodeInv, OneCode, OneExitCode
  <2>1. ~Produced(p) BY SMTT(30) DEF CodeInv, Producers, Produced, At
  <2> QED BY Zenon, <2>1 DEF CodeInv, OneCode
<1> QED BY <1>1, <1>2, <1>3, PTL DEF Spec

-----------------------------------------------------------------------------
(* What the reports of an exit say.                                         *)

\* The answer A to "how did p end" is the recorded exit, or 255 if Start failed.
Truth(p, a) == (wg[p] = "done" /\ a = exit[p]) \/ (wg[p] = "none" /\ a = ExitCode255)

\* A report of the exit k of p is on its way or was made.
Reported(p, k) ==
    \/ [p |-> p, status |-> k] \in reap \cup {pe}
    \/ \E i \in 1..Len(ec) : ec[i] = [p |-> p, status |-> k]
    \/ \E i \in 1..Len(events) : events[i] = Event("exit", p, k)
    \/ Event("exit", p, k) \in forwarded

Answered(w) == rpc[w].pc \in {"refill", "done"}

AgreeInv ==
    /\ \A p \in Procs : wg[p] = "done" \/ mu = At("exit", p) => exit[p] = wret[p]
    /\ \A p \in Procs : exitCh[p] # NoCode => Truth(p, exitCh[p])
    /\ \A w \in Waiters : Answered(w) => started[rpc[w].p] /\ Truth(rpc[w].p, rpc[w].ret)
    /\ \A p \in Procs, k \in Codes : Reported(p, k) => wg[p] = "done" /\ k = exit[p]

-----------------------------------------------------------------------------
(* The reports agree.                                                       *)

LEMMA AgreeInit == Init => AgreeInv
<1> SUFFICES ASSUME Init PROVE AgreeInv
  BY Zenon
<1>1. \A p \in Procs, k \in Codes : ~Reported(p, k)
  BY ProcFacts DEF Init, Reported, NoExit, NoCode
<1>2. \A w \in Waiters : ~Answered(w) BY SMTT(30) DEF Init, Answered, Idle
<1> QED BY Zenon, <1>1, <1>2 DEF Init, AgreeInv, At, Free

\* A step that neither moves a wait goroutine nor an exit code, and reports no exit.
LEMMA AgreeFrame ==
    ASSUME AgreeInv, UNCHANGED <<wg, wret, exit, exitCh, rpc, started>>,
           \A p \in Procs : mu' = At("exit", p) => mu = At("exit", p),
           \A p \in Procs, k \in Codes : Reported(p, k)' => Reported(p, k)
    PROVE  AgreeInv'
<1>1. \A p, a : Truth(p, a)' <=> Truth(p, a) BY Zenon DEF Truth
<1>2. \A w : Answered(w)' <=> Answered(w) BY Zenon DEF Answered
<1> QED BY ZenonT(60), <1>1, <1>2 DEF AgreeInv

LEMMA AgreeQuiet ==
    ASSUME AgreeInv, UNCHANGED <<mu, wg, wret, exit, exitCh, rpc, started, evVars>>
    PROVE  AgreeInv'
<1>1. \A p, k : Reported(p, k)' => Reported(p, k) BY Zenon DEF Reported
<1> QED BY Zenon, <1>1, AgreeFrame

\* No step but wait's own adds to the reported exits.
LEMMA SendReportsNothing ==
    ASSUME EventType, NEW e \in EventSet, e.kind # "exit", Send(e),
           UNCHANGED <<reap, ec, pe, forwarded>>, NEW p, NEW k
    PROVE  Reported(p, k)' => Reported(p, k)
<1>1. events \in Seq(EventSet) BY Zenon DEF EventType
<1>2. /\ Len(events') = Len(events) + 1 /\ events'[Len(events) + 1] = e
      /\ \A i \in 1..Len(events) : events'[i] = events[i]
  BY <1>1 DEF Send
<1>3. \A i \in 1..Len(events') : i \in 1..Len(events) \/ i = Len(events) + 1 BY <1>1, <1>2
<1>4. e # Event("exit", p, k) BY DEF Event
<1>5. ASSUME NEW i \in 1..Len(events'), events'[i] = Event("exit", p, k)
      PROVE  i \in 1..Len(events) /\ events[i] = Event("exit", p, k)
  BY ZenonT(60), <1>2, <1>3, <1>4, <1>5
<1> QED BY Zenon, <1>5 DEF Reported

LEMMA MovingReportsNothing ==
    ASSUME EventType,
           (\E r \in reap : Reap(r)) \/ ProcessExits \/ CheckProcesses \/ Forward,
           NEW p \in Procs, NEW k \in Codes
    PROVE  Reported(p, k)' => Reported(p, k)
<1>0. ec \in Seq(Exits) /\ events \in Seq(EventSet) /\ pe \in Exits \cup {NoExit} BY Zenon DEF EventType
<1>1. ASSUME NEW r \in reap, Reap(r) PROVE Reported(p, k)' => Reported(p, k)
  <2>1. /\ reap' \subseteq reap /\ UNCHANGED <<pe, events, forwarded>>
        /\ Len(ec') = Len(ec) + 1 /\ ec'[Len(ec) + 1] = r
        /\ \A i \in 1..Len(ec) : ec'[i] = ec[i]
    BY <1>0, <1>1 DEF Reap
  <2>2. \A i \in 1..Len(ec') : i \in 1..Len(ec) \/ i = Len(ec) + 1 BY <1>0, <2>1
  <2>3. ASSUME NEW i \in 1..Len(ec'), ec'[i] = [p |-> p, status |-> k]
        PROVE  [p |-> p, status |-> k] \in reap \/ \E j \in 1..Len(ec) : ec[j] = [p |-> p, status |-> k]
    BY ZenonT(60), <2>1, <2>2, <2>3
  <2> QED BY ZenonT(60), <2>1, <2>3 DEF Reported
<1>2. CASE ProcessExits
  <2>1. /\ UNCHANGED <<reap, events, forwarded>> /\ pe' = ec[1] /\ 1 \in 1..Len(ec)
        /\ Len(ec') = Len(ec) - 1
        /\ \A i \in 1..Len(ec') : ec'[i] = ec[i + 1] /\ i + 1 \in 1..Len(ec)
    BY SMTT(30), <1>0, <1>2 DEF ProcessExits
  <2> QED BY Zenon, <2>1 DEF Reported
<1>3. CASE CheckProcesses
  <2>1. /\ UNCHANGED <<reap, ec, forwarded>> /\ pe' = NoExit /\ pe \in Exits
        /\ events' = Append(events, Event("exit", pe.p, pe.status))
    BY Zenon, <1>0, <1>3 DEF CheckProcesses, Send
  <2>2. Len(events') = Len(events) + 1 /\ events'[Len(events) + 1] = Event("exit", pe.p, pe.status)
        /\ \A i \in 1..Len(events) : events'[i] = events[i]
    BY <1>0, <2>1
  <2>3. \A i \in 1..Len(events') : i \in 1..Len(events) \/ i = Len(events) + 1 BY <1>0, <2>2
  <2>4. Event("exit", pe.p, pe.status) = Event("exit", p, k) => pe = [p |-> p, status |-> k]
    BY Zenon, <2>1 DEF Event, Exits
  <2>5. ASSUME NEW i \in 1..Len(events'), events'[i] = Event("exit", p, k)
        PROVE  \/ pe = [p |-> p, status |-> k]
               \/ \E j \in 1..Len(events) : events[j] = Event("exit", p, k)
    BY <2>2, <2>3, <2>4, <2>5
  <2>6. pe' # [p |-> p, status |-> k] BY SMTT(30), <2>1, ProcFacts, CodesAssumption DEF NoExit, NoCode, Codes, ExitCode255
  <2> QED BY ZenonT(60), <2>1, <2>5, <2>6 DEF Reported
<1>4. CASE Forward
  <2>1. /\ UNCHANGED <<reap, ec, pe>> /\ forwarded' = forwarded \cup {events[1]} /\ 1 \in 1..Len(events)
        /\ Len(events') = Len(events) - 1
        /\ \A i \in 1..Len(events') : events'[i] = events[i + 1] /\ i + 1 \in 1..Len(events)
    BY SMTT(30), <1>0, <1>4 DEF Forward
  <2> QED BY Zenon, <2>1 DEF Reported
<1> QED BY Zenon, <1>1, <1>2, <1>3, <1>4

\* What a process that was not started can have to do with the invariant: nothing.
LEMMA FreshIsSilent ==
    ASSUME TypeOK, CodeInv, AgreeInv, NEW p \in Procs, ~started[p]
    PROVE  /\ wg[p] = "none" /\ exitCh[p] = NoCode
           /\ \A w \in Waiters : Answered(w) => rpc[w].p # p
           /\ \A k \in Codes : ~Reported(p, k)
<1>1. wg[p] = "none" /\ exitCh[p] = NoCode BY SMTT(30), FreshHasNoCode
<1> QED BY ZenonT(60), <1>1 DEF AgreeInv

LEMMA AgreeStart ==
    ASSUME "restart" \notin ClientCalls, TypeOK, CodeInv, AgreeInv, NEW p \in Procs,
           \/ StartSucceeds(p) \/ StartRefused(p) \/ StartFailsLate(p) \/ StartAgentFails(p)
    PROVE  AgreeInv'
<1>0. /\ wg \in [Procs -> {"none", "get", "io", "check", "agent", "lock", "locked", "done", "gone"}]
      /\ started \in [Procs -> BOOLEAN]
  BY ZenonT(60) DEF TypeOK, WaitType, TaskType
<1>1. /\ ~started[p] /\ UNCHANGED <<exit, exitCh, rpc, wret, evVars>>
      /\ started' = [started EXCEPT ![p] = TRUE]
      /\ \/ mu' = At("start", p) /\ wg' = [wg EXCEPT ![p] = IF p \in Execs THEN "get" ELSE "io"]
         \/ mu' = At("startfail", p) /\ wg' = wg
  <2>1. CASE StartSucceeds(p) BY Zenon, <2>1 DEF StartSucceeds, CanStart, Serve
  <2>2. CASE StartRefused(p) BY Zenon, <2>2 DEF StartRefused, CanStart, Serve
  <2>3. CASE StartFailsLate(p) BY Zenon, <2>3 DEF StartFailsLate, CanStart, Serve
  <2>4. CASE StartAgentFails(p) BY Zenon, <2>4 DEF StartAgentFails, CanStart, Serve
  <2> QED BY Zenon, <2>1, <2>2, <2>3, <2>4
<1>2. /\ wg[p] = "none" /\ exitCh[p] = NoCode
      /\ \A w \in Waiters : Answered(w) => rpc[w].p # p
      /\ \A k \in Codes : ~Reported(p, k)
  BY ZenonT(60), <1>1, FreshIsSilent
<1>3. /\ \A q \in Procs : q # p => started'[q] = started[q] /\ wg'[q] = wg[q]
      /\ wg'[p] # "done" /\ \A q \in Procs : mu' # At("exit", q)
  BY ZenonT(60), <1>0, <1>1, <1>2, ExitPoint
<1>4. /\ \A w : Answered(w)' <=> Answered(w)
      /\ \A q, k : Reported(q, k)' <=> Reported(q, k)
      /\ \A q \in Procs : q # p => \A a : Truth(q, a)' <=> Truth(q, a)
  BY Zenon, <1>1, <1>3 DEF Answered, Reported, Truth
<1>5. \A w \in Waiters : rpc[w].p \in Procs BY SMTT(30) DEF TypeOK, WaitType
<1>6. \A q \in Procs : (wg[q] = "done" \/ mu = At("exit", q) => exit[q] = wret[q])'
  BY ZenonT(60), <1>1, <1>3 DEF AgreeInv
<1>7. \A q \in Procs : (exitCh[q] # NoCode => Truth(q, exitCh[q]))'
  BY ZenonT(60), <1>1, <1>2, <1>3 DEF AgreeInv, Truth
<1>8. \A w \in Waiters : (Answered(w) => started[rpc[w].p] /\ Truth(rpc[w].p, rpc[w].ret))'
  <2> TAKE w \in Waiters
  <2> SUFFICES ASSUME Answered(w)' PROVE (started[rpc[w].p] /\ Truth(rpc[w].p, rpc[w].ret))'
    BY Zenon
  <2>1. Answered(w) /\ rpc[w].p # p /\ rpc[w].p \in Procs BY Zenon, <1>2, <1>4, <1>5
  <2>2. started[rpc[w].p] /\ Truth(rpc[w].p, rpc[w].ret) BY Zenon, <2>1 DEF AgreeInv
  <2>3. started'[rpc[w].p] = started[rpc[w].p] /\ rpc' = rpc BY Zenon, <1>1, <1>3, <2>1
  <2>4. Truth(rpc[w].p, rpc[w].ret)' BY Zenon, <1>1, <1>3, <2>1, <2>2, <2>3 DEF Truth
  <2> QED BY Zenon, <2>2, <2>3, <2>4
<1>9. \A q \in Procs, k \in Codes : (Reported(q, k) => wg[q] = "done" /\ k = exit[q])'
  BY ZenonT(60), <1>1, <1>2, <1>3, <1>4 DEF AgreeInv
<1> QED BY ZenonT(60), <1>6, <1>7, <1>8, <1>9 DEF AgreeInv

\* wait goes on without the lock: ret may change, nothing is reported yet.
LEMMA AgreeWaitStep ==
    ASSUME TypeOK, CodeInv, AgreeInv, NEW p \in Procs, NEW f, NEW t, WaitStep(p, f, t),
           f \notin {"none", "done", "locked"}, t \notin {"none", "done"},
           UNCHANGED <<exit, exitCh, rpc, started, evVars>>,
           \A q \in Procs : q # p => wret'[q] = wret[q],
           \A q \in Procs : mu' = At("exit", q) => mu = At("exit", q)
    PROVE  AgreeInv'
<1>0. wg \in [Procs -> {"none", "get", "io", "check", "agent", "lock", "locked", "done", "gone"}]
  BY Zenon DEF TypeOK, WaitType
<1>1. wg[p] = f /\ wg'[p] = t /\ \A q \in Procs : q # p => wg'[q] = wg[q]
  BY SMTT(30), <1>0 DEF WaitStep
<1>2. mu # At("exit", p) BY Zenon, <1>1 DEF CodeInv, Producers
<1>3. /\ exitCh[p] = NoCode /\ \A w \in Waiters : Answered(w) => rpc[w].p # p
      /\ \A k \in Codes : ~Reported(p, k)
  <2>1. \A a : ~Truth(p, a) BY Zenon, <1>1 DEF Truth
  <2>2. exitCh[p] = NoCode BY Zenon, <2>1 DEF AgreeInv
  <2>3. \A w \in Waiters : Answered(w) => rpc[w].p # p
    <3>1. \A w \in Waiters : Answered(w) => Truth(rpc[w].p, rpc[w].ret) BY Zenon DEF AgreeInv
    <3> QED BY Zenon, <2>1, <3>1
  <2>4. \A k \in Codes : ~Reported(p, k) BY Zenon, <1>1 DEF AgreeInv
  <2> QED BY Zenon, <2>2, <2>3, <2>4
<1>4. /\ \A w : Answered(w)' <=> Answered(w)
      /\ \A q, k : Reported(q, k)' <=> Reported(q, k)
      /\ \A q \in Procs : q # p => \A a : Truth(q, a)' <=> Truth(q, a)
  BY ZenonT(60), <1>1 DEF Answered, Reported, Truth
<1>5. \A w \in Waiters : rpc[w].p \in Procs BY SMTT(30) DEF TypeOK, WaitType
<1> QED BY ZenonT(60), <1>1, <1>2, <1>3, <1>4, <1>5 DEF AgreeInv

\* The exit is recorded, then handed to the waiters and reported.
LEMMA AgreeStop ==
    ASSUME TypeOK, CodeInv, AgreeInv, NEW p \in Procs, WaitStop(p)
    PROVE  AgreeInv'
<1>0. exit \in [Procs -> Codes] /\ wret \in [Procs -> Codes] BY Zenon DEF TypeOK, TaskType, WaitType
<1>1. /\ mu = At("stop", p) /\ mu' = At("exit", p) /\ exit' = [exit EXCEPT ![p] = wret[p]]
      /\ UNCHANGED <<wg, wret, exitCh, rpc, started, evVars>>
  BY Zenon DEF WaitStop
<1>2. wg[p] = "locked" BY Zenon, <1>1 DEF CodeInv, Producers
<1>3. exit'[p] = wret[p] /\ \A q \in Procs : q # p => exit'[q] = exit[q] /\ mu' # At("exit", q)
  BY ZenonT(60), <1>0, <1>1 DEF At
<1>4. /\ exitCh[p] = NoCode /\ \A w \in Waiters : Answered(w) => rpc[w].p # p
      /\ \A k \in Codes : ~Reported(p, k)
  <2>1. \A a : ~Truth(p, a) BY Zenon, <1>2 DEF Truth
  <2>2. exitCh[p] = NoCode BY Zenon, <2>1 DEF AgreeInv
  <2>3. \A w \in Waiters : Answered(w) => rpc[w].p # p
    <3>1. \A w \in Waiters : Answered(w) => Truth(rpc[w].p, rpc[w].ret) BY Zenon DEF AgreeInv
    <3> QED BY Zenon, <2>1, <3>1
  <2>4. \A k \in Codes : ~Reported(p, k) BY Zenon, <1>2 DEF AgreeInv
  <2> QED BY Zenon, <2>2, <2>3, <2>4
<1>5. /\ \A w : Answered(w)' <=> Answered(w)
      /\ \A q, k : Reported(q, k)' <=> Reported(q, k)
      /\ \A q \in Procs : q # p => \A a : Truth(q, a)' <=> Truth(q, a)
  BY ZenonT(60), <1>1, <1>3 DEF Answered, Reported, Truth
<1>6. \A w \in Waiters : rpc[w].p \in Procs BY Zenon DEF TypeOK, WaitType
<1> QED BY ZenonT(60), <1>1, <1>3, <1>4, <1>5, <1>6 DEF AgreeInv

LEMMA AgreeNotify ==
    ASSUME TypeOK, CodeInv, AgreeInv, NEW p \in Procs, WaitNotify(p)
    PROVE  AgreeInv'
<1>0. /\ wg \in [Procs -> {"none", "get", "io", "check", "agent", "lock", "locked", "done", "gone"}]
      /\ exitCh \in [Procs -> Codes \cup {NoCode}]
  BY Zenon DEF TypeOK, WaitType, TaskType
<1>1. /\ mu = At("exit", p) /\ mu' = Free /\ wg[p] = "locked"
      /\ reap' = reap \cup {[p |-> p, status |-> wret[p]]}
      /\ UNCHANGED <<wret, exit, rpc, started, ec, pe, events, forwarded>>
  BY Zenon DEF WaitNotify, WaitStep
<1>2. /\ wg'[p] = "done" /\ exitCh'[p] = wret[p]
      /\ \A q \in Procs : q # p => wg'[q] = wg[q] /\ exitCh'[q] = exitCh[q]
  BY Zenon, <1>0 DEF WaitNotify, WaitStep
<1>3. exit[p] = wret[p] /\ \A q \in Procs : mu' # At("exit", q) BY ZenonT(60), <1>1 DEF AgreeInv, At, Free
<1>4. /\ \A w \in Waiters : Answered(w) => rpc[w].p # p
      /\ \A k \in Codes : ~Reported(p, k)
  BY ZenonT(60), <1>1 DEF AgreeInv, Truth
<1>5. \A q \in Procs, k \in Codes :
        Reported(q, k)' => Reported(q, k) \/ (q = p /\ k = wret[p])
  BY ZenonT(60), <1>1 DEF Reported
<1>6. /\ Truth(p, exitCh[p])'
      /\ \A w : Answered(w)' <=> Answered(w)
      /\ \A q \in Procs : q # p => \A a : Truth(q, a)' <=> Truth(q, a)
  <2>1. Truth(p, exitCh[p])' BY Zenon, <1>1, <1>2, <1>3 DEF Truth
  <2>2. \A w : Answered(w)' <=> Answered(w) BY Zenon, <1>1 DEF Answered
  <2>3. \A q \in Procs : q # p => \A a : Truth(q, a)' <=> Truth(q, a)
    BY Zenon, <1>1, <1>2 DEF Truth
  <2> QED BY Zenon, <2>1, <2>2, <2>3
<1>7. \A w \in Waiters : rpc[w].p \in Procs BY Zenon DEF TypeOK, WaitType
<1>8. \A q \in Procs : (wg[q] = "done" \/ mu = At("exit", q) => exit[q] = wret[q])'
  <2> TAKE q \in Procs
  <2>1. CASE q = p BY Zenon, <1>1, <1>3, <2>1
  <2>2. CASE q # p BY Zenon, <1>1, <1>2, <1>3, <2>2 DEF AgreeInv
  <2> QED BY Zenon, <2>1, <2>2
<1>9. \A q \in Procs : (exitCh[q] # NoCode => Truth(q, exitCh[q]))'
  <2> TAKE q \in Procs
  <2>1. CASE q = p BY Zenon, <1>6, <2>1
  <2>2. CASE q # p BY Zenon, <1>2, <1>6, <2>2 DEF AgreeInv
  <2> QED BY Zenon, <2>1, <2>2
<1>10. \A w \in Waiters : (Answered(w) => started[rpc[w].p] /\ Truth(rpc[w].p, rpc[w].ret))'
  <2> TAKE w \in Waiters
  <2> SUFFICES ASSUME Answered(w)' PROVE (started[rpc[w].p] /\ Truth(rpc[w].p, rpc[w].ret))'
    BY Zenon
  <2>1. Answered(w) /\ rpc[w].p # p /\ rpc[w].p \in Procs BY Zenon, <1>4, <1>6, <1>7
  <2>2. started[rpc[w].p] /\ Truth(rpc[w].p, rpc[w].ret) BY ZenonT(60), <2>1 DEF AgreeInv
  <2>3. Truth(rpc[w].p, rpc[w].ret)' <=> Truth(rpc[w].p, rpc[w].ret)
    BY Zenon, <1>1, <1>6, <2>1 DEF Truth
  <2> QED BY ZenonT(60), <1>1, <2>2, <2>3
<1>11. \A q \in Procs, k \in Codes : (Reported(q, k) => wg[q] = "done" /\ k = exit[q])'
  <2> TAKE q \in Procs, k \in Codes
  <2>1. CASE q = p BY ZenonT(60), <1>1, <1>2, <1>3, <1>4, <1>5, <2>1
  <2>2. CASE q # p BY ZenonT(60), <1>1, <1>2, <1>5, <2>2 DEF AgreeInv
  <2> QED BY Zenon, <2>1, <2>2
<1> QED BY ZenonT(60), <1>8, <1>9, <1>10, <1>11 DEF AgreeInv

LEMMA AgreeStartError ==
    ASSUME TypeOK, CodeInv, AgreeInv, NEW p \in Procs, NotifyStartError(p)
    PROVE  AgreeInv'
<1>0. exitCh \in [Procs -> Codes \cup {NoCode}] BY Zenon DEF TypeOK, TaskType
<1>1. /\ mu = At("startfail", p) /\ mu' = Free /\ exitCh'[p] = ExitCode255
      /\ UNCHANGED <<wg, wret, exit, rpc, started, evVars>>
      /\ \A q \in Procs : q # p => exitCh'[q] = exitCh[q]
  BY Zenon, <1>0 DEF NotifyStartError
<1>2. wg[p] = "none" BY ZenonT(60), <1>1 DEF CodeInv, Producers
<1>3. /\ \A w : Answered(w)' <=> Answered(w)
      /\ \A q, k : Reported(q, k)' <=> Reported(q, k)
      /\ \A q, a : Truth(q, a)' <=> Truth(q, a)
      /\ \A q \in Procs : mu' # At("exit", q)
  BY ZenonT(60), <1>1 DEF Answered, Reported, Truth, At, Free
<1> QED BY ZenonT(60), <1>1, <1>2, <1>3 DEF AgreeInv, Truth

\* A Wait RPC answers with what it found in the channel.
LEMMA AgreeWaitRpc ==
    ASSUME TypeOK, CodeInv, AgreeInv, NEW w \in Waiters,
           WaitRpc(w) \/ \E p \in Procs : Wait(w, p)
    PROVE  AgreeInv'
<1>0. /\ rpc \in [Waiters -> [pc : {"idle", "get", "recv", "refill", "done", "error"},
                              p : Procs, ret : Codes \cup {NoCode}]]
      /\ exitCh \in [Procs -> Codes \cup {NoCode}]
  BY Zenon DEF TypeOK, WaitType, TaskType
<1>1. /\ UNCHANGED <<mu, wg, wret, exit, started, evVars>>
      /\ \A v \in Waiters : v # w => rpc'[v] = rpc[v]
  BY SMTT(30), <1>0 DEF WaitRpc, Wait, WaitRpcGetExec, WaitRpcReceive, WaitRpcRefill
<1>2. /\ \A q, a : Truth(q, a)' <=> Truth(q, a)
      /\ \A q, k : Reported(q, k)' <=> Reported(q, k)
      /\ \A v \in Waiters : v # w => (Answered(v)' <=> Answered(v))
  BY ZenonT(60), <1>1 DEF Truth, Reported, Answered
<1>3. /\ \A q \in Procs : exitCh'[q] # NoCode => Truth(q, exitCh'[q])
      /\ Answered(w)' => started[rpc'[w].p] /\ Truth(rpc'[w].p, rpc'[w].ret)
  <2>1. CASE WaitRpcGetExec(w) \/ \E p \in Procs : Wait(w, p)
    BY SMTT(30), <1>0, <2>1 DEF WaitRpcGetExec, Wait, RpcAt, Answered, AgreeInv
  <2>2. CASE WaitRpcReceive(w)
    <3>0. PICK p \in Procs : p = rpc[w].p BY Zenon, <1>0
    <3>1. /\ exitCh[p] # NoCode /\ exitCh'[p] = NoCode /\ rpc'[w].p = p /\ rpc'[w].ret = exitCh[p]
          /\ \A q \in Procs : q # p => exitCh'[q] = exitCh[q]
      BY SMTT(30), <1>0, <2>2, <3>0 DEF WaitRpcReceive, RpcAt
    <3>2. Truth(p, exitCh[p]) /\ started[p]
      BY ZenonT(60), <3>1 DEF AgreeInv, CodeInv, OneCode, Produced, Producers
    <3> QED BY Zenon, <3>1, <3>2 DEF AgreeInv
  <2>3. CASE WaitRpcRefill(w)
    <3>0. PICK p \in Procs : p = rpc[w].p BY Zenon, <1>0
    <3>1. /\ Answered(w) /\ exitCh'[p] = rpc[w].ret /\ rpc'[w].p = p /\ rpc'[w].ret = rpc[w].ret
          /\ \A q \in Procs : q # p => exitCh'[q] = exitCh[q]
      BY SMTT(30), <1>0, <2>3, <3>0 DEF WaitRpcRefill, RpcAt, Answered
    <3>2. Truth(p, rpc[w].ret) /\ started[p] BY ZenonT(60), <3>0, <3>1 DEF AgreeInv
    <3> QED BY ZenonT(60), <3>1, <3>2 DEF AgreeInv
  <2> QED BY ZenonT(60), <2>1, <2>2, <2>3 DEF WaitRpc
<1> QED BY ZenonT(60), <1>1, <1>2, <1>3 DEF AgreeInv

LEMMA AgreeWait ==
    ASSUME TypeOK, CodeInv, AgreeInv, NEW p \in Procs, WaitLock(p) \/ WaitGoroutine(p)
    PROVE  AgreeInv'
<1>0. wret \in [Procs -> Codes] BY SMTT(30) DEF TypeOK, WaitType
<1>1. ASSUME WaitGetExec(p) \/ WaitIOClosed(p) \/ WaitProcess(p) \/ WaitAgent(p) \/ WaitLock(p)
      PROVE  AgreeInv'
  <2>1. UNCHANGED <<exit, exitCh, rpc, started, evVars>>
    BY ZenonT(60), <1>1 DEF WaitGetExec, WaitIOClosed, WaitProcess, WaitAgent, WaitLock
  <2>2. PICK f \in {"get", "io", "check", "agent", "lock"},
             t \in {"io", "gone", "check", "agent", "lock", "locked"} : WaitStep(p, f, t)
    BY Zenon, <1>1 DEF WaitGetExec, WaitIOClosed, WaitProcess, WaitAgent, WaitLock
  <2>3. f \notin {"none", "done", "locked"} /\ t \notin {"none", "done"}
    BY SMTT(30)
  <2>4. \A q \in Procs : q # p => wret'[q] = wret[q]
    BY ZenonT(60), <1>0, <1>1 DEF WaitGetExec, WaitIOClosed, WaitProcess, WaitAgent, WaitLock
  <2>5. \A q \in Procs : mu' = At("exit", q) => mu = At("exit", q)
    BY ZenonT(60), <1>1, ExitPoint DEF WaitGetExec, WaitIOClosed, WaitProcess, WaitAgent, WaitLock
  <2> QED BY ZenonT(60), <2>1, <2>2, <2>3, <2>4, <2>5, AgreeWaitStep
<1>2. CASE WaitCancelWatcher(p)
  <2>1. /\ UNCHANGED <<wg, wret, exit, exitCh, rpc, started, evVars>>
        /\ \A q \in Procs : mu' = At("exit", q) => mu = At("exit", q)
    BY SMTT(30), <1>2 DEF WaitCancelWatcher, At
  <2>2. \A q, k : Reported(q, k)' => Reported(q, k) BY ZenonT(60), <2>1 DEF Reported
  <2> QED BY Zenon, <2>1, <2>2, AgreeFrame
<1> QED BY Zenon, <1>1, <1>2, AgreeStop, AgreeNotify DEF WaitGoroutine

LEMMA AgreeNext ==
    ASSUME "restart" \notin ClientCalls
    PROVE  TypeOK /\ CodeInv /\ AgreeInv /\ [Next]_vars => AgreeInv'
<1> SUFFICES ASSUME TypeOK, CodeInv, AgreeInv, [Next]_vars PROVE AgreeInv'
  BY Zenon
<1>0. EventType /\ exit \in [Procs -> Codes] BY Zenon DEF TypeOK, TaskType
<1>a. ASSUME NEW p \in Procs, NEW k \in {"create", "start", "paused", "running", "delete"},
             NEW c \in Codes, Send(Event(k, p, c)), UNCHANGED <<reap, ec, pe, forwarded>>
      PROVE  \A q, i : Reported(q, i)' => Reported(q, i)
  <2>1. Event(k, p, c) \in EventSet /\ Event(k, p, c).kind # "exit"
    BY SMTT(30), RecordFacts DEF Event
  <2> QED BY ZenonT(60), <1>0, <1>a, <2>1, SendReportsNothing
<1>b. ASSUME UNCHANGED evVars PROVE \A q, i : Reported(q, i)' => Reported(q, i)
  BY ZenonT(60), <1>b DEF Reported
<1>1. ASSUME NEW c \in Containers, Create(c) \/ CreateNext(c) PROVE AgreeInv'
  <2>1. /\ UNCHANGED <<wg, wret, exit, exitCh, rpc, started, reap, ec, pe, forwarded>>
        /\ UNCHANGED events \/ Send(Event("create", c, 0))
    BY ZenonT(60), <1>1 DEF Create, CreateNext, CreateSucceeds, CreateFails, CreateReturns, CreateTimesOut
  <2>2. \A q \in Procs : mu' = At("exit", q) => mu = At("exit", q)
    BY ZenonT(60), <1>1, ExitPoint
       DEF Create, CreateNext, CreateSucceeds, CreateFails, CreateReturns, CreateTimesOut
  <2>3. \A q, i : Reported(q, i)' => Reported(q, i) BY Zenon, <1>a, <1>b, <2>1, ProcFacts
  <2> QED BY SMTT(30), <2>1, <2>2, <2>3, AgreeFrame
<1>2. ASSUME NEW c \in Containers, Pause(c) \/ Resume(c) \/ DeleteContainer(c) PROVE AgreeInv'
  <2>1. UNCHANGED <<mu, wg, wret, exit, exitCh, rpc, started, reap, ec, pe, forwarded>>
    BY SMTT(30), <1>2 DEF Pause, Resume, Switch, DeleteContainer
  <2>2. \/ UNCHANGED events \/ Send(Event("paused", c, 0)) \/ Send(Event("running", c, 0))
        \/ Send(Event("delete", c, exit[c]))
    BY Zenon, <1>2 DEF Pause, Resume, Switch, DeleteContainer, Forget
  <2>3. c \in Procs /\ exit[c] \in Codes /\ 0 \in Codes BY Zenon, <1>0, ProcFacts
  <2>4. \A q, i : Reported(q, i)' => Reported(q, i)
    <3>1. CASE UNCHANGED events BY Zenon, <1>b, <2>1, <3>1
    <3>2. CASE Send(Event("paused", c, 0)) BY Zenon, <1>a, <2>1, <2>3, <3>2
    <3>3. CASE Send(Event("running", c, 0)) BY Zenon, <1>a, <2>1, <2>3, <3>3
    <3>4. CASE Send(Event("delete", c, exit[c])) BY ZenonT(60), <1>a, <2>1, <2>3, <3>4
    <3> QED BY Zenon, <2>2, <3>1, <3>2, <3>3, <3>4
  <2> QED BY ZenonT(60), <2>1, <2>4, AgreeFrame
<1>3. ASSUME NEW p \in Procs, Kill(p) \/ IOCopyEnds(p) \/ ProcExits(p) PROVE AgreeInv'
  <2>1. UNCHANGED <<mu, wg, wret, exit, exitCh, rpc, started, evVars>>
    BY ZenonT(60), <1>3 DEF Kill, IOCopyEnds, ProcExits
  <2> QED BY SMTT(30), <2>1, AgreeQuiet
<1>4. ASSUME NEW p \in Procs, SendStarted(p) \/ (p \in Execs /\ Exec(p)) PROVE AgreeInv'
  <2>1. /\ UNCHANGED <<wg, wret, exit, exitCh, rpc, started, reap, ec, pe, forwarded>>
        /\ Send(Event("start", p, 0)) \/ Send(Event("create", p, 0))
        /\ mu' = mu \/ mu' = Free
    BY ZenonT(60), <1>4 DEF SendStarted, Exec
  <2>2. \A q \in Procs : mu' = At("exit", q) => mu = At("exit", q) BY Zenon, <2>1, ExitPoint
  <2>3. \A q, i : Reported(q, i)' => Reported(q, i) BY Zenon, <1>a, <2>1, ProcFacts
  <2> QED BY SMTT(30), <2>1, <2>2, <2>3, AgreeFrame
<1>5. ASSUME NEW e \in Execs, DeleteExec(e) PROVE AgreeInv' BY ZenonT(60), <1>5, AgreeQuiet DEF DeleteExec
<1>6. CASE (\E r \in reap : Reap(r)) \/ ProcessExits \/ CheckProcesses \/ Forward
  <2>1. UNCHANGED <<mu, wg, wret, exit, exitCh, rpc, started>>
    BY Zenon, <1>6 DEF Reap, ProcessExits, CheckProcesses, Forward
  <2>2. \A q \in Procs, k \in Codes : Reported(q, k)' => Reported(q, k)
    BY Zenon, <1>0, <1>6, MovingReportsNothing
  <2> QED BY SMTT(30), <2>1, <2>2, AgreeFrame
<1>7. CASE \/ KillChildren \/ Shutdown \/ ShutdownExit \/ AgentDies \/ MonitorNotify \/ WatchReceive
           \/ WatchResetMonitor \/ WatchCleanup \/ UNCHANGED vars
  <2>1. UNCHANGED <<mu, wg, wret, exit, exitCh, rpc, started, evVars>>
    BY Zenon, <1>7 DEF KillChildren, Shutdown, ShutdownExit, AgentDies, MonitorNotify, WatchReceive,
       WatchResetMonitor, WatchCleanup
  <2> QED BY Zenon, <2>1, AgreeQuiet
<1>8. CASE ClientNext
  BY ZenonT(60), <1>1, <1>2, <1>3, <1>4, <1>5, <1>7, <1>8, AgreeStart, AgreeWaitRpc, ProcFacts
     DEF ClientNext
<1>9. CASE GuestNext BY Zenon, <1>3, <1>7, <1>9 DEF GuestNext
<1>10. CASE ShimNext
  BY ZenonT(60), <1>1, <1>3, <1>4, <1>6, <1>7, <1>10, AgreeStartError, AgreeWait, AgreeWaitRpc
     DEF ShimNext
<1> QED BY ZenonT(60), <1>7, <1>8, <1>9, <1>10 DEF Next, Exited

\* If the client starts each container once, every Wait RPC, the recorded exit
\* status and every exit event of a process tell the same exit code, or, when
\* Start failed, every Wait RPC tells 255 and there is no exit event
\* (service.go:1160-1166, wait.go:93-112, start.go:25-30).
THEOREM ReportsAgree ==
    ASSUME "restart" \notin ClientCalls
    PROVE  Spec => []ExitReportsAgree
<1>1. Init => TypeOK /\ CodeInv /\ AgreeInv BY ZenonT(60), TypeInit, CodeInit, AgreeInit
<1>2. (TypeOK /\ CodeInv /\ AgreeInv) /\ [Next]_vars => (TypeOK /\ CodeInv /\ AgreeInv)'
  BY SMTT(30), TypeNext, CodeNext, AgreeNext
<1>3. AgreeInv => ExitReportsAgree
  <2> SUFFICES ASSUME AgreeInv, NEW p \in Procs
               PROVE  /\ \A w \in Waiters : rpc[w].p = p /\ Answered(w) => Truth(p, rpc[w].ret)
                      /\ \A k \in Codes : Reported(p, k) => wg[p] = "done" /\ k = exit[p]
    BY Zenon DEF ExitReportsAgree, Reported, Answered, Truth
  <2> QED BY Zenon DEF AgreeInv
<1> QED BY <1>1, <1>2, <1>3, PTL DEF Spec

=============================================================================
