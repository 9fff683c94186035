-------------------------- MODULE ShimStateProofs --------------------------
(***************************************************************************)
(* What the shim records about a container or an exec against what         *)
(* virtcontainers and the guest know: the cached status is not ahead of    *)
(* the state of the container, a container recorded as stopped can be      *)
(* deleted, and a recorded exit code is that of the guest process.         *)
(***************************************************************************)
EXTENDS ShimServiceProofs

USE DEF vars, taskVars, waitVars, evVars, vcVars, monVars

\* A container is new until its creation has been answered; the agent is gone
\* for good once the sandbox was stopped; wait holds the lock at its own points.
LifeInv ==
    /\ sbox = "stopped" => agent = "dead"
    /\ \A c \in Containers : create[c] # "done" =>
          c \notin reg /\ status[c] = "new" /\ wg[c] = "none"
    /\ \A p \in Procs : Locked(mu, p) => wg[p] = "locked"

\* The steps that touch nothing these invariants speak of.
Quiet == UNCHANGED <<mu, create, reg, status, exit, started, wg, wret, sbox, vcs, agent, proc, code>>

QuietStep ==
    \/ \E p \in Procs : IOCopyEnds(p)
    \/ \E w \in Waiters : WaitRpc(w) \/ \E p \in Procs : Wait(w, p)
    \/ \E r \in reap : Reap(r)
    \/ ProcessExits \/ CheckProcesses \/ Forward
    \/ MonitorNotify \/ WatchReceive \/ WatchResetMonitor \/ Shutdown \/ ShutdownExit
    \/ UNCHANGED vars

LEMMA QuietSteps == QuietStep => Quiet
<1>1. ASSUME NEW p \in Procs, IOCopyEnds(p) PROVE Quiet BY Zenon, <1>1 DEF IOCopyEnds, Quiet
<1>2. ASSUME NEW w \in Waiters, WaitRpc(w) PROVE Quiet
  BY Zenon, <1>2 DEF WaitRpc, WaitRpcGetExec, WaitRpcReceive, WaitRpcRefill, Quiet
<1>3. ASSUME NEW w \in Waiters, NEW p \in Procs, Wait(w, p) PROVE Quiet BY Zenon, <1>3 DEF Wait, Quiet
<1>4. ASSUME NEW r \in reap, Reap(r) PROVE Quiet BY Zenon, <1>4 DEF Reap, Quiet
<1>5. ProcessExits \/ CheckProcesses \/ Forward => Quiet
  BY Zenon DEF ProcessExits, CheckProcesses, Forward, Quiet
<1>6. MonitorNotify \/ WatchReceive \/ WatchResetMonitor => Quiet
  BY Zenon DEF MonitorNotify, WatchReceive, WatchResetMonitor, Quiet
<1>7. Shutdown \/ ShutdownExit \/ UNCHANGED vars => Quiet BY Zenon DEF Shutdown, ShutdownExit, Quiet
<1> QED BY Zenon, <1>1, <1>2, <1>3, <1>4, <1>5, <1>6, <1>7 DEF QuietStep

\* The others, each on its own.
LoudStep ==
    \/ \E c \in Containers :
          \/ Create(c) \/ CreateNext(c) \/ Pause(c) \/ Resume(c) \/ DeleteContainer(c)
          \/ StartAgentFails(c)
    \/ \E e \in Execs : Exec(e) \/ DeleteExec(e)
    \/ \E p \in Procs :
          \/ StartSucceeds(p) \/ StartRefused(p) \/ StartFailsLate(p)
          \/ SendStarted(p) \/ NotifyStartError(p) \/ Kill(p) \/ ProcExits(p)
          \/ WaitLock(p) \/ WaitGoroutine(p)
    \/ KillChildren \/ AgentDies \/ WatchCleanup

LEMMA Steps == [Next]_vars => QuietStep \/ LoudStep
<1>1. ClientNext => QuietStep \/ LoudStep BY Zenon DEF ClientNext, QuietStep, LoudStep
<1>2. GuestNext => QuietStep \/ LoudStep BY Zenon DEF GuestNext, LoudStep
<1>3. ShimNext => QuietStep \/ LoudStep BY Zenon DEF ShimNext, QuietStep, LoudStep
<1>4. Exited => QuietStep BY Zenon DEF Exited, QuietStep
<1>5. UNCHANGED vars => QuietStep BY Zenon DEF QuietStep
<1> QED BY Zenon, <1>1, <1>2, <1>3, <1>4, <1>5 DEF Next

-----------------------------------------------------------------------------
(* Creation, the end of the agent, and the lock.                            *)

\* Everybody else who holds the lock, or nobody.
LEMMA NotLocked ==
    \A q : /\ ~Locked(Free, q)
           /\ \A p : ~Locked(At("create", p), q) /\ ~Locked(At("start", p), q) /\ ~Locked(At("startfail", p), q)
BY ZenonT(40), LockFacts DEF Locked

LEMMA LifeInit == Init => LifeInv
<1> SUFFICES ASSUME Init PROVE LifeInv OBVIOUS
<1>1. sbox = "nil" /\ mu = Free /\ reg = {} BY Zenon DEF Init
<1>2. \A c \in Containers : status[c] = "new" /\ wg[c] = "none" BY Zenon, ProcFacts DEF Init
<1> QED BY Zenon, <1>1, <1>2, NotLocked DEF LifeInv

LEMMA LifeCreate ==
    ASSUME TypeOK, LifeInv, NEW c \in Containers, Create(c) \/ CreateNext(c)
    PROVE  LifeInv'
<1>1. UNCHANGED <<wg, agent>> /\ (sbox' = sbox \/ sbox' = "ready")
  BY Zenon DEF Create, CreateNext, CreateSucceeds, CreateFails, CreateReturns, CreateTimesOut
<1>2. \A q \in Procs : Locked(mu', q) => Locked(mu, q)
  <2>1. mu' \in {mu, Free, At("create", c)}
    BY Zenon DEF Create, CreateNext, CreateSucceeds, CreateFails, CreateReturns, CreateTimesOut
  <2> QED BY Zenon, <2>1, NotLocked
<1>3. \A d \in Containers : create'[d] # "done" => /\ create[d] # "done"
                                                  /\ status'[d] = status[d] /\ (d \in reg' => d \in reg)
  <2>1. CASE Create(c) \/ CreateSucceeds(c) \/ CreateFails(c)
    <3>1. create[c] # "done" /\ UNCHANGED <<status, reg>>
      BY Zenon, <2>1 DEF Create, CreateSucceeds, CreateFails
    <3>2. \A d \in Containers : d # c => create'[d] = create[d]
      BY Zenon, <2>1 DEF Create, CreateSucceeds, CreateFails, TypeOK, ShimType
    <3> QED BY Zenon, <3>1, <3>2
  <2>2. CASE CreateReturns(c)
    <3>1. \A d \in Containers : create'[d] = IF d = c THEN "done" ELSE create[d]
      BY <2>2 DEF CreateReturns, TypeOK, ShimType
    <3>2. /\ \A d \in Containers \ {c} : status'[d] = status[d]
          /\ reg' \in {reg, reg \cup {c}}
      BY <2>2, ProcFacts DEF CreateReturns, TypeOK, TaskType
    <3> QED BY ZenonT(40), <3>1, <3>2
  <2>3. CASE CreateTimesOut(c) BY Zenon, <2>3 DEF CreateTimesOut
  <2> QED BY Zenon, <2>1, <2>2, <2>3 DEF CreateNext
<1> QED BY Zenon, <1>1, <1>2, <1>3 DEF LifeInv

LEMMA LifeStart ==
    ASSUME TypeOK, LifeInv, NEW p \in Procs, StartSucceeds(p) \/ StartRefused(p) \/ StartFailsLate(p)
    PROVE  LifeInv'
<1>1. UNCHANGED <<create, reg, agent>> /\ p \in reg
  BY Zenon DEF StartSucceeds, StartRefused, StartFailsLate, CanStart
<1>2. sbox' = sbox \/ sbox' = "running" BY Zenon DEF StartSucceeds, StartRefused, StartFailsLate
<1>3. mu' \in {At("start", p), At("startfail", p)}
  BY Zenon DEF StartSucceeds, StartRefused, StartFailsLate
<1>4. \A q \in Procs \ {p} : status'[q] = status[q] /\ wg'[q] = wg[q]
  <2>1. status' \in {status, [status EXCEPT ![p] = "running"]}
    BY Zenon DEF StartSucceeds, StartRefused, StartFailsLate
  <2>2. wg' = wg \/ \E l : wg' = [wg EXCEPT ![p] = l]
    BY Zenon DEF StartSucceeds, StartRefused, StartFailsLate
  <2> QED BY Zenon, <2>1, <2>2 DEF TypeOK, TaskType, WaitType
<1>5. ASSUME NEW c \in Containers, create'[c] # "done"
      PROVE  c \notin reg' /\ status'[c] = "new" /\ wg'[c] = "none"
  <2>1. c # p /\ c \in Procs BY Zenon, <1>1, <1>5, ProcFacts DEF LifeInv
  <2> QED BY Zenon, <1>1, <1>4, <1>5, <2>1 DEF LifeInv
<1>6. \A q : ~Locked(mu', q) BY Zenon, <1>3, NotLocked
<1> QED BY Zenon, <1>1, <1>2, <1>5, <1>6 DEF LifeInv

\* The steps of a wait goroutine; its last steps before the exit is known hold the lock.
LEMMA LifeWait ==
    ASSUME TypeOK, LifeInv, NEW p \in Procs, WaitLock(p) \/ WaitGoroutine(p)
    PROVE  LifeInv'
<1>1. wg[p] # "none"
  <2>1. CASE mu \in {At("cancel", p), At("stop", p)} BY Zenon, <2>1 DEF LifeInv, Locked
  <2>2. CASE mu \notin {At("cancel", p), At("stop", p)}
    BY Zenon, <2>2 DEF WaitLock, WaitGoroutine, WaitGetExec, WaitIOClosed, WaitProcess, WaitAgent,
       WaitCancelWatcher, WaitStop, WaitNotify, WaitStep
  <2> QED BY Zenon, <2>1, <2>2
<1>2. UNCHANGED <<create, reg>> /\ (p \in Containers => create[p] = "done")
  BY Zenon, <1>1 DEF LifeInv, WaitLock, WaitGoroutine, WaitGetExec, WaitIOClosed, WaitProcess, WaitAgent,
     WaitCancelWatcher, WaitStop, WaitNotify
<1>3. \A q \in Procs \ {p} : status'[q] = status[q] /\ wg'[q] = wg[q]
  <2>1. status' \in {status, [status EXCEPT ![p] = "stopped"]}
    BY Zenon DEF WaitLock, WaitGoroutine, WaitGetExec, WaitIOClosed, WaitProcess, WaitAgent,
       WaitCancelWatcher, WaitStop, WaitNotify
  <2>2. wg' = wg \/ \E l : wg' = [wg EXCEPT ![p] = l]
    BY Zenon DEF WaitLock, WaitGoroutine, WaitGetExec, WaitIOClosed, WaitProcess, WaitAgent,
       WaitCancelWatcher, WaitStop, WaitNotify, WaitStep
  <2> QED BY Zenon, <2>1, <2>2 DEF TypeOK, TaskType, WaitType
<1>4. \A q \in Procs : Locked(mu', q) => wg'[q] = "locked"
  <2>1. CASE WaitGetExec(p) \/ WaitIOClosed(p) \/ WaitProcess(p) \/ WaitAgent(p)
    <3>1. mu' = mu /\ wg[p] # "locked"
      BY Zenon, <2>1 DEF WaitGetExec, WaitIOClosed, WaitProcess, WaitAgent, WaitStep
    <3> QED BY Zenon, <1>3, <3>1 DEF LifeInv
  <2>2. CASE WaitLock(p)
    <3>1. wg'[p] = "locked" BY Zenon, <2>2 DEF WaitLock, WaitStep, TypeOK, WaitType
    <3>2. \E l : mu' = At(l, p) BY Zenon, <2>2 DEF WaitLock
    <3>3. \A q : Locked(mu', q) => q = p BY Zenon, <3>2, LockFacts DEF Locked
    <3> QED BY Zenon, <3>1, <3>3
  <2>3. CASE WaitCancelWatcher(p) \/ WaitStop(p)
    <3>1. UNCHANGED wg /\ Locked(mu, p) BY Zenon, <2>3 DEF WaitCancelWatcher, WaitStop, Locked
    <3>2. \E l : mu' = At(l, p) BY Zenon, <2>3 DEF WaitCancelWatcher, WaitStop
    <3>3. \A q : Locked(mu', q) => q = p BY Zenon, <3>2, LockFacts DEF Locked
    <3> QED BY Zenon, <3>1, <3>3 DEF LifeInv
  <2>4. CASE WaitNotify(p) BY Zenon, <2>4, NotLocked DEF WaitNotify
  <2> QED BY Zenon, <2>1, <2>2, <2>3, <2>4 DEF WaitGoroutine
<1>5. sbox' = "stopped" => agent' = "dead"
  BY Zenon DEF LifeInv, WaitLock, WaitGoroutine, WaitGetExec, WaitIOClosed, WaitProcess, WaitAgent,
     WaitCancelWatcher, WaitStop, WaitNotify, StopAndDelete, Procs, Containers
<1>6. ASSUME NEW c \in Containers, create'[c] # "done"
      PROVE  c \notin reg' /\ status'[c] = "new" /\ wg'[c] = "none"
  <2>1. c # p /\ c \in Procs BY Zenon, <1>2, <1>6, ProcFacts
  <2> QED BY Zenon, <1>2, <1>3, <1>6, <2>1 DEF LifeInv
<1> QED BY Zenon, <1>4, <1>5, <1>6 DEF LifeInv

LEMMA LifeNext == TypeOK /\ LifeInv /\ [Next]_vars => LifeInv'
<1> SUFFICES ASSUME TypeOK, LifeInv, [Next]_vars PROVE LifeInv' OBVIOUS
<1>1. Quiet => LifeInv' BY Zenon DEF Quiet, LifeInv
<1>2. ASSUME NEW c \in Containers, Pause(c) \/ Resume(c) PROVE LifeInv'
  <2>1. UNCHANGED <<mu, create, reg, wg, sbox, agent>> /\ c \in reg
    BY Zenon, <1>2 DEF Pause, Resume, Switch
  <2>2. \A d \in Containers \ {c} : status'[d] = status[d]
    BY Zenon, <1>2, ProcFacts DEF Pause, Resume, Switch, TypeOK, TaskType
  <2> QED BY Zenon, <2>1, <2>2 DEF LifeInv
<1>3. ASSUME NEW c \in Containers, DeleteContainer(c) PROVE LifeInv'
  <2>1. UNCHANGED <<mu, create, status, wg, sbox, agent>> BY Zenon, <1>3 DEF DeleteContainer
  <2>2. reg' = reg \/ reg' = reg \ {c} BY Zenon, <1>3 DEF DeleteContainer, Forget
  <2>3. \A d : d \in reg' => d \in reg BY Zenon, <2>2
  <2> QED BY Zenon, <2>1, <2>3 DEF LifeInv
<1>4. ASSUME NEW c \in Containers, StartAgentFails(c) PROVE LifeInv'
  <2>1. UNCHANGED <<create, reg, status, wg, sbox, agent>> /\ mu' = At("startfail", c)
    BY Zenon, <1>4 DEF StartAgentFails
  <2> QED BY Zenon, <2>1, NotLocked DEF LifeInv
<1>5. ASSUME NEW e \in Execs, Exec(e) \/ DeleteExec(e) PROVE LifeInv'
  <2>0. e \notin Containers /\ e \in Procs BY Zenon, ProcFacts, ProcsAssumption
  <2>1. UNCHANGED <<mu, create, wg, sbox, agent>> BY ZenonT(40), <1>5 DEF Exec, DeleteExec
  <2>2. \A d \in Containers : status'[d] = status[d]
    BY Zenon, <1>5, <2>0, ProcFacts DEF Exec, DeleteExec, TypeOK, TaskType
  <2>3. reg' = reg \cup {e} \/ reg' = reg \ {e} BY Zenon, <1>5 DEF Exec, DeleteExec
  <2>4. \A d \in Containers : d \in reg' => d \in reg BY Zenon, <2>0, <2>3
  <2> QED BY Zenon, <2>1, <2>2, <2>4 DEF LifeInv
<1>6. ASSUME NEW p \in Procs, SendStarted(p) \/ NotifyStartError(p) PROVE LifeInv'
  <2>1. UNCHANGED <<create, reg, status, wg, sbox, agent>> /\ mu' = Free
    BY Zenon, <1>6 DEF SendStarted, NotifyStartError
  <2> QED BY Zenon, <2>1, NotLocked DEF LifeInv
<1>7. ASSUME NEW p \in Procs, Kill(p) \/ ProcExits(p) PROVE LifeInv'
  <2>1. UNCHANGED <<mu, create, reg, status, wg, sbox, agent>> BY Zenon, <1>7 DEF Kill, ProcExits
  <2> QED BY Zenon, <2>1 DEF LifeInv
<1>8. CASE KillChildren \/ AgentDies \/ WatchCleanup
  <2>1. UNCHANGED <<mu, create, reg, status, wg>> BY Zenon, <1>8 DEF KillChildren, AgentDies, WatchCleanup
  <2>2. sbox' = "stopped" => agent' = "dead"
    BY Zenon, <1>8 DEF KillChildren, AgentDies, WatchCleanup, StopAndDelete, LifeInv
  <2> QED BY Zenon, <2>1, <2>2 DEF LifeInv
<1>9. QuietStep => LifeInv' BY Zenon, <1>1, QuietSteps
<1>10. LoudStep => LifeInv'
  BY Zenon, <1>2, <1>3, <1>4, <1>5, <1>6, <1>7, <1>8, LifeCreate, LifeStart, LifeWait DEF LoudStep
<1> QED BY Zenon, <1>9, <1>10, Steps

-----------------------------------------------------------------------------
(* The cached status is not ahead.                                          *)

Tracks(c) ==
    c \in reg /\ sbox # "stopped" =>
        /\ status[c] = "running" => vcs[c] = "running"
        /\ status[c] = "paused" => vcs[c] = "paused"

StatusInv ==
    /\ \A c \in Containers : Tracks(c)
    /\ sbox \in {"ready", "running"} => vcs[Sandbox] # "none"

\* What a stop of the whole sandbox leaves behind when nothing fails in it.
LEMMA CleanStop == ASSUME "stop" \notin Faults, StopAndDelete
                   PROVE  sbox' = "stopped" /\ agent' = "dead" /\ \A c \in Containers : vcs'[c] = "none"
BY Zenon DEF StopAndDelete

\* The containers a Start sets running could be started.
LEMMA StartSetFacts ==
    ASSUME TypeOK, NEW p \in Procs, StartPre(p)
    PROVE  /\ \A d \in StartSet(p) : d \in Containers /\ Startable(d)
           /\ p = Sandbox => StartSet(p) = Live
           /\ p \in Apps => StartSet(p) = {p}
           /\ p \in Execs => StartSet(p) = {}
<1>1. CASE p = Sandbox
  <2>1. p \notin Apps /\ p \notin Execs BY Zenon, <1>1, ProcsAssumption DEF Containers
  <2>2. StartSet(p) = Live BY Zenon, <1>1, <2>1 DEF StartSet
  <2>3. \A c \in Live : Startable(c) BY Zenon, <1>1, <2>1 DEF StartPre
  <2> QED BY Zenon, <1>1, <2>1, <2>2, <2>3 DEF Live
<1>2. CASE p \in Apps
  <2>1. p # Sandbox /\ p \notin Execs /\ p \in Containers BY Zenon, <1>2, ProcsAssumption DEF Containers
  <2>2. StartSet(p) = {p} BY Zenon, <1>2, <2>1 DEF StartSet
  <2>3. Startable(p) BY Zenon, <1>2, <2>1 DEF StartPre
  <2> QED BY Zenon, <1>2, <2>1, <2>2, <2>3
<1>3. CASE p \in Execs
  <2>1. p # Sandbox /\ p \notin Apps BY Zenon, <1>3, ProcsAssumption DEF Containers
  <2>2. StartSet(p) = {} BY Zenon, <1>3, <2>1 DEF StartSet
  <2> QED BY Zenon, <1>3, <2>1, <2>2
<1> QED BY Zenon, <1>1, <1>2, <1>3 DEF Procs, Containers

LEMMA StatusCreate ==
    ASSUME TypeOK, LifeInv, StatusInv, NEW c \in Containers, Create(c) \/ CreateNext(c)
    PROVE  StatusInv'
<1>1. CASE Create(c) \/ CreateFails(c) \/ CreateTimesOut(c)
  <2>1. UNCHANGED <<reg, status, sbox, vcs>> BY Zenon, <1>1 DEF Create, CreateFails, CreateTimesOut
  <2> QED BY Zenon, <2>1 DEF StatusInv, Tracks
<1>2. CASE CreateSucceeds(c)
  <2>1. UNCHANGED <<reg, status>> /\ c \notin reg /\ (sbox' = sbox \/ (sbox = "nil" /\ sbox' = "ready" /\ c = Sandbox))
    BY ZenonT(40), <1>2 DEF CreateSucceeds, LifeInv
  <2>2. vcs'[c] = "ready" /\ \A d \in Containers \ {c} : vcs'[d] = vcs[d]
    BY Zenon, <1>2 DEF CreateSucceeds, TypeOK, SandboxType
  <2>3. ASSUME NEW d \in Containers PROVE Tracks(d)'
    BY Zenon, <2>1, <2>2 DEF StatusInv, Tracks
  <2> QED BY Zenon, <2>1, <2>2, <2>3, ProcFacts DEF StatusInv
<1>3. CASE CreateReturns(c)
  <2>1. UNCHANGED <<sbox, vcs>> /\ reg' \in {reg, reg \cup {c}} BY Zenon, <1>3 DEF CreateReturns
  <2>2. \A d \in Containers \ {c} : status'[d] = status[d]
    BY Zenon, <1>3, ProcFacts DEF CreateReturns, TypeOK, TaskType
  <2>3. status'[c] = "created" \/ (status'[c] = status[c] /\ reg' = reg)
    BY Zenon, <1>3, ProcFacts DEF CreateReturns, TypeOK, TaskType
  <2>4. ASSUME NEW d \in Containers PROVE Tracks(d)'
    BY Zenon, <2>1, <2>2, <2>3 DEF StatusInv, Tracks
  <2> QED BY Zenon, <2>1, <2>4 DEF StatusInv
<1> QED BY Zenon, <1>1, <1>2, <1>3 DEF CreateNext

\* A Start that reached virtcontainers: what runs, is recorded as running or could be started.
LEMMA StatusStart ==
    ASSUME TypeOK, LifeInv, StatusInv, NEW p \in Procs,
           StartSucceeds(p) \/ StartRefused(p) \/ StartFailsLate(p)
    PROVE  StatusInv'
<1>1. CASE StartRefused(p)
  <2>1. UNCHANGED <<reg, status, sbox, vcs>> BY Zenon, <1>1 DEF StartRefused
  <2> QED BY Zenon, <2>1 DEF StatusInv, Tracks
<1>2. CASE StartSucceeds(p) \/ StartFailsLate(p)
  <2>1. StartPre(p) /\ agent = "ok" /\ UNCHANGED reg BY Zenon, <1>2 DEF StartSucceeds, StartFailsLate
  <2>2. sbox # "stopped" /\ (sbox' = sbox \/ (p = Sandbox /\ sbox' = "running"))
    BY Zenon, <1>2, <2>1 DEF LifeInv, StartSucceeds, StartFailsLate
  <2>3. \A d \in Containers : vcs'[d] = IF d \in StartSet(p) THEN "running" ELSE vcs[d]
    BY Zenon, <1>2 DEF StartSucceeds, StartFailsLate
  <2>4. status' \in {status, [status EXCEPT ![p] = "running"]}
    BY Zenon, <1>2 DEF StartSucceeds, StartFailsLate
  <2>5. \A d \in Procs : status'[d] = status[d] \/ (d = p /\ status'[d] = "running")
    BY Zenon, <2>4 DEF TypeOK, TaskType
  <2>6. p = Sandbox => vcs[Sandbox] # "none"
    <3>0. p = Sandbox => p \notin Apps /\ p \notin Execs BY Zenon, ProcsAssumption DEF Containers
    <3>1. p = Sandbox => sbox = "ready" BY Zenon, <2>1, <2>2, <3>0 DEF StartPre
    <3> QED BY Zenon, <3>1 DEF StatusInv
  <2>7. p \in Containers => p \in StartSet(p)
    <3>1. p = Sandbox => p \in Live BY Zenon, <2>6, ProcFacts DEF Live
    <3> QED BY Zenon, <2>1, <3>1, StartSetFacts DEF Containers
  <2>8. ASSUME NEW d \in Containers PROVE Tracks(d)'
    <3>1. CASE d \in StartSet(p)
      <4>1. Startable(d) /\ vcs'[d] = "running" BY Zenon, <2>1, <2>3, <3>1, StartSetFacts
      <4>2. d \in reg => status[d] \notin {"running", "paused"}
        BY Zenon, <2>2, <4>1 DEF StatusInv, Tracks, Startable
      <4> QED BY Zenon, <2>1, <2>5, <4>1, <4>2, ProcFacts DEF Tracks
    <3>2. CASE d \notin StartSet(p)
      <4>1. d # p BY Zenon, <2>7, <3>2
      <4>2. vcs'[d] = vcs[d] /\ status'[d] = status[d] BY Zenon, <2>3, <2>5, <3>2, <4>1, ProcFacts
      <4> QED BY Zenon, <2>1, <2>2, <4>2 DEF StatusInv, Tracks
    <3> QED BY Zenon, <3>1, <3>2
  <2>9. sbox' \in {"ready", "running"} => vcs'[Sandbox] # "none"
    BY Zenon, <2>2, <2>3, <2>6, ProcFacts DEF StatusInv
  <2> QED BY Zenon, <2>8, <2>9 DEF StatusInv
<1> QED BY Zenon, <1>1, <1>2

\* A Start the agent fails changes no other container: one is stopped, some may run.
LEMMA AgentFailsVcs ==
    ASSUME NEW c \in Containers, StartAgentFails(c)
    PROVE  /\ \A d \in Containers : d \notin StartSet(c) => vcs'[d] = vcs[d]
           /\ \A d \in Containers : d \in StartSet(c) =>
                 vcs'[d] = vcs[d] \/ vcs'[d] \in {"stopped", "running"}
<1>1. PICK f, S :
         /\ f \in StartSet(c) /\ S \subseteq StartSet(c)
         /\ vcs' = [d \in Containers |-> IF d = f THEN "stopped" ELSE IF d \in S THEN "running" ELSE vcs[d]]
  <2>1. PICK f \in StartSet(c) :
          \E S \in (IF agent = "dead" THEN {{}} ELSE SUBSET (StartSet(c) \ {f})) :
             vcs' = [d \in Containers |-> IF d = f THEN "stopped" ELSE IF d \in S THEN "running" ELSE vcs[d]]
    BY Zenon DEF StartAgentFails
  <2>2. \A T, S : S \in (IF agent = "dead" THEN {{}} ELSE SUBSET (T \ {f})) => S \subseteq T
    <3>1. \A T : {} \subseteq T /\ \A S \in SUBSET (T \ {f}) : S \subseteq T OBVIOUS
    <3> QED BY Zenon, <3>1
  <2>3. PICK S \in (IF agent = "dead" THEN {{}} ELSE SUBSET (StartSet(c) \ {f})) :
          vcs' = [d \in Containers |-> IF d = f THEN "stopped" ELSE IF d \in S THEN "running" ELSE vcs[d]]
    BY Zenon, <2>1
  <2>4. S \subseteq StartSet(c) BY Zenon, <2>2
  <2> QED BY Zenon, <2>3, <2>4
<1> QED BY Zenon, <1>1

LEMMA StatusAgentFails ==
    ASSUME TypeOK, StatusInv, NEW c \in Containers, StartAgentFails(c)
    PROVE  StatusInv'
<1>1. StartPre(c) /\ UNCHANGED <<reg, status, sbox>> BY Zenon DEF StartAgentFails
<1>2. /\ \A d \in Containers : d \notin StartSet(c) => vcs'[d] = vcs[d]
      /\ \A d \in Containers : d \in StartSet(c) =>
            vcs'[d] = vcs[d] \/ vcs'[d] \in {"stopped", "running"}
  BY Zenon, AgentFailsVcs
<1>3. \A d \in Containers : d \in StartSet(c) => Startable(d) BY Zenon, <1>1, ProcFacts, StartSetFacts
<1>4. \A d \in Containers : vcs'[d] = vcs[d] \/ (Startable(d) /\ vcs'[d] # "none")
  BY Zenon, <1>2, <1>3
<1>5. ASSUME NEW d \in Containers PROVE Tracks(d)'
  BY Zenon, <1>1, <1>4 DEF StatusInv, Tracks, Startable
<1> QED BY Zenon, <1>1, <1>4, <1>5, ProcFacts DEF StatusInv

LEMMA StatusWait ==
    ASSUME TypeOK, StatusInv, "stop" \notin Faults, NEW p \in Procs, WaitLock(p) \/ WaitGoroutine(p)
    PROVE  StatusInv'
<1>1. CASE WaitStop(p)
  <2>1. UNCHANGED reg BY Zenon, <1>1 DEF WaitStop
  <2>2. CASE p = Sandbox
    <3>1. StopAndDelete BY Zenon, <1>1, <2>2, ProcsAssumption DEF WaitStop, Containers
    <3> QED BY Zenon, <3>1, CleanStop DEF StatusInv, Tracks
  <2>3. CASE p # Sandbox
    <3>1. sbox' = sbox BY Zenon, <1>1, <2>3 DEF WaitStop, Procs, Containers
    <3>2. vcs' = vcs \/ (p \in Apps /\ vcs' = [vcs EXCEPT ![p] = "stopped"])
      BY Zenon, <1>1, <2>3 DEF WaitStop, Procs, Containers, StopContainer
    <3>3. \A d \in Procs : status'[d] = IF d = p THEN "stopped" ELSE status[d]
      BY Zenon, <1>1 DEF WaitStop, TypeOK, TaskType
    <3>4. \A d \in Containers \ {p} : vcs'[d] = vcs[d] BY Zenon, <3>2 DEF TypeOK, SandboxType
    <3>5. ASSUME NEW d \in Containers PROVE Tracks(d)'
      BY Zenon, <2>1, <3>1, <3>3, <3>4, ProcFacts DEF StatusInv, Tracks
    <3> QED BY Zenon, <2>3, <3>1, <3>4, <3>5, ProcFacts DEF StatusInv
  <2> QED BY Zenon, <2>2, <2>3
<1>2. CASE ~WaitStop(p)
  <2>1. UNCHANGED <<reg, status, sbox, vcs>>
    BY Zenon, <1>2 DEF WaitLock, WaitGoroutine, WaitGetExec, WaitIOClosed, WaitProcess, WaitAgent,
       WaitCancelWatcher, WaitNotify
  <2> QED BY Zenon, <2>1 DEF StatusInv, Tracks
<1> QED BY Zenon, <1>1, <1>2

LEMMA StatusNext ==
    TypeOK /\ LifeInv /\ StatusInv /\ "stop" \notin Faults /\ [Next]_vars => StatusInv'
<1> SUFFICES ASSUME TypeOK, LifeInv, StatusInv, "stop" \notin Faults, [Next]_vars
             PROVE  StatusInv'
  OBVIOUS
<1>1. UNCHANGED <<reg, status, sbox, vcs>> => StatusInv' BY Zenon DEF StatusInv, Tracks
<1>2. ASSUME NEW c \in Containers, NEW from, NEW to \in {"running", "paused"}, Switch(c, from, to)
      PROVE  StatusInv'
  <2>1. UNCHANGED <<reg, sbox>> BY Zenon, <1>2 DEF Switch
  <2>2. \A d \in Containers \ {c} : status'[d] = status[d] /\ vcs'[d] = vcs[d]
    BY Zenon, <1>2, ProcFacts DEF Switch, TypeOK, TaskType, SandboxType
  <2>3. \/ vcs'[c] = to /\ status'[c] = to /\ vcs[c] = from
        \/ vcs'[c] = vcs[c] /\ status'[c] = ContainerStatus(c)
    BY Zenon, <1>2, ProcFacts DEF Switch, TypeOK, TaskType, SandboxType
  <2>4. /\ ContainerStatus(c) = "running" => vcs[c] = "running"
        /\ ContainerStatus(c) = "paused" => vcs[c] = "paused"
    BY Zenon DEF ContainerStatus
  <2>5. ASSUME NEW d \in Containers PROVE Tracks(d)'
    BY Zenon, <2>1, <2>2, <2>3, <2>4 DEF StatusInv, Tracks
  <2>6. vcs'[Sandbox] = "none" => vcs[Sandbox] = "none"
    BY Zenon, <2>2, <2>3, ProcFacts
  <2> QED BY Zenon, <2>1, <2>5, <2>6 DEF StatusInv
<1>3. ASSUME NEW c \in Containers, DeleteContainer(c) PROVE StatusInv'
  <2>1. UNCHANGED <<status, sbox>> BY Zenon, <1>3 DEF DeleteContainer
  <2>2. \/ vcs' = vcs /\ (reg' = reg \/ reg' = reg \ {c})
        \/ c \in Apps /\ vcs' = [vcs EXCEPT ![c] = "none"] /\ reg' = reg \ {c}
    BY Zenon, <1>3 DEF DeleteContainer, Forget
  <2>3. \A d \in Containers \ {c} : vcs'[d] = vcs[d] BY Zenon, <2>2 DEF TypeOK, SandboxType
  <2>4. c = Sandbox => vcs' = vcs BY Zenon, <2>2, ProcsAssumption
  <2>5. ASSUME NEW d \in Containers PROVE Tracks(d)'
    BY Zenon, <2>1, <2>2, <2>3 DEF StatusInv, Tracks
  <2> QED BY Zenon, <2>1, <2>3, <2>4, <2>5, ProcFacts DEF StatusInv
<1>4. ASSUME NEW e \in Execs, Exec(e) \/ DeleteExec(e) PROVE StatusInv'
  <2>0. e \notin Containers /\ e \in Procs BY Zenon, ProcFacts, ProcsAssumption
  <2>1. UNCHANGED <<sbox, vcs>> BY Zenon, <1>4 DEF Exec, DeleteExec
  <2>2. \A d \in Containers : status'[d] = status[d]
    BY Zenon, <1>4, <2>0, ProcFacts DEF Exec, DeleteExec, TypeOK, TaskType
  <2>3. reg' = reg \cup {e} \/ reg' = reg \ {e} BY Zenon, <1>4 DEF Exec, DeleteExec
  <2>4. \A d \in Containers : d \in reg' => d \in reg BY Zenon, <2>0, <2>3
  <2> QED BY Zenon, <2>1, <2>2, <2>4 DEF StatusInv, Tracks
<1>5. ASSUME NEW p \in Procs, SendStarted(p) \/ NotifyStartError(p) \/ Kill(p) \/ ProcExits(p)
      PROVE  StatusInv'
  BY Zenon, <1>1, <1>5 DEF SendStarted, NotifyStartError, Kill, ProcExits
<1>6. KillChildren \/ AgentDies => StatusInv' BY Zenon, <1>1 DEF KillChildren, AgentDies
<1>7. WatchCleanup => StatusInv' BY Zenon, CleanStop DEF WatchCleanup, StatusInv, Tracks
<1>8. QuietStep => StatusInv' BY Zenon, <1>1, QuietSteps DEF Quiet
<1>9. ASSUME NEW c \in Containers, Pause(c) \/ Resume(c) PROVE StatusInv'
  BY Zenon, <1>2, <1>9 DEF Pause, Resume
<1>10. LoudStep => StatusInv'
  BY Zenon, <1>3, <1>4, <1>5, <1>6, <1>7, <1>9, StatusCreate, StatusStart, StatusAgentFails, StatusWait
     DEF LoudStep
<1> QED BY Zenon, <1>8, <1>10, Steps

\* Whatever the client calls and whatever else fails, as long as a container that is told
\* to stop does: the status the shim reports for a container of the running sandbox is
\* one virtcontainers would report too (getContainerStatus, pause, resume, wait, start).
THEOREM StatusIsCurrent ==
    ASSUME "stop" \notin Faults
    PROVE  Spec => []StatusMatchesSandbox
<1>1. Init => LifeInv /\ StatusInv
  <2>1. Init => StatusInv BY Zenon DEF Init, StatusInv, Tracks
  <2> QED BY Zenon, <2>1, LifeInit
<1>2. TypeOK /\ LifeInv /\ StatusInv /\ [Next]_vars => LifeInv' /\ StatusInv'
  BY Zenon, LifeNext, StatusNext
<1>3. StatusInv => StatusMatchesSandbox
  <2>1. "running" # "stopped" OBVIOUS
  <2> QED BY Zenon, <2>1 DEF StatusInv, Tracks, StatusMatchesSandbox
<1> QED BY <1>1, <1>2, <1>3, TypeCorrect, PTL DEF Spec

-----------------------------------------------------------------------------
(* The sandbox goes from nil to ready, running and stopped: nothing is known *)
(* of a container before it exists, and no process is waited for before it   *)
(* runs.                                                                     *)

EarlyInv ==
    /\ sbox = "nil" => \A c \in Containers :
          vcs[c] = "none" /\ status[c] = "new" /\ c \notin reg /\ create[c] # "ok"
    /\ sbox \in {"nil", "ready"} => \A p \in Procs : wg[p] = "none"
    /\ \A p \in Procs : wg[p] # "none" => started[p]

LEMMA EarlyInit == Init => EarlyInv
<1> SUFFICES ASSUME Init PROVE EarlyInv OBVIOUS
<1>1. \A c \in Containers : vcs[c] = "none" /\ status[c] = "new" /\ c \notin reg /\ create[c] # "ok"
  BY Zenon, ProcFacts DEF Init
<1>2. \A p \in Procs : wg[p] = "none" BY Zenon DEF Init
<1> QED BY Zenon, <1>1, <1>2 DEF EarlyInv

LEMMA EarlyCreate ==
    ASSUME TypeOK, EarlyInv, NEW c \in Containers, Create(c) \/ CreateNext(c)
    PROVE  EarlyInv'
<1>1. UNCHANGED <<wg, started>>
  BY Zenon DEF Create, CreateNext, CreateSucceeds, CreateFails, CreateReturns, CreateTimesOut
<1>2. sbox' \in {"nil", "ready"} => sbox \in {"nil", "ready"}
  BY Zenon DEF Create, CreateNext, CreateSucceeds, CreateFails, CreateReturns, CreateTimesOut
<1>3. ASSUME sbox' = "nil", NEW d \in Containers
      PROVE  vcs'[d] = "none" /\ status'[d] = "new" /\ d \notin reg' /\ create'[d] # "ok"
  <2>1. sbox = "nil" /\ ~CreateSucceeds(c)
    BY Zenon, <1>3 DEF Create, CreateNext, CreateSucceeds, CreateFails, CreateReturns, CreateTimesOut
  <2>2. UNCHANGED <<vcs, status, reg>>
    BY Zenon, <2>1 DEF EarlyInv, Create, CreateNext, CreateFails, CreateReturns, CreateTimesOut
  <2>3. create'[d] # "ok"
    <3>1. create' = create \/ \E l : l # "ok" /\ create' = [create EXCEPT ![c] = l]
      BY Zenon, <2>1 DEF Create, CreateNext, CreateFails, CreateReturns, CreateTimesOut
    <3> QED BY Zenon, <2>1, <3>1 DEF EarlyInv, TypeOK, ShimType
  <2> QED BY Zenon, <2>1, <2>2, <2>3 DEF EarlyInv
<1> QED BY Zenon, <1>1, <1>2, <1>3 DEF EarlyInv

\* Only a sandbox that is there can be started, and a container or an exec only in one that runs.
LEMMA StartNeedsSandbox ==
    ASSUME TypeOK, LifeInv, NEW p \in Procs, StartPre(p), agent = "ok"
    PROVE  /\ p = Sandbox => sbox = "ready"
           /\ p # Sandbox => sbox = "running"
<1>1. p = Sandbox => p \notin Apps /\ p \notin Execs BY Zenon, ProcsAssumption DEF Containers
<1>2. p \in Apps => p \notin Execs BY Zenon, ProcsAssumption DEF Containers
<1> QED BY Zenon, <1>1, <1>2 DEF StartPre, LifeInv, Procs, Containers

LEMMA EarlyStart ==
    ASSUME TypeOK, LifeInv, EarlyInv, NEW p \in Procs,
           StartSucceeds(p) \/ StartRefused(p) \/ StartFailsLate(p)
    PROVE  EarlyInv'
<1>1. started' = [started EXCEPT ![p] = TRUE] /\ UNCHANGED <<reg, create>> /\ p \in reg
  BY Zenon DEF StartSucceeds, StartRefused, StartFailsLate, CanStart
<1>2. started'[p] /\ \A q \in Procs \ {p} : started'[q] = started[q]
  BY Zenon, <1>1 DEF TypeOK, TaskType
<1>3. CASE StartRefused(p)
  <2>1. UNCHANGED <<wg, sbox, vcs, status>> BY Zenon, <1>3 DEF StartRefused
  <2> QED BY Zenon, <1>1, <1>2, <2>1 DEF EarlyInv
<1>4. CASE StartSucceeds(p) \/ StartFailsLate(p)
  <2>1. sbox' = "running"
    <3>1. StartPre(p) /\ agent = "ok" BY Zenon, <1>4 DEF StartSucceeds, StartFailsLate
    <3>2. p # Sandbox => sbox' = sbox BY Zenon, <1>4 DEF StartSucceeds, StartFailsLate
    <3>3. p = Sandbox => sbox' = "running" BY Zenon, <1>4 DEF StartSucceeds, StartFailsLate
    <3> QED BY Zenon, <3>1, <3>2, <3>3, StartNeedsSandbox
  <2>2. \A q \in Procs \ {p} : wg'[q] = wg[q]
    <3>1. wg' = wg \/ \E l : wg' = [wg EXCEPT ![p] = l] BY Zenon, <1>4 DEF StartSucceeds, StartFailsLate
    <3> QED BY Zenon, <3>1 DEF TypeOK, WaitType
  <2> QED BY Zenon, <1>2, <2>1, <2>2 DEF EarlyInv
<1> QED BY Zenon, <1>3, <1>4

LEMMA EarlyWait ==
    ASSUME TypeOK, LifeInv, EarlyInv, NEW p \in Procs, WaitLock(p) \/ WaitGoroutine(p)
    PROVE  EarlyInv'
<1>1. wg[p] # "none"
  <2>1. CASE mu \in {At("cancel", p), At("stop", p)} BY Zenon, <2>1 DEF LifeInv, Locked
  <2>2. CASE mu \notin {At("cancel", p), At("stop", p)}
    BY Zenon, <2>2 DEF WaitLock, WaitGoroutine, WaitGetExec, WaitIOClosed, WaitProcess, WaitAgent,
       WaitCancelWatcher, WaitStop, WaitNotify, WaitStep
  <2> QED BY Zenon, <2>1, <2>2
<1>2. sbox \notin {"nil", "ready"} /\ started[p] BY Zenon, <1>1 DEF EarlyInv
<1>3. started' = started
  BY Zenon DEF WaitLock, WaitGoroutine, WaitGetExec, WaitIOClosed, WaitProcess, WaitAgent,
     WaitCancelWatcher, WaitStop, WaitNotify
<1>4. sbox' = sbox \/ sbox' = "stopped"
  BY Zenon DEF WaitLock, WaitGoroutine, WaitGetExec, WaitIOClosed, WaitProcess, WaitAgent,
     WaitCancelWatcher, WaitStop, WaitNotify, StopAndDelete, Procs, Containers
<1>5. \A q \in Procs \ {p} : wg'[q] = wg[q]
  <2>1. wg' = wg \/ \E l : wg' = [wg EXCEPT ![p] = l]
    BY Zenon DEF WaitLock, WaitGoroutine, WaitGetExec, WaitIOClosed, WaitProcess, WaitAgent,
       WaitCancelWatcher, WaitStop, WaitNotify, WaitStep
  <2> QED BY Zenon, <2>1 DEF TypeOK, WaitType
<1>6. sbox' \notin {"nil", "ready"} BY Zenon, <1>2, <1>4
<1> QED BY Zenon, <1>2, <1>3, <1>5, <1>6 DEF EarlyInv

LEMMA EarlyNext == TypeOK /\ LifeInv /\ EarlyInv /\ [Next]_vars => EarlyInv'
<1> SUFFICES ASSUME TypeOK, LifeInv, EarlyInv, [Next]_vars PROVE EarlyInv' OBVIOUS
<1>1. UNCHANGED <<create, reg, status, started, wg, sbox, vcs>> => EarlyInv' BY Zenon DEF EarlyInv
<1>2. ASSUME NEW c \in Containers, Pause(c) \/ Resume(c) \/ DeleteContainer(c) PROVE EarlyInv'
  <2>1. UNCHANGED <<wg, sbox, started>> /\ c \in reg
    BY Zenon, <1>2 DEF Pause, Resume, Switch, DeleteContainer
  <2>2. sbox # "nil" BY Zenon, <2>1 DEF EarlyInv
  <2> QED BY Zenon, <2>1, <2>2 DEF EarlyInv
<1>3. ASSUME NEW c \in Containers, StartAgentFails(c) PROVE EarlyInv'
  <2>1. UNCHANGED <<wg, sbox>> /\ c \in reg BY Zenon, <1>3 DEF StartAgentFails, CanStart
  <2>2. sbox # "nil" BY Zenon, <2>1 DEF EarlyInv
  <2>3. \A q \in Procs : started[q] => started'[q]
    BY Zenon, <1>3 DEF StartAgentFails, TypeOK, TaskType
  <2> QED BY Zenon, <2>1, <2>2, <2>3 DEF EarlyInv
<1>4. ASSUME NEW e \in Execs, Exec(e) \/ DeleteExec(e) PROVE EarlyInv'
  <2>1. UNCHANGED <<wg, sbox, started>> /\ ExecOf[e] \in reg /\ ExecOf[e] \in Containers
    BY Zenon, <1>4, ProcsAssumption DEF Exec, DeleteExec
  <2>2. sbox # "nil" BY Zenon, <2>1 DEF EarlyInv
  <2> QED BY Zenon, <2>1, <2>2 DEF EarlyInv
<1>5. ASSUME NEW p \in Procs, SendStarted(p) \/ NotifyStartError(p) \/ Kill(p) \/ ProcExits(p)
      PROVE  EarlyInv'
  BY Zenon, <1>1, <1>5 DEF SendStarted, NotifyStartError, Kill, ProcExits
<1>6. KillChildren \/ AgentDies => EarlyInv' BY Zenon, <1>1 DEF KillChildren, AgentDies
<1>7. WatchCleanup => EarlyInv'
  <2> SUFFICES ASSUME WatchCleanup PROVE EarlyInv' OBVIOUS
  <2>1. sbox' \notin {"nil", "ready"} /\ UNCHANGED <<wg, started>> BY Zenon DEF WatchCleanup, StopAndDelete
  <2> QED BY Zenon, <2>1 DEF EarlyInv
<1>8. QuietStep => EarlyInv' BY Zenon, <1>1, QuietSteps DEF Quiet
<1>9. LoudStep => EarlyInv'
  BY Zenon, <1>2, <1>3, <1>4, <1>5, <1>6, <1>7, EarlyCreate, EarlyStart, EarlyWait DEF LoudStep
<1> QED BY Zenon, <1>8, <1>9, Steps

-----------------------------------------------------------------------------
(* A stopped container can be deleted.                                       *)

\* What can end the virtual machine behind the back of the shim, or keep a
\* container from being stopped, does not happen.
Orderly == {"stop", "agent", "virtiofsd"} \cap Faults = {}

\* The agent answers until the sandbox is stopped, which takes all containers.
EndInv ==
    /\ agent = "dead" => sbox = "stopped"
    /\ sbox = "stopped" => \A c \in Containers : vcs[c] = "none"

\* Nothing has ended yet in a sandbox that was not started; in one that runs,
\* only what was started has.
StopInv ==
    /\ sbox = "ready" /\ ("start" \notin Faults \/ ~started[Sandbox]) =>
          \A c \in Containers : status[c] # "stopped" /\ vcs[c] # "stopped"
    /\ sbox = "running" => \A c \in Apps : status[c] = "stopped" \/ vcs[c] = "stopped" => started[c]
    /\ StoppedIsDeletable

\* A container is created only in a sandbox that is not stopped, started in one that is not.
LEMMA EndNext == TypeOK /\ LifeInv /\ EndInv /\ Orderly /\ [Next]_vars => EndInv'
<1> SUFFICES ASSUME TypeOK, LifeInv, EndInv, Orderly, [Next]_vars PROVE EndInv' OBVIOUS
<1>0. "stop" \notin Faults /\ "agent" \notin Faults /\ "virtiofsd" \notin Faults BY Zenon DEF Orderly
<1>1. UNCHANGED <<agent, sbox, vcs>> => EndInv' BY Zenon DEF EndInv
<1>2. ASSUME UNCHANGED <<agent, sbox>>, sbox # "stopped" PROVE EndInv' BY Zenon, <1>2 DEF EndInv
<1>3. ASSUME StopAndDelete PROVE EndInv' BY Zenon, <1>0, <1>3, CleanStop DEF EndInv
<1>4. ASSUME NEW c \in Containers, Create(c) \/ CreateNext(c) PROVE EndInv'
  <2>1. UNCHANGED agent /\ (UNCHANGED <<sbox, vcs>> \/ (sbox # "stopped" /\ sbox' # "stopped"))
    BY Zenon, <1>4 DEF Create, CreateNext, CreateSucceeds, CreateFails, CreateReturns, CreateTimesOut
  <2> QED BY Zenon, <2>1 DEF EndInv
<1>5. ASSUME NEW c \in Containers, Pause(c) \/ Resume(c) PROVE EndInv'
  BY Zenon, <1>1, <1>2, <1>5 DEF Pause, Resume, Switch
<1>6. ASSUME NEW c \in Containers, DeleteContainer(c) PROVE EndInv'
  <2>1. UNCHANGED <<agent, sbox>> /\ (vcs' = vcs \/ vcs[c] # "none") BY Zenon, <1>6 DEF DeleteContainer
  <2> QED BY Zenon, <2>1 DEF EndInv
<1>7. ASSUME NEW c \in Containers, StartAgentFails(c) PROVE EndInv'
  <2>1. UNCHANGED <<agent, sbox>> /\ StartPre(c) /\ StartSet(c) # {} BY Zenon, <1>7 DEF StartAgentFails
  <2>2. PICK d \in StartSet(c) : d \in Containers /\ Startable(d)
    BY Zenon, <2>1, StartSetFacts, ProcFacts
  <2>3. sbox # "stopped" BY Zenon, <2>2 DEF EndInv, Startable
  <2> QED BY Zenon, <2>1, <2>3 DEF EndInv
<1>8. ASSUME NEW p \in Procs, StartSucceeds(p) \/ StartRefused(p) \/ StartFailsLate(p) PROVE EndInv'
  <2>1. CASE StartRefused(p) BY Zenon, <1>1, <2>1 DEF StartRefused
  <2>2. CASE StartSucceeds(p) \/ StartFailsLate(p)
    <3>1. agent = "ok" /\ agent' = agent /\ StartPre(p) BY Zenon, <2>2 DEF StartSucceeds, StartFailsLate
    <3>2. sbox' = sbox \/ sbox' = "running" BY Zenon, <2>2 DEF StartSucceeds, StartFailsLate
    <3>3. sbox \in {"ready", "running"} BY Zenon, <3>1, StartNeedsSandbox
    <3> QED BY Zenon, <3>1, <3>2, <3>3 DEF EndInv
  <2> QED BY Zenon, <1>8, <2>1, <2>2
<1>9. ASSUME NEW p \in Procs, WaitLock(p) \/ WaitGoroutine(p) PROVE EndInv'
  <2>1. CASE WaitStop(p)
    <3>1. CASE p = Sandbox BY Zenon, <1>3, <2>1, <3>1, ProcsAssumption DEF WaitStop, Containers
    <3>2. CASE p # Sandbox
      <4>1. UNCHANGED <<agent, sbox>> BY Zenon, <2>1, <3>2 DEF WaitStop, Procs, Containers
      <4>2. vcs' = vcs \/ (p \in Apps /\ vcs[p] # "none")
        BY Zenon, <2>1, <3>2 DEF WaitStop, Procs, Containers, StopContainer
      <4> QED BY Zenon, <4>1, <4>2, ProcFacts DEF EndInv
    <3> QED BY Zenon, <3>1, <3>2
  <2>2. CASE ~WaitStop(p)
    BY Zenon, <1>1, <1>9, <2>2 DEF WaitLock, WaitGoroutine, WaitGetExec, WaitIOClosed, WaitProcess,
       WaitAgent, WaitCancelWatcher, WaitNotify
  <2> QED BY Zenon, <2>1, <2>2
<1>10. ASSUME NEW e \in Execs, Exec(e) \/ DeleteExec(e) PROVE EndInv'
  BY Zenon, <1>1, <1>10 DEF Exec, DeleteExec
<1>11. ASSUME NEW p \in Procs, SendStarted(p) \/ NotifyStartError(p) \/ Kill(p) \/ ProcExits(p)
       PROVE  EndInv'
  BY Zenon, <1>1, <1>11 DEF SendStarted, NotifyStartError, Kill, ProcExits
<1>12. KillChildren \/ AgentDies \/ WatchCleanup => EndInv'
  BY Zenon, <1>0, <1>3 DEF KillChildren, AgentDies, WatchCleanup
<1>13. QuietStep => EndInv' BY Zenon, <1>1, QuietSteps DEF Quiet
<1>14. LoudStep => EndInv'
  BY Zenon, <1>4, <1>5, <1>6, <1>7, <1>8, <1>9, <1>10, <1>11, <1>12 DEF LoudStep
<1> QED BY Zenon, <1>13, <1>14, Steps

LEMMA StopCreate ==
    ASSUME TypeOK, LifeInv, EarlyInv, StopInv, NEW c \in Containers, Create(c) \/ CreateNext(c)
    PROVE  StopInv'
<1>0. UNCHANGED started
  BY Zenon DEF Create, CreateNext, CreateSucceeds, CreateFails, CreateReturns, CreateTimesOut
<1>1. CASE ~CreateSucceeds(c) /\ ~CreateReturns(c)
  <2>1. UNCHANGED <<reg, status, sbox, vcs>>
    BY Zenon, <1>1 DEF Create, CreateNext, CreateFails, CreateTimesOut
  <2> QED BY Zenon, <1>0, <2>1 DEF StopInv, StoppedIsDeletable
<1>2. CASE CreateSucceeds(c)
  <2>1. UNCHANGED <<reg, status>> /\ status[c] = "new" BY Zenon, <1>2 DEF CreateSucceeds, LifeInv
  <2>2. vcs'[c] = "ready" /\ \A d \in Containers \ {c} : vcs'[d] = vcs[d]
    BY Zenon, <1>2 DEF CreateSucceeds, TypeOK, SandboxType
  <2>3. sbox' = sbox \/ (sbox = "nil" /\ sbox' = "ready") BY Zenon, <1>2 DEF CreateSucceeds
  <2>4. sbox = "nil" => \A d \in Containers : vcs'[d] # "stopped" /\ status'[d] # "stopped"
    BY Zenon, <2>1, <2>2 DEF EarlyInv
  <2>5. StoppedIsDeletable' BY Zenon, <2>1, <2>2, ProcFacts DEF StopInv, StoppedIsDeletable
  <2> QED BY Zenon, <1>0, <2>1, <2>2, <2>3, <2>4, <2>5, ProcFacts DEF StopInv
<1>3. CASE CreateReturns(c)
  <2>1. UNCHANGED <<sbox, vcs>> BY Zenon, <1>3 DEF CreateReturns
  <2>2. \A d \in Containers : status'[d] = "stopped" => status[d] = "stopped" /\ d # c
    <3>1. status[c] = "new" BY Zenon, <1>3 DEF CreateReturns, LifeInv
    <3> QED BY Zenon, <1>3, <3>1, ProcFacts DEF CreateReturns, TypeOK, TaskType
  <2>3. \A d : d \in reg' => d \in reg \/ d = c BY Zenon, <1>3 DEF CreateReturns
  <2>4. StoppedIsDeletable' BY Zenon, <2>1, <2>2, <2>3, ProcFacts DEF StopInv, StoppedIsDeletable
  <2> QED BY Zenon, <1>0, <2>1, <2>2, <2>4, ProcFacts DEF StopInv
<1> QED BY Zenon, <1>1, <1>2, <1>3

\* No process is restarted in a pod whose Start may have failed half way.
StartsOnce == "start" \notin Faults \/ "restart" \notin ClientCalls

\* What a Start sets running was not recorded as stopped.
LEMMA StartedIsNotStopped ==
    ASSUME TypeOK, LifeInv, StopInv, StartsOnce, NEW p \in Procs, CanStart(p), StartPre(p), agent = "ok"
    PROVE  \A d \in StartSet(p) : status[d] # "stopped"
<1>1. CASE p = Sandbox
  <2>1. "start" \notin Faults \/ ~started[Sandbox] BY Zenon, <1>1 DEF StartsOnce, CanStart
  <2>2. sbox = "ready" BY Zenon, <1>1, StartNeedsSandbox
  <2> QED BY Zenon, <2>1, <2>2, StartSetFacts DEF StopInv
<1>2. CASE p \in Apps
  <2>1. sbox = "running" BY Zenon, <1>2, StartNeedsSandbox, ProcsAssumption
  <2>2. started[p] => status[p] # "stopped" BY Zenon DEF CanStart
  <2> QED BY Zenon, <1>2, <2>1, <2>2, StartSetFacts DEF StopInv
<1>3. CASE p \in Execs BY Zenon, <1>3, StartSetFacts
<1> QED BY Zenon, <1>1, <1>2, <1>3 DEF Procs, Containers

LEMMA StopStart ==
    ASSUME TypeOK, LifeInv, StopInv, StartsOnce, NEW p \in Procs,
           StartSucceeds(p) \/ StartRefused(p) \/ StartFailsLate(p)
    PROVE  StopInv'
<1>1. started' = [started EXCEPT ![p] = TRUE] /\ UNCHANGED reg
  BY Zenon DEF StartSucceeds, StartRefused, StartFailsLate
<1>2. \A q \in Procs : started[q] \/ q = p => started'[q] BY Zenon, <1>1 DEF TypeOK, TaskType
<1>3. CASE StartRefused(p)
  <2>1. UNCHANGED <<sbox, vcs, status>> BY Zenon, <1>3 DEF StartRefused
  <2> QED BY Zenon, <1>1, <1>2, <2>1, ProcFacts DEF StopInv, StoppedIsDeletable
<1>4. CASE StartSucceeds(p) \/ StartFailsLate(p)
  <2>1. CanStart(p) /\ StartPre(p) /\ agent = "ok" BY Zenon, <1>4 DEF StartSucceeds, StartFailsLate
  <2>2. sbox' = IF p = Sandbox THEN "running" ELSE sbox BY Zenon, <1>4 DEF StartSucceeds, StartFailsLate
  <2>3. \A d \in Containers : vcs'[d] = IF d \in StartSet(p) THEN "running" ELSE vcs[d]
    BY Zenon, <1>4 DEF StartSucceeds, StartFailsLate
  <2>4. status' \in {status, [status EXCEPT ![p] = "running"]}
    BY Zenon, <1>4 DEF StartSucceeds, StartFailsLate
  <2>5. \A d \in Procs : status'[d] = "stopped" => status[d] = "stopped"
    BY Zenon, <2>4 DEF TypeOK, TaskType
  <2>6. \A d \in StartSet(p) : status[d] # "stopped" BY Zenon, <2>1, StartedIsNotStopped
  <2>7. StoppedIsDeletable'
    BY Zenon, <1>1, <2>3, <2>5, <2>6, ProcFacts DEF StopInv, StoppedIsDeletable
  <2>8. sbox' = "running"
    BY Zenon, <2>1, <2>2, StartNeedsSandbox
  <2>9. ASSUME NEW c \in Apps, status'[c] = "stopped" \/ vcs'[c] = "stopped" PROVE started'[c]
    <3>1. status[c] = "stopped" \/ vcs[c] = "stopped" BY Zenon, <2>3, <2>5, <2>9, ProcFacts
    <3>2. CASE p = Sandbox
      <4>1. "start" \notin Faults \/ ~started[Sandbox] BY Zenon, <2>1, <3>2 DEF StartsOnce, CanStart
      <4>2. sbox = "ready" BY Zenon, <2>1, <3>2, StartNeedsSandbox
      <4> QED BY Zenon, <3>1, <4>1, <4>2, ProcFacts DEF StopInv
    <3>3. CASE p # Sandbox
      <4>1. sbox = "running" BY Zenon, <2>1, <3>3, StartNeedsSandbox
      <4> QED BY Zenon, <1>2, <3>1, <4>1, ProcFacts DEF StopInv
    <3> QED BY Zenon, <3>2, <3>3
  <2> QED BY Zenon, <2>7, <2>8, <2>9 DEF StopInv
<1> QED BY Zenon, <1>3, <1>4

\* A container the agent could not start is not recorded as stopped by it, and
\* the ones started before it were not.
LEMMA StopAgentFails ==
    ASSUME TypeOK, LifeInv, EndInv, StopInv, StartsOnce, NEW c \in Containers, StartAgentFails(c)
    PROVE  StopInv'
<1>1. CanStart(c) /\ StartPre(c) /\ StartSet(c) # {} /\ UNCHANGED <<reg, status, sbox>>
  BY Zenon DEF StartAgentFails
<1>2. agent = "ok" /\ "start" \in Faults
  <2>1. PICK d \in StartSet(c) : d \in Containers /\ Startable(d) BY Zenon, <1>1, StartSetFacts, ProcFacts
  <2>2. sbox # "stopped" BY Zenon, <2>1 DEF EndInv, Startable
  <2> QED BY Zenon, <2>2 DEF EndInv, StartAgentFails, TypeOK, SandboxType
<1>3. \A d \in StartSet(c) : status[d] # "stopped" BY Zenon, <1>1, <1>2, StartedIsNotStopped, ProcFacts
<1>4. \A q \in Procs : started[q] \/ q = c => started'[q]
  BY Zenon, ProcFacts DEF StartAgentFails, TypeOK, TaskType
<1>5. \A d \in Containers : d \notin StartSet(c) => vcs'[d] = vcs[d]
  BY Zenon, AgentFailsVcs
<1>6. StoppedIsDeletable' BY Zenon, <1>1, <1>3, <1>5, ProcFacts DEF StopInv, StoppedIsDeletable
<1>7. CASE c = Sandbox
  <2>1. sbox = "ready" /\ started'[Sandbox] BY Zenon, <1>1, <1>2, <1>4, <1>7, StartNeedsSandbox, ProcFacts
  <2> QED BY Zenon, <1>1, <1>2, <1>6, <2>1 DEF StopInv
<1>8. CASE c \in Apps
  <2>1. sbox = "running" BY Zenon, <1>1, <1>2, <1>8, StartNeedsSandbox, ProcsAssumption, ProcFacts
  <2>2. \A d \in Apps : d # c => vcs'[d] = vcs[d] BY Zenon, <1>1, <1>5, <1>8, StartSetFacts, ProcFacts
  <2> QED BY Zenon, <1>1, <1>4, <1>6, <2>1, <2>2, ProcFacts DEF StopInv
<1> QED BY Zenon, <1>7, <1>8 DEF Containers

LEMMA StopWait ==
    ASSUME TypeOK, LifeInv, EarlyInv, EndInv, StopInv, "stop" \notin Faults, NEW p \in Procs,
           WaitLock(p) \/ WaitGoroutine(p)
    PROVE  StopInv'
<1>1. CASE WaitStop(p)
  <2>1. UNCHANGED <<reg, started>> BY Zenon, <1>1 DEF WaitStop
  <2>2. CASE p = Sandbox
    <3>1. StopAndDelete BY Zenon, <1>1, <2>2, ProcsAssumption DEF WaitStop, Containers
    <3>2. sbox' = "stopped" /\ \A c \in Containers : vcs'[c] = "none" BY Zenon, <3>1, CleanStop
    <3> QED BY Zenon, <3>2, ProcFacts DEF StopInv, StoppedIsDeletable
  <2>3. CASE p # Sandbox
    <3>1. UNCHANGED sbox BY Zenon, <1>1, <2>3 DEF WaitStop, Procs, Containers
    <3>2. vcs' = vcs \/ (p \in Apps /\ vcs' = [vcs EXCEPT ![p] = "stopped"])
      BY Zenon, <1>1, <2>3 DEF WaitStop, Procs, Containers, StopContainer
    <3>3. \A d \in Containers \ {p} : vcs'[d] = vcs[d] BY Zenon, <3>2 DEF TypeOK, SandboxType
    <3>4. p \in Apps => vcs'[p] \in {"none", "stopped"}
      <4> SUFFICES ASSUME p \in Apps PROVE vcs'[p] \in {"none", "stopped"} OBVIOUS
      <4>0. p \notin Execs /\ p \in Containers BY Zenon, ProcsAssumption, ProcFacts
      <4>1. StopContainer(p) BY Zenon, <1>1, <2>3, <4>0 DEF WaitStop
      <4>2. agent = "dead" => vcs[p] = "none" BY Zenon, <4>0 DEF EndInv
      <4>3. vcs' = [vcs EXCEPT ![p] = "stopped"] => vcs'[p] = "stopped"
        BY Zenon, <4>0 DEF TypeOK, SandboxType
      <4>4. vcs' = [vcs EXCEPT ![p] = "stopped"] \/ (vcs' = vcs /\ vcs[p] \in {"none", "stopped"})
        BY Zenon, <4>1, <4>2 DEF StopContainer
      <4> QED BY Zenon, <4>3, <4>4
    <3>5. \A d \in Procs : status'[d] = IF d = p THEN "stopped" ELSE status[d]
      BY Zenon, <1>1 DEF WaitStop, TypeOK, TaskType
    <3>6. StoppedIsDeletable'
      BY Zenon, <2>1, <3>3, <3>4, <3>5, ProcFacts DEF StopInv, StoppedIsDeletable
    <3>7. wg[p] # "none" BY Zenon, <1>1 DEF WaitStop, LifeInv, Locked
    <3>8. sbox # "ready" /\ started[p] BY Zenon, <3>7 DEF EarlyInv
    <3>9. ASSUME NEW d \in Apps, sbox' = "running", status'[d] = "stopped" \/ vcs'[d] = "stopped"
          PROVE  started'[d]
      BY Zenon, <2>1, <3>1, <3>3, <3>5, <3>8, <3>9, ProcFacts DEF StopInv
    <3> QED BY Zenon, <3>1, <3>6, <3>8, <3>9 DEF StopInv
  <2> QED BY Zenon, <2>2, <2>3
<1>2. CASE ~WaitStop(p)
  <2>1. UNCHANGED <<reg, status, started, sbox, vcs>>
    BY Zenon, <1>2 DEF WaitLock, WaitGoroutine, WaitGetExec, WaitIOClosed, WaitProcess, WaitAgent,
       WaitCancelWatcher, WaitNotify
  <2> QED BY Zenon, <2>1 DEF StopInv, StoppedIsDeletable
<1> QED BY Zenon, <1>1, <1>2

LEMMA StopNext ==
    ASSUME TypeOK, LifeInv, EarlyInv, EndInv, StopInv, Orderly, StartsOnce, [Next]_vars
    PROVE  StopInv'
<1>0. "stop" \notin Faults /\ "agent" \notin Faults /\ "virtiofsd" \notin Faults BY Zenon DEF Orderly
<1>1. UNCHANGED <<reg, status, started, sbox, vcs>> => StopInv' BY Zenon DEF StopInv, StoppedIsDeletable
<1>2. ASSUME NEW c \in Containers, NEW from \in {"running", "paused"}, NEW to \in {"running", "paused"},
             Switch(c, from, to)
      PROVE  StopInv'
  <2>1. UNCHANGED <<reg, sbox, started>> BY Zenon, <1>2 DEF Switch
  <2>2. \A d \in Containers \ {c} : status'[d] = status[d] /\ vcs'[d] = vcs[d]
    BY Zenon, <1>2, ProcFacts DEF Switch, TypeOK, TaskType, SandboxType
  <2>3. \/ vcs'[c] = to /\ status'[c] = to
        \/ vcs'[c] = vcs[c] /\ status'[c] = ContainerStatus(c)
    BY Zenon, <1>2, ProcFacts DEF Switch, TypeOK, TaskType, SandboxType
  <2>4. ContainerStatus(c) = "stopped" => vcs[c] = "stopped" BY Zenon DEF ContainerStatus
  <2>5. status'[c] = "stopped" \/ vcs'[c] = "stopped" => vcs[c] = "stopped" /\ vcs'[c] = "stopped"
    BY Zenon, <2>3, <2>4
  <2>6. StoppedIsDeletable' BY Zenon, <2>1, <2>2, <2>5, ProcFacts DEF StopInv, StoppedIsDeletable
  <2> QED BY Zenon, <2>1, <2>2, <2>5, <2>6, ProcFacts DEF StopInv
<1>3. ASSUME NEW c \in Containers, DeleteContainer(c) PROVE StopInv'
  <2>1. UNCHANGED <<status, sbox, started>> BY Zenon, <1>3 DEF DeleteContainer
  <2>2. /\ vcs' = vcs \/ vcs' = [vcs EXCEPT ![c] = "none"]
        /\ reg' = reg \/ reg' = reg \ {c}
    BY Zenon, <1>3 DEF DeleteContainer, Forget
  <2>3. \A d \in Containers : vcs'[d] = vcs[d] \/ vcs'[d] = "none" BY Zenon, <2>2 DEF TypeOK, SandboxType
  <2>4. \A d : d \in reg' => d \in reg BY Zenon, <2>2
  <2>5. StoppedIsDeletable' BY Zenon, <2>1, <2>3, <2>4, ProcFacts DEF StopInv, StoppedIsDeletable
  <2> QED BY Zenon, <2>1, <2>3, <2>5, ProcFacts DEF StopInv
<1>4. ASSUME NEW e \in Execs, Exec(e) \/ DeleteExec(e) PROVE StopInv'
  <2>0. e \notin Containers /\ e \in Procs BY Zenon, ProcFacts, ProcsAssumption
  <2>1. UNCHANGED <<sbox, vcs, started>> BY Zenon, <1>4 DEF Exec, DeleteExec
  <2>2. \A d \in Containers : status'[d] = status[d]
    BY Zenon, <1>4, <2>0, ProcFacts DEF Exec, DeleteExec, TypeOK, TaskType
  <2>3. reg' = reg \cup {e} \/ reg' = reg \ {e} BY Zenon, <1>4 DEF Exec, DeleteExec
  <2>4. \A d \in Containers : d \in reg' => d \in reg BY Zenon, <2>0, <2>3
  <2>5. StoppedIsDeletable' BY Zenon, <2>1, <2>2, <2>4, ProcFacts DEF StopInv, StoppedIsDeletable
  <2> QED BY Zenon, <2>1, <2>2, <2>5, ProcFacts DEF StopInv
<1>5. ASSUME NEW p \in Procs, SendStarted(p) \/ NotifyStartError(p) \/ Kill(p) \/ ProcExits(p)
      PROVE  StopInv'
  BY Zenon, <1>1, <1>5 DEF SendStarted, NotifyStartError, Kill, ProcExits
<1>6. KillChildren \/ AgentDies => StopInv' BY Zenon, <1>0 DEF KillChildren, AgentDies
<1>7. WatchCleanup => StopInv'
  <2> SUFFICES ASSUME WatchCleanup PROVE StopInv' OBVIOUS
  <2>1. StopAndDelete BY Zenon DEF WatchCleanup
  <2>2. sbox' = "stopped" /\ \A c \in Containers : vcs'[c] = "none" BY Zenon, <1>0, <2>1, CleanStop
  <2> QED BY Zenon, <2>2, ProcFacts DEF StopInv, StoppedIsDeletable
<1>8. QuietStep => StopInv' BY Zenon, <1>1, QuietSteps DEF Quiet
<1>9. ASSUME NEW c \in Containers, Pause(c) \/ Resume(c) PROVE StopInv'
  BY Zenon, <1>2, <1>9 DEF Pause, Resume
<1>10. LoudStep => StopInv'
  BY Zenon, <1>0, <1>3, <1>4, <1>5, <1>6, <1>7, <1>9, StopCreate, StopStart, StopAgentFails, StopWait
     DEF LoudStep
<1> QED BY Zenon, <1>8, <1>10, Steps

\* In a pod whose virtual machine ends only with the sandbox and whose containers can be
\* stopped, for any client calls, failed creations, deadlines and, unless it is then called
\* again, failed Starts: the Delete of a container the shim has recorded as stopped is not
\* refused because the container still runs (delete.go:24, container.go:879).
THEOREM StoppedCanBeDeleted ==
    ASSUME Orderly, StartsOnce
    PROVE  Spec => []StoppedIsDeletable
<1> DEFINE Inv == LifeInv /\ EarlyInv /\ EndInv /\ StopInv
<1>1. Init => Inv
  <2> SUFFICES ASSUME Init PROVE EndInv /\ StopInv BY Zenon, LifeInit, EarlyInit
  <2>1. sbox = "nil" /\ agent = "ok" /\ reg = {} BY Zenon DEF Init
  <2> QED BY Zenon, <2>1 DEF EndInv, StopInv, StoppedIsDeletable
<1>2. TypeOK /\ Inv /\ [Next]_vars => Inv' BY Zenon, LifeNext, EarlyNext, EndNext, StopNext
<1>3. Inv => StoppedIsDeletable BY Zenon DEF StopInv
<1> HIDE DEF Inv
<1> QED BY <1>1, <1>2, <1>3, TypeCorrect, PTL DEF Spec

-----------------------------------------------------------------------------
(* The recorded exit code is that of the guest process.                      *)

\* The pod is not paused, a running container is not deleted, a stop does what it
\* is asked for and the virtual machine ends with the sandbox.
Undisturbed == {"pause", "forcedelete"} \cap ClientCalls = {} /\ Orderly

\* wait records the end of p while it holds the lock, before it tells anybody.
Recorded(p) ==
    /\ status[p] # "paused"
    /\ wg[p] # "none" => status[p] \in {"running", "stopped"}
    /\ status[p] = "stopped" => wg[p] \in {"locked", "done"}
    /\ wg[p] = "done" => status[p] = "stopped"
    /\ mu = At("exit", p) => status[p] = "stopped"
    /\ wg[p] = "locked" /\ status[p] = "stopped" => mu = At("exit", p)

RecordInv == \A p \in Procs : Recorded(p)

\* The containers, and the execs of the container that lives as long as the sandbox.
Lasting(p) == p \in Containers \/ ContOf(p) = Sandbox

\* In a running sandbox a container that is waited for runs until its end is
\* recorded, and what wait was told is what became of the guest process.
Faithful(p) ==
    /\ p \in Containers /\ status[p] = "running" /\ wg[p] # "none" => vcs[p] = "running"
    /\ wg[p] \in {"lock", "locked", "done"} => proc[p] = "exited" /\ wret[p] = code[p]
    /\ status[p] = "stopped" => exit[p] = wret[p]

GuestInv ==
    /\ sbox = "ready" => vcs[Sandbox] # "none"
    /\ sbox = "running" => vcs[Sandbox] = "running"
    /\ sbox = "running" => \A p \in Procs : Lasting(p) => Faithful(p)

LEMMA PointFacts ==
    \A p, q : /\ At("exit", p) # Free /\ At("exit", p) # At("create", q) /\ At("exit", p) # At("start", q)
              /\ At("exit", p) # At("startfail", q) /\ At("exit", p) # At("cancel", q)
              /\ At("exit", p) # At("stop", q)
              /\ (At("exit", p) = At("exit", q) => p = q)
<1>1. \A l, p, q : At("exit", p) = At(l, q) => l = "exit" /\ p = q BY SMT, LockFacts
<1>2. \A p : At("exit", p) # Free BY Zenon, LockFacts
<1> QED BY <1>1, <1>2

\* The start of a process: nobody waits for it, and it has not ended.
LEMMA StartFresh ==
    ASSUME TypeOK, LifeInv, EarlyInv, RecordInv, GuestInv, NEW p \in Procs,
           CanStart(p), StartPre(p), agent = "ok"
    PROVE  wg[p] = "none"
<1>1. CASE p = Sandbox
  <2>1. sbox = "ready" BY Zenon, <1>1, StartNeedsSandbox
  <2> QED BY Zenon, <2>1 DEF EarlyInv
<1>2. CASE p \in Apps
  <2>1. sbox = "running" BY Zenon, <1>2, StartNeedsSandbox, ProcsAssumption
  <2>2. vcs[p] # "running" BY Zenon, <1>2, StartSetFacts DEF Startable
  <2>3. status[p] = "running" => wg[p] = "none"
    BY Zenon, <1>2, <2>1, <2>2, ProcFacts DEF GuestInv, Lasting, Faithful
  <2>4. started[p] => status[p] # "stopped" BY Zenon DEF CanStart
  <2> QED BY Zenon, <2>3, <2>4 DEF RecordInv, Recorded, EarlyInv
<1>3. CASE p \in Execs
  <2>1. ~started[p] BY Zenon, <1>3, ProcsAssumption DEF CanStart
  <2> QED BY Zenon, <2>1 DEF EarlyInv
<1> QED BY Zenon, <1>1, <1>2, <1>3 DEF Procs, Containers

\* A Start that fails on the way was of a process nobody waits for yet.
LEMMA FailedStart ==
    ASSUME TypeOK, LifeInv, EarlyInv, EndInv, RecordInv, GuestInv, NEW p \in Procs,
           StartFailsLate(p) \/ (p \in Containers /\ StartAgentFails(p))
    PROVE  /\ CanStart(p) /\ StartPre(p) /\ agent = "ok" /\ wg[p] = "none" /\ status[p] # "stopped"
           /\ mu = Free /\ mu' = At("startfail", p) /\ UNCHANGED <<exit, wg, wret, code>>
<1>1. CanStart(p) /\ StartPre(p) /\ mu' = At("startfail", p) /\ UNCHANGED <<exit, wg, wret, code>>
  BY Zenon DEF StartFailsLate, StartAgentFails
<1>2. agent = "ok"
  <2>1. CASE StartFailsLate(p) BY Zenon, <2>1 DEF StartFailsLate
  <2>2. CASE p \in Containers /\ StartAgentFails(p)
    <3>1. PICK d \in StartSet(p) : TRUE BY Zenon, <2>2 DEF StartAgentFails
    <3>2. d \in Containers /\ Startable(d) BY Zenon, <1>1, <3>1, StartSetFacts
    <3>3. agent # "dead" BY Zenon, <3>2 DEF EndInv, Startable
    <3> QED BY Zenon, <3>3 DEF TypeOK, SandboxType
  <2> QED BY Zenon, <2>1, <2>2
<1>3. mu = Free BY Zenon, <1>1 DEF CanStart, Serve
<1>4. wg[p] = "none" BY Zenon, <1>1, <1>2, StartFresh
<1>5. status[p] # "stopped" BY Zenon, <1>4 DEF RecordInv, Recorded
<1> QED BY Zenon, <1>1, <1>2, <1>3, <1>4, <1>5

LEMMA RecordNext ==
    ASSUME TypeOK, LifeInv, EarlyInv, EndInv, RecordInv, GuestInv, Undisturbed, [Next]_vars
    PROVE  RecordInv'
<1>1. ASSUME UNCHANGED <<status, wg>>, \A q \in Procs : mu' = At("exit", q) <=> mu = At("exit", q)
      PROVE  RecordInv'
  BY Zenon, <1>1 DEF RecordInv, Recorded
<1>2. ASSUME NEW c \in Containers, Create(c) \/ CreateNext(c) PROVE RecordInv'
  <2>1. CASE ~CreateReturns(c)
    <3>1. UNCHANGED <<status, wg>> BY Zenon, <1>2, <2>1 DEF Create, CreateNext, CreateSucceeds, CreateFails, CreateTimesOut
    <3>2. mu' = mu \/ (mu \in {Free, At("create", c)} /\ mu' \in {Free, At("create", c)})
      BY Zenon, <1>2, <2>1 DEF Create, CreateNext, CreateSucceeds, CreateFails, CreateTimesOut
    <3>3. \A q \in Procs : mu' = At("exit", q) <=> mu = At("exit", q) BY Zenon, <3>2, PointFacts
    <3> QED BY Zenon, <1>1, <3>1, <3>3
  <2>2. CASE CreateReturns(c)
    <3>1. mu = At("create", c) /\ mu' = Free /\ UNCHANGED wg /\ wg[c] = "none"
      BY Zenon, <2>2 DEF CreateReturns, LifeInv
    <3>2. \A q \in Procs : status'[q] = status[q] \/ (q = c /\ status'[q] = "created")
      BY Zenon, <2>2, ProcFacts DEF CreateReturns, TypeOK, TaskType
    <3>3. \A q \in Procs : mu' # At("exit", q) /\ mu # At("exit", q) BY Zenon, <3>1, PointFacts
    <3> QED BY Zenon, <3>1, <3>2, <3>3 DEF RecordInv, Recorded
  <2> QED BY Zenon, <2>1, <2>2
<1>3. ASSUME NEW e \in Execs, Exec(e) \/ DeleteExec(e) PROVE RecordInv'
  <2>1. UNCHANGED <<mu, wg>> BY Zenon, <1>3 DEF Exec, DeleteExec
  <2>2. \A q \in Procs : status'[q] = status[q] \/ (q = e /\ status'[q] = "created" /\ status[q] = "new")
    BY Zenon, <1>3, ProcFacts DEF Exec, DeleteExec, TypeOK, TaskType
  <2> QED BY Zenon, <2>1, <2>2 DEF RecordInv, Recorded
<1>4. ASSUME NEW p \in Procs, StartSucceeds(p) PROVE RecordInv'
  <2>1. mu = Free /\ mu' = At("start", p) /\ CanStart(p) /\ StartPre(p) /\ agent = "ok"
    BY Zenon, <1>4 DEF StartSucceeds, CanStart, Serve
  <2>2. wg[p] = "none" BY Zenon, <2>1, StartFresh
  <2>3. /\ status'[p] = "running" /\ wg'[p] \in {"get", "io"}
        /\ \A q \in Procs \ {p} : status'[q] = status[q] /\ wg'[q] = wg[q]
    BY Zenon, <1>4 DEF StartSucceeds, TypeOK, TaskType, WaitType
  <2>4. \A q \in Procs : mu' # At("exit", q) /\ mu # At("exit", q) BY Zenon, <2>1, PointFacts
  <2> QED BY Zenon, <2>3, <2>4 DEF RecordInv, Recorded
<1>5. ASSUME NEW p \in Procs, StartRefused(p) \/ SendStarted(p) \/ NotifyStartError(p) PROVE RecordInv'
  <2>1. UNCHANGED <<status, wg>> BY Zenon, <1>5 DEF StartRefused, SendStarted, NotifyStartError
  <2>2. /\ mu \in {Free, At("start", p), At("startfail", p)}
        /\ mu' \in {Free, At("start", p), At("startfail", p)}
    BY Zenon, <1>5 DEF StartRefused, SendStarted, NotifyStartError, CanStart, Serve
  <2>3. \A q \in Procs : mu' # At("exit", q) /\ mu # At("exit", q) BY Zenon, <2>2, PointFacts
  <2> QED BY Zenon, <1>1, <2>1, <2>3
<1>6. ASSUME NEW p \in Procs, Kill(p) \/ ProcExits(p) PROVE RecordInv'
  BY Zenon, <1>1, <1>6 DEF Kill, ProcExits
<1>7. ASSUME NEW c \in Containers, DeleteContainer(c) PROVE RecordInv'
  BY Zenon, <1>1, <1>7 DEF DeleteContainer
<1>8. ASSUME NEW c \in Containers, Pause(c) \/ Resume(c) PROVE RecordInv'
  BY Zenon, <1>8 DEF Pause, Resume, Switch, Undisturbed
<1>9. KillChildren \/ AgentDies \/ WatchCleanup => RecordInv'
  BY Zenon, <1>1 DEF KillChildren, AgentDies, WatchCleanup
<1>10. ASSUME NEW p \in Procs, WaitLock(p) \/ WaitGoroutine(p) PROVE RecordInv'
  <2>1. CASE WaitGetExec(p) \/ WaitIOClosed(p) \/ WaitProcess(p) \/ WaitAgent(p)
    <3>1. UNCHANGED <<mu, status>> /\ wg[p] \in {"get", "io", "check", "agent"}
      BY Zenon, <2>1 DEF WaitGetExec, WaitIOClosed, WaitProcess, WaitAgent, WaitStep
    <3>2. \E l \in {"io", "gone", "check", "agent", "lock"} : wg' = [wg EXCEPT ![p] = l]
      BY Zenon, <2>1 DEF WaitGetExec, WaitIOClosed, WaitProcess, WaitAgent, WaitStep
    <3>3. wg'[p] \in {"io", "gone", "check", "agent", "lock"} /\ \A q \in Procs \ {p} : wg'[q] = wg[q]
      BY Zenon, <3>2 DEF TypeOK, WaitType
    <3> QED BY Zenon, <3>1, <3>3 DEF RecordInv, Recorded
  <2>2. CASE WaitLock(p)
    <3>1. mu = Free /\ UNCHANGED status /\ mu' \in {At("cancel", p), At("stop", p)} /\ wg[p] = "lock"
      BY Zenon, <2>2 DEF WaitLock, WaitStep
    <3>2. wg'[p] = "locked" /\ \A q \in Procs \ {p} : wg'[q] = wg[q]
      BY Zenon, <2>2 DEF WaitLock, WaitStep, TypeOK, WaitType
    <3>3. \A q \in Procs : mu' # At("exit", q) /\ mu # At("exit", q) BY Zenon, <3>1, PointFacts
    <3> QED BY Zenon, <3>1, <3>2, <3>3 DEF RecordInv, Recorded
  <2>3. CASE WaitCancelWatcher(p)
    <3>1. mu = At("cancel", p) /\ mu' = At("stop", p) /\ UNCHANGED <<status, wg>>
      BY Zenon, <2>3 DEF WaitCancelWatcher
    <3>2. \A q \in Procs : mu' # At("exit", q) /\ mu # At("exit", q) BY Zenon, <3>1, PointFacts
    <3> QED BY Zenon, <1>1, <3>1, <3>2
  <2>4. CASE WaitStop(p)
    <3>1. mu = At("stop", p) /\ mu' = At("exit", p) /\ UNCHANGED wg BY Zenon, <2>4 DEF WaitStop
    <3>2. wg[p] = "locked" BY Zenon, <3>1 DEF LifeInv, Locked
    <3>3. status'[p] = "stopped" /\ \A q \in Procs \ {p} : status'[q] = status[q]
      BY Zenon, <2>4 DEF WaitStop, TypeOK, TaskType
    <3>4. \A q \in Procs : mu # At("exit", q) /\ (mu' = At("exit", q) => q = p) BY Zenon, <3>1, PointFacts
    <3> QED BY Zenon, <3>1, <3>2, <3>3, <3>4 DEF RecordInv, Recorded
  <2>5. CASE WaitNotify(p)
    <3>1. mu = At("exit", p) /\ mu' = Free /\ UNCHANGED status BY Zenon, <2>5 DEF WaitNotify
    <3>2. wg'[p] = "done" /\ \A q \in Procs \ {p} : wg'[q] = wg[q]
      BY Zenon, <2>5 DEF WaitNotify, WaitStep, TypeOK, WaitType
    <3>3. \A q \in Procs : mu' # At("exit", q) /\ (mu = At("exit", q) => q = p) BY Zenon, <3>1, PointFacts
    <3> QED BY Zenon, <3>1, <3>2, <3>3 DEF RecordInv, Recorded
  <2> QED BY Zenon, <1>10, <2>1, <2>2, <2>3, <2>4, <2>5 DEF WaitGoroutine
<1>11. ASSUME NEW p \in Procs, StartFailsLate(p) \/ (p \in Containers /\ StartAgentFails(p)) PROVE RecordInv'
  <2>1. wg[p] = "none" /\ UNCHANGED wg /\ mu = Free /\ mu' = At("startfail", p)
    BY Zenon, <1>11, FailedStart
  <2>2. \A q \in Procs : status'[q] = status[q] \/ (q = p /\ status'[q] = "running")
    BY Zenon, <1>11 DEF StartFailsLate, StartAgentFails, TypeOK, TaskType
  <2>3. \A q \in Procs : mu' # At("exit", q) /\ mu # At("exit", q) BY Zenon, <2>1, PointFacts
  <2> QED BY Zenon, <2>1, <2>2, <2>3 DEF RecordInv, Recorded
<1>12. QuietStep => RecordInv' BY Zenon, <1>1, QuietSteps DEF Quiet
<1>13. LoudStep => RecordInv'
  BY Zenon, <1>2, <1>3, <1>4, <1>5, <1>6, <1>7, <1>8, <1>9, <1>10, <1>11, ProcFacts DEF LoudStep
<1> QED BY Zenon, <1>12, <1>13, Steps

\* Ending processes leaves what had ended as it is.
LEMMA EndedStays ==
    ASSUME TypeOK, NEW S, EndProcs(S), NEW p \in Procs, proc[p] = "exited"
    PROVE  proc'[p] = "exited" /\ code'[p] = code[p]
BY Zenon DEF EndProcs

\* A step that changes no container and ends no process twice keeps what is known of p.
LEMMA FaithfulStays ==
    ASSUME NEW p \in Procs, Faithful(p),
           status'[p] = status[p], wg'[p] = wg[p], wret'[p] = wret[p], exit'[p] = exit[p],
           p \in Containers /\ status[p] = "running" => vcs'[p] = vcs[p],
           proc[p] = "exited" => proc'[p] = "exited" /\ code'[p] = code[p]
    PROVE  Faithful(p)'
BY Zenon DEF Faithful

LEMMA GuestCreate ==
    ASSUME TypeOK, LifeInv, EarlyInv, GuestInv, NEW c \in Containers, Create(c) \/ CreateNext(c)
    PROVE  GuestInv'
<1>1. CASE ~CreateSucceeds(c)
  <2>1. UNCHANGED <<exit, wg, wret, sbox, vcs, proc, code>>
    BY Zenon, <1>1 DEF Create, CreateNext, CreateFails, CreateReturns, CreateTimesOut
  <2>2. \A q \in Procs : status'[q] = status[q] \/ status'[q] = "created"
    BY Zenon, <1>1, ProcFacts DEF Create, CreateNext, CreateFails, CreateReturns, CreateTimesOut, TypeOK, TaskType
  <2> QED BY Zenon, <2>1, <2>2 DEF GuestInv, Faithful
<1>2. CASE CreateSucceeds(c)
  <2>1. UNCHANGED <<status, exit, wg, wret, proc, code>> /\ status[c] = "new"
    BY Zenon, <1>2 DEF CreateSucceeds, LifeInv
  <2>2. vcs'[c] = "ready" /\ \A d \in Containers \ {c} : vcs'[d] = vcs[d]
    BY Zenon, <1>2 DEF CreateSucceeds, TypeOK, SandboxType
  <2>3. IF c = Sandbox THEN sbox' = "ready" ELSE sbox' = sbox BY Zenon, <1>2 DEF CreateSucceeds
  <2>4. (sbox' = "ready" => vcs'[Sandbox] # "none") /\ (sbox' = "running" => vcs'[Sandbox] = "running")
    BY Zenon, <2>2, <2>3, ProcFacts DEF GuestInv
  <2>5. ASSUME sbox' = "running", NEW q \in Procs, Lasting(q) PROVE Faithful(q)'
    <3>1. Faithful(q) BY Zenon, <2>3, <2>5 DEF GuestInv
    <3> QED BY Zenon, <2>1, <2>2, <3>1, FaithfulStays
  <2> QED BY Zenon, <2>4, <2>5 DEF GuestInv, Lasting
<1> QED BY Zenon, <1>1, <1>2

\* A Start that succeeds, or fails after the guest process runs.
LEMMA GuestStart ==
    ASSUME TypeOK, LifeInv, EarlyInv, EndInv, RecordInv, GuestInv, NEW p \in Procs,
           StartSucceeds(p) \/ StartFailsLate(p)
    PROVE  GuestInv'
<1>1. /\ CanStart(p) /\ StartPre(p) /\ agent = "ok" /\ UNCHANGED <<exit, wret, code>>
      /\ RunProcs(p, StartSet(p))
  BY Zenon DEF StartSucceeds, StartFailsLate
<1>2. sbox' = IF p = Sandbox THEN "running" ELSE sbox BY Zenon DEF StartSucceeds, StartFailsLate
<1>3. \A d \in Containers : vcs'[d] = IF d \in StartSet(p) THEN "running" ELSE vcs[d]
  BY Zenon DEF StartSucceeds, StartFailsLate
<1>4. /\ status'[p] # "stopped" /\ wg'[p] \in {"none", "get", "io"}
      /\ \A q \in Procs \ {p} : status'[q] = status[q] /\ wg'[q] = wg[q]
  <2>1. CASE StartSucceeds(p) BY Zenon, <2>1 DEF StartSucceeds, TypeOK, TaskType, WaitType
  <2>2. CASE StartFailsLate(p)
    <3>1. wg[p] = "none" /\ status[p] # "stopped" /\ UNCHANGED wg BY Zenon, <2>2, FailedStart
    <3>2. UNCHANGED status \/ status' = [status EXCEPT ![p] = "running"] BY Zenon, <2>2 DEF StartFailsLate
    <3> QED BY Zenon, <3>1, <3>2 DEF TypeOK, TaskType
  <2> QED BY Zenon, <2>1, <2>2
<1>5. CASE p = Sandbox
  <2>1. sbox = "ready" /\ vcs[Sandbox] # "none" BY Zenon, <1>1, <1>5, StartNeedsSandbox DEF GuestInv
  <2>2. \A q \in Procs : wg[q] = "none" BY Zenon, <2>1 DEF EarlyInv
  <2>3. Sandbox \in StartSet(p) BY Zenon, <1>1, <1>5, <2>1, StartSetFacts, ProcFacts DEF Live
  <2>4. vcs'[Sandbox] = "running" BY Zenon, <1>3, <2>3, ProcFacts
  <2>5. ASSUME NEW q \in Procs PROVE Faithful(q)'
    BY Zenon, <1>4, <1>5, <2>2, <2>4 DEF Faithful, RecordInv, Recorded
  <2> QED BY Zenon, <1>2, <1>5, <2>4, <2>5 DEF GuestInv
<1>6. CASE p # Sandbox
  <2>1. sbox = "running" /\ sbox' = "running" BY Zenon, <1>1, <1>2, <1>6, StartNeedsSandbox
  <2>2. Sandbox \notin StartSet(p) /\ StartSet(p) \subseteq {p}
    BY Zenon, <1>1, <1>6, StartSetFacts DEF Procs, Containers
  <2>3. vcs'[Sandbox] = "running" BY Zenon, <1>3, <2>1, <2>2, ProcFacts DEF GuestInv
  <2>4. \A q \in Procs \ {p} : proc'[q] = proc[q] BY Zenon, <1>1, <2>2 DEF RunProcs
  <2>5. p \in Containers => vcs'[p] = "running"
    <3>1. p \in Containers => p \in StartSet(p) BY Zenon, <1>1, <1>6, StartSetFacts DEF Containers
    <3> QED BY Zenon, <1>3, <3>1
  <2>6. Faithful(p)' BY Zenon, <1>4, <2>5 DEF Faithful
  <2>7. ASSUME NEW q \in Procs, q # p, Lasting(q) PROVE Faithful(q)'
    <3>1. Faithful(q) BY Zenon, <2>1, <2>7 DEF GuestInv
    <3>2. q \in Containers => vcs'[q] = vcs[q] BY Zenon, <1>3, <2>2, <2>7
    <3> QED BY Zenon, <1>1, <1>4, <2>4, <2>7, <3>1, <3>2 DEF Faithful
  <2> QED BY Zenon, <2>1, <2>3, <2>6, <2>7 DEF GuestInv, Lasting
<1> QED BY Zenon, <1>5, <1>6

\* A Start the agent refuses: one container is stopped, others may run already.
LEMMA GuestStartFails ==
    ASSUME TypeOK, LifeInv, EarlyInv, EndInv, RecordInv, GuestInv, NEW c \in Containers, StartAgentFails(c)
    PROVE  GuestInv'
<1>0. c \in Procs BY Zenon, ProcFacts
<1>1. CanStart(c) /\ StartPre(c) /\ agent = "ok" /\ wg[c] = "none" /\ UNCHANGED <<exit, wg, wret, code>>
  BY Zenon, <1>0, FailedStart
<1>2. UNCHANGED <<status, sbox>> BY Zenon DEF StartAgentFails
<1>3. PICK f \in StartSet(c) : \E S \in SUBSET (StartSet(c) \ {f}) :
         /\ vcs' = [d \in Containers |-> IF d = f THEN "stopped" ELSE IF d \in S THEN "running" ELSE vcs[d]]
         /\ proc' = [q \in Procs |-> IF q \in S THEN "running" ELSE proc[q]]
  BY Zenon, <1>1 DEF StartAgentFails
<1>4. CASE c = Sandbox
  <2>1. sbox = "ready" /\ vcs[Sandbox] # "none" BY Zenon, <1>0, <1>1, <1>4, StartNeedsSandbox DEF GuestInv
  <2>2. vcs'[Sandbox] # "none" BY Zenon, <1>3, <2>1, ProcFacts
  <2> QED BY Zenon, <1>2, <2>1, <2>2 DEF GuestInv
<1>5. CASE c # Sandbox
  <2>1. sbox = "running" BY Zenon, <1>0, <1>1, <1>5, StartNeedsSandbox
  <2>2. StartSet(c) \subseteq {c} BY Zenon, <1>0, <1>1, <1>5, StartSetFacts DEF Containers
  <2>3. \A d \in Containers \ {c} : vcs'[d] = vcs[d] BY Zenon, <1>3, <2>2
  <2>4. \A q \in Procs : proc'[q] = proc[q] BY Zenon, <1>3, <2>2
  <2>5. ASSUME NEW q \in Procs, Lasting(q) PROVE Faithful(q)'
    <3>1. Faithful(q) BY Zenon, <2>1, <2>5 DEF GuestInv
    <3> QED BY Zenon, <1>1, <1>2, <2>3, <2>4, <3>1 DEF Faithful
  <2> QED BY Zenon, <1>2, <1>5, <2>1, <2>3, <2>5, ProcFacts DEF GuestInv, Lasting
<1> QED BY Zenon, <1>4, <1>5

\* The steps of wait: what it takes from the agent is the code of the process.
LEMMA GuestWait ==
    ASSUME TypeOK, LifeInv, EndInv, RecordInv, GuestInv, Undisturbed, NEW p \in Procs,
           WaitLock(p) \/ WaitGoroutine(p)
    PROVE  GuestInv'
<1>0. "stop" \notin Faults BY Zenon DEF Undisturbed, Orderly
<1>1. CASE WaitStop(p)
  <2>1. UNCHANGED <<wg, wret>> BY Zenon, <1>1 DEF WaitStop
  <2>2. CASE p = Sandbox
    <3>1. StopAndDelete BY Zenon, <1>1, <2>2, ProcsAssumption DEF WaitStop, Containers
    <3> QED BY Zenon, <1>0, <3>1, CleanStop DEF GuestInv
  <2>3. CASE p # Sandbox
    <3>1. UNCHANGED sbox BY Zenon, <1>1, <2>3 DEF WaitStop, Procs, Containers
    <3>2. vcs' = vcs \/ (p \in Apps /\ vcs' = [vcs EXCEPT ![p] = "stopped"])
      BY Zenon, <1>1, <2>3 DEF WaitStop, Procs, Containers, StopContainer
    <3>3. \A d \in Containers \ {p} : vcs'[d] = vcs[d] BY Zenon, <3>2 DEF TypeOK, SandboxType
    <3>4. UNCHANGED <<proc, code>> \/ EndProcs({p})
      BY Zenon, <1>1, <2>3 DEF WaitStop, Procs, Containers, StopContainer
    <3>5. \A q \in Procs : proc[q] = "exited" => proc'[q] = "exited" /\ code'[q] = code[q]
      BY Zenon, <3>4, EndedStays
    <3>6. /\ status'[p] = "stopped" /\ exit'[p] = wret[p]
          /\ \A q \in Procs \ {p} : status'[q] = status[q] /\ exit'[q] = exit[q]
      BY Zenon, <1>1 DEF WaitStop, TypeOK, TaskType
    <3>7. ASSUME sbox' = "running", NEW q \in Procs, Lasting(q) PROVE Faithful(q)'
      <4>1. Faithful(q) BY Zenon, <3>1, <3>7 DEF GuestInv
      <4>2. CASE q = p BY Zenon, <2>1, <3>5, <3>6, <4>1, <4>2 DEF Faithful
      <4>3. CASE q # p BY Zenon, <2>1, <3>3, <3>5, <3>6, <4>1, <4>3 DEF Faithful
      <4> QED BY Zenon, <4>2, <4>3
    <3> QED BY Zenon, <2>3, <3>1, <3>3, <3>7, ProcFacts DEF GuestInv, Lasting
  <2> QED BY Zenon, <2>2, <2>3
<1>2. CASE WaitProcess(p) \/ WaitAgent(p)
  <2>1. UNCHANGED <<status, exit, sbox, vcs, proc, code>> BY Zenon, <1>2 DEF WaitProcess, WaitAgent
  <2>2. wg[p] \in {"check", "agent"} /\ wg'[p] \in {"agent", "lock"}
    BY Zenon, <1>2 DEF WaitProcess, WaitAgent, WaitStep, TypeOK, WaitType
  <2>3. \A q \in Procs \ {p} : wg'[q] = wg[q] /\ wret'[q] = wret[q]
    BY Zenon, <1>2 DEF WaitProcess, WaitAgent, WaitStep, TypeOK, WaitType
  <2>4. status[p] = "running" BY Zenon, <2>2 DEF RecordInv, Recorded
  <2>5. ASSUME sbox = "running", Lasting(p) PROVE Faithful(p)'
    <3>1. Faithful(p) BY Zenon, <2>5 DEF GuestInv
    <3>2. p \in Containers => vcs[p] = "running" BY Zenon, <2>2, <2>4, <3>1 DEF Faithful
    <3>3. vcs[ContOf(p)] = "running"
      <4>1. CASE p \in Containers BY Zenon, <3>2, <4>1, ProcsAssumption DEF ContOf
      <4>2. CASE ContOf(p) = Sandbox BY Zenon, <2>5, <4>2 DEF GuestInv
      <4> QED BY Zenon, <2>5, <4>1, <4>2 DEF Lasting
    <3>4. agent = "ok" BY Zenon, <2>5 DEF EndInv, TypeOK, SandboxType
    <3>5. wg'[p] = "lock" => proc[p] = "exited" /\ wret'[p] = code[p]
      <4>1. CASE WaitProcess(p) BY Zenon, <2>5, <3>3, <4>1 DEF WaitProcess, WaitStep, TypeOK, WaitType
      <4>2. CASE WaitAgent(p) BY Zenon, <3>4, <4>2 DEF WaitAgent, TypeOK, WaitType
      <4> QED BY Zenon, <1>2, <4>1, <4>2
    <3> QED BY Zenon, <2>1, <2>2, <2>4, <3>2, <3>5 DEF Faithful
  <2>6. ASSUME sbox = "running", NEW q \in Procs, q # p, Lasting(q) PROVE Faithful(q)'
    <3>1. Faithful(q) BY Zenon, <2>6 DEF GuestInv
    <3> QED BY Zenon, <2>1, <2>3, <2>6, <3>1 DEF Faithful
  <2> QED BY Zenon, <2>1, <2>5, <2>6 DEF GuestInv, Lasting
<1>3. CASE ~(WaitStop(p) \/ WaitProcess(p) \/ WaitAgent(p))
  <2>1. UNCHANGED <<status, exit, wret, sbox, vcs, proc, code>>
    BY Zenon, <1>3 DEF WaitLock, WaitGoroutine, WaitGetExec, WaitIOClosed, WaitCancelWatcher, WaitNotify
  <2>2. /\ wg[p] # "none" \/ wg' = wg
        /\ wg' = wg \/ \E l : wg' = [wg EXCEPT ![p] = l]
        /\ wg'[p] \in {"lock", "locked", "done"} => wg[p] \in {"lock", "locked", "done"}
    BY Zenon, <1>3 DEF WaitLock, WaitGoroutine, WaitGetExec, WaitIOClosed, WaitCancelWatcher, WaitNotify,
       WaitStep, TypeOK, WaitType
  <2>3. \A q \in Procs \ {p} : wg'[q] = wg[q] BY Zenon, <2>2 DEF TypeOK, WaitType
  <2>4. ASSUME NEW q \in Procs, Faithful(q) PROVE Faithful(q)'
    BY Zenon, <2>1, <2>2, <2>3, <2>4 DEF Faithful
  <2> QED BY Zenon, <2>1, <2>4 DEF GuestInv, Lasting
<1> QED BY Zenon, <1>1, <1>2, <1>3

LEMMA GuestNextInv ==
    ASSUME TypeOK, LifeInv, EarlyInv, EndInv, RecordInv, GuestInv, Undisturbed, [Next]_vars
    PROVE  GuestInv'
<1>0. /\ "stop" \notin Faults /\ "agent" \notin Faults /\ "virtiofsd" \notin Faults
      /\ "pause" \notin ClientCalls /\ "forcedelete" \notin ClientCalls
  BY Zenon DEF Undisturbed, Orderly
<1>1. UNCHANGED <<status, exit, wg, wret, sbox, vcs, proc, code>> => GuestInv'
  BY Zenon DEF GuestInv, Faithful
<1>2. ASSUME UNCHANGED <<status, exit, wg, wret, sbox>>,
             \A d \in Containers : vcs'[d] = vcs[d] \/ (status[d] # "running" /\ d # Sandbox),
             \A q \in Procs : proc[q] = "exited" => proc'[q] = "exited" /\ code'[q] = code[q]
      PROVE  GuestInv'
  <2>1. ASSUME sbox' = "running", NEW q \in Procs, Lasting(q) PROVE Faithful(q)'
    <3>1. Faithful(q) BY Zenon, <1>2, <2>1 DEF GuestInv
    <3> QED BY Zenon, <1>2, <3>1 DEF Faithful
  <2> QED BY Zenon, <1>2, <2>1, ProcFacts DEF GuestInv, Lasting
<1>3. ASSUME NEW c \in Containers, DeleteContainer(c) PROVE GuestInv'
  <2>1. UNCHANGED <<status, exit, wg, wret, sbox>> /\ status[c] # "running"
    BY Zenon, <1>0, <1>3 DEF DeleteContainer
  <2>2. vcs' = vcs \/ (c \in Apps /\ vcs' = [vcs EXCEPT ![c] = "none"]) BY Zenon, <1>3 DEF DeleteContainer
  <2>3. \A d \in Containers : vcs'[d] = vcs[d] \/ (status[d] # "running" /\ d # Sandbox)
    BY Zenon, <2>1, <2>2, ProcsAssumption DEF TypeOK, SandboxType
  <2>4. UNCHANGED <<proc, code>> \/ \E S : EndProcs(S) BY Zenon, <1>3 DEF DeleteContainer
  <2>5. \A q \in Procs : proc[q] = "exited" => proc'[q] = "exited" /\ code'[q] = code[q]
    BY Zenon, <2>4, EndedStays
  <2> QED BY Zenon, <1>2, <2>1, <2>3, <2>5
<1>4. ASSUME NEW e \in Execs, Exec(e) \/ DeleteExec(e) PROVE GuestInv'
  <2>1. UNCHANGED <<exit, wg, wret, sbox, vcs, proc, code>> BY Zenon, <1>4 DEF Exec, DeleteExec
  <2>2. \A q \in Procs : status'[q] = status[q] \/ status'[q] = "created"
    BY Zenon, <1>4, ProcFacts DEF Exec, DeleteExec, TypeOK, TaskType
  <2> QED BY Zenon, <2>1, <2>2 DEF GuestInv, Faithful
<1>5. ASSUME NEW p \in Procs, StartRefused(p) \/ SendStarted(p) \/ NotifyStartError(p) PROVE GuestInv'
  BY Zenon, <1>1, <1>5 DEF StartRefused, SendStarted, NotifyStartError
<1>6. ASSUME NEW p \in Procs, Kill(p) \/ ProcExits(p) PROVE GuestInv'
  <2>1. UNCHANGED <<status, exit, wg, wret, sbox, vcs>> BY Zenon, <1>6 DEF Kill, ProcExits
  <2>2. \A q \in Procs : proc[q] = "exited" => proc'[q] = "exited" /\ code'[q] = code[q]
    <3>1. CASE ProcExits(p) BY Zenon, <3>1 DEF ProcExits, TypeOK, SandboxType
    <3>2. CASE Kill(p)
      <4>1. UNCHANGED <<proc, code>> \/ SignalProcess(p) BY Zenon, <3>2 DEF Kill
      <4>2. CASE SignalProcess(p) /\ p \in Containers BY Zenon, <4>2, EndedStays DEF SignalProcess
      <4>3. CASE SignalProcess(p) /\ p \notin Containers
        BY Zenon, <4>3 DEF SignalProcess, TypeOK, SandboxType
      <4> QED BY Zenon, <4>1, <4>2, <4>3
    <3> QED BY Zenon, <1>6, <3>1, <3>2
  <2> QED BY Zenon, <1>2, <2>1, <2>2
<1>7. ASSUME NEW c \in Containers, Pause(c) \/ Resume(c) PROVE GuestInv'
  BY Zenon, <1>0, <1>7 DEF Pause, Resume, Switch
<1>8. KillChildren \/ AgentDies \/ WatchCleanup => GuestInv'
  BY Zenon, <1>0, CleanStop DEF KillChildren, AgentDies, WatchCleanup, GuestInv
<1>9. QuietStep => GuestInv' BY Zenon, <1>1, QuietSteps DEF Quiet
<1>10. LoudStep => GuestInv'
  BY Zenon, <1>3, <1>4, <1>5, <1>6, <1>7, <1>8, GuestCreate, GuestStart,
     GuestStartFails, GuestWait DEF LoudStep
<1> QED BY Zenon, <1>9, <1>10, Steps

\* In an undisturbed pod, whatever is created, started, signalled, waited for and deleted:
\* the end the shim records for a container, or for an exec of the sandbox's container, is
\* that of the guest process, with its code (wait.go: WaitProcess, exit, status).
LEMMA LastingExit ==
    ASSUME Undisturbed
    PROVE  Spec => [](sbox = "running" => \A p \in Procs : Lasting(p) /\ status[p] = "stopped" =>
                                             proc[p] = "exited" /\ exit[p] = code[p])
<1> DEFINE Inv == LifeInv /\ EarlyInv /\ EndInv /\ RecordInv /\ GuestInv
<1> DEFINE Goal == sbox = "running" => \A p \in Procs : Lasting(p) /\ status[p] = "stopped" =>
                                          proc[p] = "exited" /\ exit[p] = code[p]
<1>1. Init => Inv
  <2> SUFFICES ASSUME Init PROVE EndInv /\ RecordInv /\ GuestInv BY Zenon, LifeInit, EarlyInit
  <2>1. sbox = "nil" /\ agent = "ok" /\ mu = Free BY Zenon DEF Init
  <2>2. \A p \in Procs : status[p] = "new" /\ wg[p] = "none" BY Zenon DEF Init
  <2>3. \A p \in Procs : mu # At("exit", p) BY Zenon, <2>1, PointFacts
  <2> QED BY Zenon, <2>1, <2>2, <2>3 DEF EndInv, RecordInv, Recorded, GuestInv
<1>2. TypeOK /\ Inv /\ [Next]_vars => Inv'
  <2>1. Undisturbed => Orderly BY Zenon DEF Undisturbed
  <2> QED BY Zenon, <2>1, LifeNext, EarlyNext, EndNext, RecordNext, GuestNextInv
<1>3. Inv => Goal
  <2> SUFFICES ASSUME Inv, sbox = "running", NEW p \in Procs, Lasting(p), status[p] = "stopped"
               PROVE  proc[p] = "exited" /\ exit[p] = code[p]
    BY Zenon
  <2>1. Faithful(p) BY Zenon DEF GuestInv
  <2>2. wg[p] \in {"locked", "done"} BY Zenon DEF RecordInv, Recorded
  <2> QED BY Zenon, <2>1, <2>2 DEF Faithful
<1> HIDE DEF Inv, Goal
<1>4. Spec => []Goal BY <1>1, <1>2, <1>3, TypeCorrect, PTL DEF Spec
<1> QED BY <1>4 DEF Goal

\* The recorded exit codes of an undisturbed pod whose execs run in the sandbox's
\* container are those of the guest processes; LastingExit says which are in any pod
\* (an exec of another container can lose its code when that container ends first).
THEOREM ExitCodesAreGuests ==
    ASSUME Undisturbed, \A e \in Execs : ExecOf[e] = Sandbox
    PROVE  Spec => []ExitCodeIsGuests
<1>1. \A p \in Procs : Lasting(p)
  BY Zenon, ProcsAssumption DEF Lasting, ContOf, Procs
<1>2. (sbox = "running" => \A p \in Procs : Lasting(p) /\ status[p] = "stopped" =>
                              proc[p] = "exited" /\ exit[p] = code[p])
      => ExitCodeIsGuests
  BY Zenon, <1>1 DEF ExitCodeIsGuests
<1> QED BY <1>2, LastingExit, PTL

=============================================================================
