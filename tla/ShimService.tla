---------------------------- MODULE ShimService ----------------------------
(***************************************************************************)
(* The containerd shim (pkg/containerd-shim-v2) driving a sandbox whose    *)
(* containers run in a virtual machine.  One step is what one goroutine    *)
(* does between two points where another goroutine can interfere: every    *)
(* RPC handler runs under service.mu, so a handler is one step unless it   *)
(* blocks while it holds the lock.  mu.at is the program point of the      *)
(* holder.  eventSendMu is only ever taken by a holder of mu               *)
(* (service.go:463, 1203), so mu stands for both.                          *)
(***************************************************************************)
EXTENDS Integers, Sequences, FiniteSets

CONSTANTS
    Sandbox,      \* the container that stands for the sandbox
    Apps,         \* the other containers of the pod
    Execs,        \* additional processes (Exec RPC)
    ExecOf,       \* the container each exec runs in
    Stdio,        \* the processes that were given stdin, stdout or stderr
    Waiters,      \* concurrent Wait RPCs
    GuestCodes,   \* exit codes of guest processes
    ClientCalls,  \* optional client behaviour: "pause", "restart" (Start again),
                  \* "late" (Create while the shim exits), "early" (Create before
                  \* the sandbox runs), "forcedelete" (Delete of a running one)
    Faults,       \* failures: "create", "timeout", "start", "stop", "agent",
                  \* "virtiofsd" (a child of the shim that Kill ends)
    EcCap,        \* capacity of service.ec (32 in the code)
    EventCap,     \* capacity of service.events (128)
    WatcherCap    \* capacity of a monitor watcher channel (128)

Containers == {Sandbox} \cup Apps
Procs == Containers \cup Execs

ASSUME ProcsAssumption ==
    /\ Sandbox \notin Apps
    /\ Containers \cap Execs = {}
    /\ ExecOf \in [Execs -> Containers]
    /\ Stdio \subseteq Procs

ASSUME CodesAssumption == GuestCodes \subseteq Nat

ASSUME CapsAssumption ==
    /\ EcCap \in Nat \ {0}
    /\ EventCap \in Nat \ {0}
    /\ WatcherCap \in Nat \ {0}

ExitCode255 == 255
NoCode == -1                        \* an empty exitCh (capacity 1)
Codes == GuestCodes \cup {0, ExitCode255}

ContOf(p) == IF p \in Execs THEN ExecOf[p] ELSE p

VARIABLES
    shim,       \* the shim process: "up", "exiting" (past Shutdown's check), "exited"
    mu,         \* service.mu: program point and process of its holder
    create,     \* the goroutine that runs create() for a container
    reg,        \* the keys of service.containers and of container.execs
    status,     \* container.status / exec.status ("new": no such object yet)
    exit,       \* container.exit / exec.exitCode
    exitCh,     \* the content of container.exitCh / exec.exitCh
    exitIO,     \* exitIOch is closed
    started,    \* the client has called Start
    wg,         \* program point of the wait() goroutine
    wret,       \* its local variable ret
    rpc,        \* the Wait RPCs
    reap,       \* cReap goroutines that have not sent yet
    ec,         \* service.ec
    pe,         \* what processExits is working on
    events,     \* service.events
    forwarded,  \* events taken out of it by the forwarder
    sbox,       \* service.sandbox and its virtcontainers state
    vcs,        \* virtcontainers state of each container ("none": not in the sandbox)
    vm,         \* the hypervisor process
    hpid,       \* what service.hpid names
    agent,      \* the connection to the guest agent
    proc,       \* the guest process behind each container and exec
    code,       \* its exit code
    monitor,    \* service.monitor: "nil" or "set"
    watcher,    \* the channel made by monitor.newWatcher
    watch       \* program point of watchSandbox

taskVars == <<reg, status, exit, exitCh, exitIO, started>>
waitVars == <<wg, wret>>
evVars   == <<reap, ec, pe, events, forwarded>>
vcVars   == <<sbox, vcs, vm, agent, proc, code>>
monVars  == <<monitor, watcher, watch>>
vars == <<shim, mu, create, taskVars, waitVars, rpc, evVars, vcVars, hpid, monVars>>

Free == [at |-> "free", p |-> Sandbox]
At(l, p) == [at |-> l, p |-> p]
Event(k, p, s) == [kind |-> k, p |-> p, status |-> s]
NoExit == [p |-> Sandbox, status |-> NoCode]
Idle == [pc |-> "idle", p |-> Sandbox, ret |-> NoCode]

\* An RPC is served: the shim runs and its handler gets the lock.
Serve == shim = "up" /\ mu = Free

\* Mutant: events are sent from goroutines of their own and may overtake.
SendUnordered(e) ==
    Len(events) < EventCap /\ events' \in {Append(events, e), <<e>> \o events}

\* s.send: the channel has room.
Send(e) == Len(events) < EventCap /\ events' = Append(events, e)

Init ==
    /\ shim = "up" /\ mu = Free
    /\ create = [c \in Containers |-> "idle"]
    /\ reg = {}
    /\ status = [p \in Procs |-> "new"]
    /\ exit = [p \in Procs |-> IF p \in Execs THEN ExitCode255 ELSE 0]
    /\ exitCh = [p \in Procs |-> NoCode]
    /\ exitIO = [p \in Procs |-> FALSE]
    /\ started = [p \in Procs |-> FALSE]
    /\ wg = [p \in Procs |-> "none"]
    /\ wret = [p \in Procs |-> 0]
    /\ rpc = [w \in Waiters |-> Idle]
    /\ reap = {} /\ ec = <<>> /\ pe = NoExit
    /\ events = <<>> /\ forwarded = {}
    /\ sbox = "nil"
    /\ vcs = [c \in Containers |-> "none"]
    /\ vm = "none" /\ hpid = "none" /\ agent = "ok"
    /\ proc = [p \in Procs |-> "none"]
    /\ code = [p \in Procs |-> 0]
    /\ monitor = "nil"
    /\ watcher = [q |-> <<>>, open |-> FALSE]
    /\ watch = "none"

-----------------------------------------------------------------------------
(* What the handlers ask of virtcontainers.                                *)

\* The containers the sandbox holds, and the states container.start accepts.
Live == {c \in Containers : vcs[c] # "none"}
Startable(c) == vcs[c] \in {"ready", "stopped"}

\* Guest processes of the containers in S end with some exit code.
EndProcs(S) ==
    LET ending == {p \in Procs : ContOf(p) \in S /\ proc[p] = "running"}
    IN  /\ proc' = [p \in Procs |-> IF p \in ending THEN "exited" ELSE proc[p]]
        /\ \E k \in GuestCodes :
              code' = [p \in Procs |-> IF p \in ending THEN k ELSE code[p]]

\* sandbox.Start may go on: every container it holds can be started; for a
\* single container the sandbox must run; an exec needs a container that runs.
StartPre(p) ==
    CASE p = Sandbox -> sbox \in {"ready", "stopped"} /\ \A c \in Live : Startable(c)
      [] p \in Apps  -> sbox = "running" /\ Startable(p)
      [] p \in Execs -> sbox = "running" /\ vcs[ExecOf[p]] \in {"ready", "running"}

\* The containers a successful Start of p sets running.
StartSet(p) == CASE p = Sandbox -> Live [] p \in Apps -> {p} [] p \in Execs -> {}

\* sandbox.Stop(force) followed by sandbox.Delete.  Stop returns early when a
\* container cannot be stopped (its state cannot be saved); Delete then refuses.
\* The hypervisor is told to quit and may still be there afterwards.
StopAndDelete ==
    \/ /\ sbox' = "stopped" /\ agent' = "dead"
       /\ vcs' = [c \in Containers |-> "none"]
       /\ EndProcs(Live)
       /\ vm' \in {vm, "off"}
       /\ watcher' = [watcher EXCEPT !.open = FALSE]
    \/ /\ "stop" \in Faults /\ sbox = "running"
       /\ \E f \in Live : \E S \in SUBSET (Live \ {f}) :
             /\ vcs' = [c \in Containers |-> IF c \in S THEN "stopped" ELSE vcs[c]]
             /\ EndProcs(S \cup {f})
       /\ UNCHANGED <<sbox, agent, vm, watcher>>

\* Mutant: a paused container cannot be stopped.
StopContainerNotPaused(c) ==
    \/ /\ vcs[c] \in {"ready", "running"} /\ agent = "ok"
       /\ EndProcs({c})
       /\ vcs' = [vcs EXCEPT ![c] = "stopped"]
    \/ /\ vcs[c] \in {"none", "stopped", "paused"} \/ agent = "dead"
       /\ UNCHANGED <<vcs, proc, code>>

\* sandbox.StopContainer(c, force = FALSE): the process is killed and waited
\* for before anything can fail; the state changes last.  Without the agent
\* nothing happens but an error.
StopContainer(c) ==
    \/ /\ vcs[c] \in {"ready", "running", "paused"} /\ agent = "ok"
       /\ EndProcs({c})
       /\ vcs' = [vcs EXCEPT ![c] = "stopped"]
    \/ /\ vcs[c] \in {"ready", "running", "paused"} /\ agent = "ok" /\ "stop" \in Faults
       /\ EndProcs({c})
       /\ UNCHANGED vcs
    \/ /\ vcs[c] \in {"none", "stopped"} \/ agent = "dead"
       /\ UNCHANGED <<vcs, proc, code>>

\* sandbox.SignalProcess returns an error.
SignalRefused(p) ==
    \/ sbox # "running"
    \/ vcs[ContOf(p)] \notin {"ready", "running", "paused"}

-----------------------------------------------------------------------------
(* Create: create() runs in a goroutine while the handler waits for it or   *)
(* for the deadline of the request.                                         *)

Create(c) ==
    /\ shim # "exited" /\ mu = Free /\ create[c] = "idle"
    /\ shim = "exiting" => "late" \in ClientCalls
    /\ c \in Apps => "early" \in ClientCalls \/ status[Sandbox] = "running"
    /\ create' = [create EXCEPT ![c] = "busy"]
    /\ mu' = At("create", c)
    /\ UNCHANGED <<shim, taskVars, waitVars, rpc, evVars, vcVars, hpid, monVars>>

CreateSucceeds(c) ==
    /\ shim # "exited" /\ create[c] = "busy"
    /\ IF c = Sandbox
       THEN /\ sbox = "nil" /\ sbox' = "ready"
            /\ vm' = "on" /\ hpid' = "vm"
       ELSE /\ sbox \in {"ready", "running"} /\ agent = "ok"
            /\ UNCHANGED <<sbox, vm, hpid>>
    /\ vcs' = [vcs EXCEPT ![c] = "ready"]
    /\ create' = [create EXCEPT ![c] = "ok"]
    /\ UNCHANGED <<shim, mu, taskVars, waitVars, rpc, evVars, agent, proc, code, monVars>>

CreateFails(c) ==
    /\ shim # "exited" /\ create[c] = "busy"
    /\ \/ "create" \in Faults
       \/ c = Sandbox /\ sbox # "nil"
       \/ c # Sandbox /\ ~(sbox \in {"ready", "running"} /\ agent = "ok")
    /\ create' = [create EXCEPT ![c] = "failed"]
    /\ UNCHANGED <<shim, mu, taskVars, waitVars, rpc, evVars, vcVars, hpid, monVars>>

CreateReturns(c) ==
    /\ shim # "exited" /\ mu = At("create", c)
    /\ \/ /\ create[c] = "ok"
          /\ reg' = reg \cup {c}
          /\ status' = [status EXCEPT ![c] = "created"]
          /\ Send(Event("create", c, 0))
       \/ /\ create[c] = "failed"
          /\ UNCHANGED <<reg, status, events>>
    /\ create' = [create EXCEPT ![c] = "done"]
    /\ mu' = Free
    /\ UNCHANGED <<shim, exit, exitCh, exitIO, started, waitVars, rpc, reap, ec, pe,
                   forwarded, vcVars, hpid, monVars>>

\* The request's deadline passes first: the lock is given up, create() goes on.
CreateTimesOut(c) ==
    /\ shim # "exited" /\ "timeout" \in Faults /\ mu = At("create", c)
    /\ mu' = Free
    /\ UNCHANGED <<shim, create, taskVars, waitVars, rpc, evVars, vcVars, hpid, monVars>>

Exec(e) ==
    /\ Serve /\ ExecOf[e] \in reg /\ status[e] = "new"
    /\ reg' = reg \cup {e}
    /\ status' = [status EXCEPT ![e] = "created"]
    /\ Send(Event("create", e, 0))
    /\ UNCHANGED <<shim, mu, create, exit, exitCh, exitIO, started, waitVars, rpc, reap,
                   ec, pe, forwarded, vcVars, hpid, monVars>>

-----------------------------------------------------------------------------
(* Start: startContainer and startExec.  On success the wait goroutine runs *)
(* from here on, while the handler still holds the lock and has to send the *)
(* start event; on an error the deferred function fills exitCh.             *)

CanStart(p) ==
    /\ Serve /\ p \in reg /\ ContOf(p) \in reg
    /\ \/ ~started[p]
       \/ "restart" \in ClientCalls /\ p \in Containers /\ status[p] # "stopped"

\* Guest processes of p and, for the sandbox, of every container it holds.
RunProcs(p, S) == proc' = [q \in Procs |-> IF q \in S \cup {p} THEN "running" ELSE proc[q]]

StartSucceeds(p) ==
    /\ CanStart(p) /\ StartPre(p) /\ agent = "ok" /\ vcs[ContOf(p)] # "none"
    /\ started' = [started EXCEPT ![p] = TRUE]
    /\ status' = [status EXCEPT ![p] = "running"]
    /\ exitIO' = [exitIO EXCEPT ![p] = p \notin Stdio]
    /\ wg' = [wg EXCEPT ![p] = IF p \in Execs THEN "get" ELSE "io"]
    /\ vcs' = [c \in Containers |-> IF c \in StartSet(p) THEN "running" ELSE vcs[c]]
    /\ RunProcs(p, StartSet(p))
    /\ IF p = Sandbox
       THEN /\ sbox' = "running" /\ monitor' = "set" /\ watch' = "recv"
            /\ watcher' = [q |-> <<>>, open |-> TRUE]
       ELSE UNCHANGED <<sbox, monVars>>
    /\ mu' = At("start", p)
    /\ UNCHANGED <<shim, create, reg, exit, exitCh, wret, rpc, evVars, vm, agent, code, hpid>>

SendStarted(p) ==
    /\ shim # "exited" /\ mu = At("start", p)
    /\ Send(Event("start", p, 0))
    /\ mu' = Free
    /\ UNCHANGED <<shim, create, taskVars, waitVars, rpc, reap, ec, pe, forwarded, vcVars,
                   hpid, monVars>>

\* Start fails before the guest was asked for anything.
StartRefused(p) ==
    /\ CanStart(p) /\ (~StartPre(p) \/ "start" \in Faults)
    /\ started' = [started EXCEPT ![p] = TRUE]
    /\ mu' = At("startfail", p)
    /\ UNCHANGED <<shim, create, reg, status, exit, exitCh, exitIO, waitVars, rpc, evVars,
                   vcVars, hpid, monVars>>

\* The agent cannot start container f, which is then stopped by force; the
\* containers sandbox.Start had started before it stay as they are.
StartAgentFails(c) ==
    /\ CanStart(c) /\ StartPre(c) /\ StartSet(c) # {}
    /\ "start" \in Faults \/ agent = "dead"
    /\ started' = [started EXCEPT ![c] = TRUE]
    /\ \E f \in StartSet(c) :
          \E S \in (IF agent = "dead" THEN {{}} ELSE SUBSET (StartSet(c) \ {f})) :
             /\ vcs' = [d \in Containers |-> IF d = f THEN "stopped"
                                             ELSE IF d \in S THEN "running" ELSE vcs[d]]
             /\ proc' = [q \in Procs |-> IF q \in S THEN "running" ELSE proc[q]]
    /\ mu' = At("startfail", c)
    /\ UNCHANGED <<shim, create, reg, status, exit, exitCh, exitIO, waitVars, rpc, evVars,
                   sbox, vm, agent, code, hpid, monVars>>

\* Start fails after the process was started: the sandbox cannot be stored or
\* resized, or the streams cannot be opened.
StartFailsLate(p) ==
    /\ CanStart(p) /\ StartPre(p) /\ agent = "ok"
    /\ "start" \in Faults \/ vcs[ContOf(p)] = "none"
    /\ started' = [started EXCEPT ![p] = TRUE]
    /\ \/ UNCHANGED status
       \/ status' = [status EXCEPT ![p] = "running"]
    /\ vcs' = [c \in Containers |-> IF c \in StartSet(p) THEN "running" ELSE vcs[c]]
    /\ RunProcs(p, StartSet(p))
    /\ IF p = Sandbox
       THEN /\ sbox' = "running"
            /\ \/ status' = status /\ UNCHANGED monVars
               \/ /\ monitor' = "set" /\ watch' = "recv"
                  /\ watcher' = [q |-> <<>>, open |-> TRUE]
       ELSE UNCHANGED <<sbox, monVars>>
    /\ mu' = At("startfail", p)
    /\ UNCHANGED <<shim, create, reg, exit, exitCh, exitIO, waitVars, rpc, evVars, vm, agent,
                   code, hpid>>

\* c.exitCh <- exitCode255, blocking while the channel is full.
NotifyStartError(p) ==
    /\ shim # "exited" /\ mu = At("startfail", p) /\ exitCh[p] = NoCode
    /\ exitCh' = [exitCh EXCEPT ![p] = ExitCode255]
    /\ mu' = Free
    /\ UNCHANGED <<shim, create, reg, status, exit, exitIO, started, waitVars, rpc, evVars,
                   vcVars, hpid, monVars>>

-----------------------------------------------------------------------------
(* The guest: processes end on their own, and their streams with them.      *)

ProcExits(p) ==
    /\ proc[p] = "running" /\ vcs[ContOf(p)] # "paused" /\ shim # "exited"
    /\ proc' = [proc EXCEPT ![p] = "exited"]
    /\ \E k \in GuestCodes : code' = [code EXCEPT ![p] = k]
    /\ UNCHANGED <<shim, mu, create, taskVars, waitVars, rpc, evVars, sbox, vcs, vm, agent,
                   hpid, monVars>>

\* Mutant: exitIOch is not closed at the end of the streams, only on an error.
IOCopyEndsOnError(p) ==
    /\ shim # "exited" /\ wg[p] # "none" /\ ~exitIO[p]
    /\ agent = "dead"
    /\ exitIO' = [exitIO EXCEPT ![p] = TRUE]
    /\ UNCHANGED <<shim, mu, create, reg, status, exit, exitCh, started, waitVars, rpc, evVars,
                   vcVars, hpid, monVars>>

\* ioCopy reaches the end of the output streams and closes exitIOch.
IOCopyEnds(p) ==
    /\ shim # "exited" /\ wg[p] # "none" /\ ~exitIO[p]
    /\ proc[p] = "exited" \/ agent = "dead"
    /\ exitIO' = [exitIO EXCEPT ![p] = TRUE]
    /\ UNCHANGED <<shim, mu, create, reg, status, exit, exitCh, started, waitVars, rpc, evVars,
                   vcVars, hpid, monVars>>

AgentDies ==
    /\ "agent" \in Faults /\ sbox = "running" /\ agent = "ok" /\ shim # "exited"
    /\ agent' = "dead"
    /\ UNCHANGED <<shim, mu, create, taskVars, waitVars, rpc, evVars, sbox, vcs, vm, proc,
                   code, hpid, monVars>>

-----------------------------------------------------------------------------
(* wait(): the goroutine of a started process.                              *)

WaitStep(p, from, to) ==
    /\ shim # "exited" /\ wg[p] = from
    /\ wg' = [wg EXCEPT ![p] = to]

\* An exec is looked up again; if it was deleted meanwhile the goroutine ends.
WaitGetExec(p) ==
    /\ WaitStep(p, "get", IF p \in reg THEN "io" ELSE "gone")
    /\ UNCHANGED <<shim, mu, create, taskVars, wret, rpc, evVars, vcVars, hpid, monVars>>

WaitIOClosed(p) ==
    /\ WaitStep(p, "io", "check") /\ exitIO[p]
    /\ UNCHANGED <<shim, mu, create, taskVars, wret, rpc, evVars, vcVars, hpid, monVars>>

\* Mutants: a refused wait returns -1; the agent is not asked.
WaitProcessMinusOne(p) ==
    /\ IF sbox = "running" /\ vcs[ContOf(p)] \in {"ready", "running"}
       THEN WaitStep(p, "check", "agent") /\ UNCHANGED wret
       ELSE WaitStep(p, "check", "lock") /\ wret' = [wret EXCEPT ![p] = -1]
    /\ UNCHANGED <<shim, mu, create, taskVars, rpc, evVars, vcVars, hpid, monVars>>

WaitProcessNoAgent(p) ==
    /\ WaitStep(p, "check", "lock") /\ wret' = [wret EXCEPT ![p] = 0]
    /\ UNCHANGED <<shim, mu, create, taskVars, rpc, evVars, vcVars, hpid, monVars>>

\* sandbox.WaitProcess and container.wait: refused, with ret = 0, unless the
\* sandbox runs and the container is ready or running.
WaitProcess(p) ==
    /\ IF sbox = "running" /\ vcs[ContOf(p)] \in {"ready", "running"}
       THEN WaitStep(p, "check", "agent") /\ UNCHANGED wret
       ELSE WaitStep(p, "check", "lock") /\ wret' = [wret EXCEPT ![p] = 0]
    /\ UNCHANGED <<shim, mu, create, taskVars, rpc, evVars, vcVars, hpid, monVars>>

\* agent.waitProcess: the exit code, or an error and 0 when the agent is gone.
WaitAgent(p) ==
    /\ WaitStep(p, "agent", "lock")
    /\ \/ proc[p] = "exited" /\ wret' = [wret EXCEPT ![p] = code[p]]
       \/ agent = "dead" /\ wret' = [wret EXCEPT ![p] = 0]
    /\ UNCHANGED <<shim, mu, create, taskVars, rpc, evVars, vcVars, hpid, monVars>>

\* s.mu.Lock(); for the sandbox, s.monitor is compared with nil.
WaitLock(p) ==
    /\ WaitStep(p, "lock", "locked") /\ mu = Free
    /\ mu' = At(IF p = Sandbox /\ monitor = "set" THEN "cancel" ELSE "stop", p)
    /\ UNCHANGED <<shim, create, taskVars, wret, rpc, evVars, vcVars, hpid, monVars>>

\* s.monitor <- nil.  s.monitor is read again: watchSandbox may have reset it,
\* and a send on a nil channel never proceeds.
WaitCancelWatcher(p) ==
    /\ shim # "exited" /\ mu = At("cancel", p)
    /\ monitor = "set" /\ watcher.open /\ Len(watcher.q) < WatcherCap
    /\ watcher' = [watcher EXCEPT !.q = Append(@, "nil")]
    /\ mu' = At("stop", p)
    /\ UNCHANGED <<shim, create, taskVars, waitVars, rpc, evVars, vcVars, hpid, monitor, watch>>

\* Mutant: the exit code is not recorded.
WaitStopNoExit(p) ==
    /\ shim # "exited" /\ mu = At("stop", p)
    /\ CASE p = Sandbox -> StopAndDelete
         [] p \in Apps  -> StopContainer(p) /\ UNCHANGED <<sbox, agent, vm, watcher>>
         [] p \in Execs -> UNCHANGED <<sbox, agent, vm, watcher, vcs, proc, code>>
    /\ status' = [status EXCEPT ![p] = "stopped"]
    /\ mu' = At("exit", p)
    /\ UNCHANGED <<shim, create, reg, exit, exitCh, exitIO, started, waitVars, rpc, evVars,
                   hpid, monitor, watch>>

WaitStop(p) ==
    /\ shim # "exited" /\ mu = At("stop", p)
    /\ CASE p = Sandbox -> StopAndDelete
         [] p \in Apps  -> StopContainer(p) /\ UNCHANGED <<sbox, agent, vm, watcher>>
         [] p \in Execs -> UNCHANGED <<sbox, agent, vm, watcher, vcs, proc, code>>
    /\ status' = [status EXCEPT ![p] = "stopped"]
    /\ exit' = [exit EXCEPT ![p] = wret[p]]
    /\ mu' = At("exit", p)
    /\ UNCHANGED <<shim, create, reg, exitCh, exitIO, started, waitVars, rpc, evVars, hpid,
                   monitor, watch>>

\* Mutant: an exec's waiters are not notified.
WaitNotifyNoExec(p) ==
    /\ mu = At("exit", p)
    /\ WaitStep(p, "locked", "done")
    /\ exitCh' = [exitCh EXCEPT ![p] = IF p \in Execs THEN @ ELSE wret[p]]
    /\ reap' = reap \cup {[p |-> p, status |-> wret[p]]}
    /\ mu' = Free
    /\ UNCHANGED <<shim, create, reg, status, exit, exitIO, started, wret, rpc, ec, pe, events,
                   forwarded, vcVars, hpid, monVars>>

\* exitCh <- ret, blocking while the channel is full; unlock; go cReap.
WaitNotify(p) ==
    /\ mu = At("exit", p) /\ exitCh[p] = NoCode
    /\ WaitStep(p, "locked", "done")
    /\ exitCh' = [exitCh EXCEPT ![p] = wret[p]]
    /\ reap' = reap \cup {[p |-> p, status |-> wret[p]]}
    /\ mu' = Free
    /\ UNCHANGED <<shim, create, reg, status, exit, exitIO, started, wret, rpc, ec, pe, events,
                   forwarded, vcVars, hpid, monVars>>

-----------------------------------------------------------------------------
(* Exit events: cReap, processExits, checkProcesses, and the forwarder.     *)

Reap(r) ==
    /\ shim # "exited" /\ r \in reap /\ Len(ec) < EcCap
    /\ reap' = reap \ {r}
    /\ ec' = Append(ec, r)
    /\ UNCHANGED <<shim, mu, create, taskVars, waitVars, rpc, pe, events, forwarded, vcVars,
                   hpid, monVars>>

ProcessExits ==
    /\ shim # "exited" /\ pe = NoExit /\ ec # <<>>
    /\ pe' = Head(ec) /\ ec' = Tail(ec)
    /\ UNCHANGED <<shim, mu, create, taskVars, waitVars, rpc, reap, events, forwarded, vcVars,
                   hpid, monVars>>

CheckProcesses ==
    /\ shim # "exited" /\ pe # NoExit /\ mu = Free
    /\ Send(Event("exit", pe.p, pe.status))
    /\ pe' = NoExit
    /\ UNCHANGED <<shim, mu, create, taskVars, waitVars, rpc, reap, ec, forwarded, vcVars,
                   hpid, monVars>>

Forward ==
    /\ shim # "exited" /\ events # <<>>
    /\ forwarded' = forwarded \cup {Head(events)}
    /\ events' = Tail(events)
    /\ UNCHANGED <<shim, mu, create, taskVars, waitVars, rpc, reap, ec, pe, vcVars, hpid,
                   monVars>>

-----------------------------------------------------------------------------
(* Wait: the exit code is taken out of exitCh and put back for the next     *)
(* waiter.  Only the look-up of the container is done under the lock.       *)

RpcAt(w, pc) == shim # "exited" /\ rpc[w].pc = pc

Wait(w, p) ==
    /\ Serve /\ rpc[w].pc = "idle" /\ ContOf(p) \in reg
    /\ rpc' = [rpc EXCEPT ![w] = [pc |-> IF p \in Execs THEN "get" ELSE "recv", p |-> p,
                                  ret |-> NoCode]]
    /\ UNCHANGED <<shim, mu, create, taskVars, waitVars, evVars, vcVars, hpid, monVars>>

WaitRpcGetExec(w) ==
    /\ RpcAt(w, "get")
    /\ rpc' = [rpc EXCEPT ![w].pc = IF rpc[w].p \in reg THEN "recv" ELSE "error"]
    /\ UNCHANGED <<shim, mu, create, taskVars, waitVars, evVars, vcVars, hpid, monVars>>

\* Mutant: the exit code stays in the channel.
WaitRpcPeek(w) ==
    LET p == rpc[w].p
    IN  /\ RpcAt(w, "recv") /\ exitCh[p] # NoCode
        /\ rpc' = [rpc EXCEPT ![w] = [@ EXCEPT !.pc = "refill", !.ret = exitCh[p]]]
        /\ UNCHANGED <<shim, mu, create, taskVars, waitVars, evVars, vcVars, hpid, monVars>>

WaitRpcReceive(w) ==
    LET p == rpc[w].p
    IN  /\ RpcAt(w, "recv") /\ exitCh[p] # NoCode
        /\ rpc' = [rpc EXCEPT ![w] = [@ EXCEPT !.pc = "refill", !.ret = exitCh[p]]]
        /\ exitCh' = [exitCh EXCEPT ![p] = NoCode]
        /\ UNCHANGED <<shim, mu, create, reg, status, exit, exitIO, started, waitVars, evVars,
                       vcVars, hpid, monVars>>

WaitRpcRefill(w) ==
    LET p == rpc[w].p
    IN  /\ RpcAt(w, "refill") /\ exitCh[p] = NoCode
        /\ rpc' = [rpc EXCEPT ![w].pc = "done"]
        /\ exitCh' = [exitCh EXCEPT ![p] = rpc[w].ret]
        /\ UNCHANGED <<shim, mu, create, reg, status, exit, exitIO, started, waitVars, evVars,
                       vcVars, hpid, monVars>>

-----------------------------------------------------------------------------
(* The remaining handlers.                                                  *)

\* The signal reaches one exec, or every process of a container (r.All).
SignalProcess(p) ==
    IF p \in Containers
    THEN EndProcs({p})
    ELSE /\ proc' = [proc EXCEPT ![p] = "exited"]
         /\ \E k \in GuestCodes :
               code' = [code EXCEPT ![p] = IF proc[p] = "running" THEN k ELSE @]

\* Kill with SIGKILL or SIGTERM: nothing for a stopped process, an error for an
\* exec that has no process yet or when the signal is refused.
KillRefused(p) ==
    /\ status[p] # "stopped"
    /\ SignalRefused(p) \/ (p \in Execs /\ proc[p] = "none")

\* The first thing Kill does, for any request and without the lock: it ends every
\* child of the shim.  With "virtiofsd" the file system daemon is one, and its
\* end stops the virtual machine (virtiofsd.go:154, qemu.go:703).
KillChildren ==
    /\ shim = "up" /\ "virtiofsd" \in Faults /\ vm = "on"
    /\ EndProcs(Live) /\ vm' = "off" /\ agent' = "dead"
    /\ UNCHANGED <<shim, mu, create, taskVars, waitVars, rpc, evVars, sbox, vcs, hpid, monVars>>

\* The rest of Kill, under the lock.
Kill(p) ==
    /\ Serve /\ p \in reg /\ ContOf(p) \in reg
    /\ IF status[p] # "stopped" /\ ~KillRefused(p) /\ agent = "ok"
       THEN SignalProcess(p)
       ELSE UNCHANGED <<proc, code>>
    /\ UNCHANGED <<shim, mu, create, taskVars, waitVars, rpc, evVars, sbox, vcs, vm, agent,
                   hpid, monVars>>

\* getContainerStatus: what the shim records when Pause or Resume failed.
ContainerStatus(c) ==
    CASE vcs[c] = "none"  -> "unknown"
      [] vcs[c] = "ready" -> "created"
      [] OTHER            -> vcs[c]

\* Mutant: the status is not corrected when virtcontainers refuses.
SwitchOptimistic(c, from, to) ==
    /\ Serve /\ "pause" \in ClientCalls /\ c \in reg
    /\ IF sbox = "running" /\ vcs[c] = from /\ agent = "ok"
       THEN vcs' = [vcs EXCEPT ![c] = to] /\ Send(Event(to, c, 0))
       ELSE UNCHANGED <<vcs, events>>
    /\ status' = [status EXCEPT ![c] = to]
    /\ UNCHANGED <<shim, mu, create, reg, exit, exitCh, exitIO, started, waitVars, rpc, reap,
                   ec, pe, forwarded, sbox, vm, agent, proc, code, hpid, monVars>>

Switch(c, from, to) ==
    /\ Serve /\ "pause" \in ClientCalls /\ c \in reg
    /\ IF sbox = "running" /\ vcs[c] = from /\ agent = "ok"
       THEN /\ vcs' = [vcs EXCEPT ![c] = to]
            /\ status' = [status EXCEPT ![c] = to]
            /\ Send(Event(to, c, 0))
       ELSE /\ status' = [status EXCEPT ![c] = ContainerStatus(c)]
            /\ UNCHANGED <<vcs, events>>
    /\ UNCHANGED <<shim, mu, create, reg, exit, exitCh, exitIO, started, waitVars, rpc, reap,
                   ec, pe, forwarded, sbox, vm, agent, proc, code, hpid, monVars>>

Pause(c) == Switch(c, "running", "paused")
Resume(c) == Switch(c, "paused", "running")

\* The end of Delete: hpid becomes the pid of the shim.
Forget(c) ==
    /\ reg' = reg \ {c} /\ hpid' = "shim"
    /\ Send(Event("delete", c, exit[c]))

\* deleteContainer: an unstopped container is stopped first; sandbox.
\* DeleteContainer wants it ready or stopped.  The sandbox's own container is
\* only forgotten.  When a step fails the container stays.
DeleteContainer(c) ==
    /\ Serve /\ c \in reg
    /\ status[c] \in {"running", "paused"} => "forcedelete" \in ClientCalls
    /\ \/ /\ c = Sandbox \/ vcs[c] = "none"
          /\ UNCHANGED <<vcs, proc, code>>
          /\ Forget(c)
       \/ /\ c \in Apps /\ vcs[c] # "none"
          /\ \/ vcs[c] = "stopped"
             \/ status[c] = "stopped" /\ vcs[c] = "ready"
             \/ status[c] # "stopped" /\ agent = "ok"
          /\ EndProcs(IF status[c] # "stopped" /\ vcs[c] # "stopped" THEN {c} ELSE {})
          /\ vcs' = [vcs EXCEPT ![c] = "none"]
          /\ Forget(c)
       \/ /\ c \in Apps /\ status[c] # "stopped" /\ vcs[c] \notin {"none", "stopped"}
          /\ IF agent = "ok" THEN "stop" \in Faults /\ EndProcs({c}) ELSE UNCHANGED <<proc, code>>
          /\ UNCHANGED <<reg, hpid, vcs, events>>
       \/ /\ c \in Apps /\ status[c] = "stopped" /\ vcs[c] \in {"running", "paused"}
          /\ UNCHANGED <<reg, hpid, vcs, proc, code, events>>
    /\ UNCHANGED <<shim, mu, create, status, exit, exitCh, exitIO, started, waitVars, rpc,
                   reap, ec, pe, forwarded, sbox, vm, agent, monVars>>

DeleteExec(e) ==
    /\ Serve /\ e \in reg /\ ExecOf[e] \in reg
    /\ status[e] = "running" => "forcedelete" \in ClientCalls
    /\ reg' = reg \ {e}
    /\ UNCHANGED <<shim, mu, create, status, exit, exitCh, exitIO, started, waitVars, rpc,
                   evVars, vcVars, hpid, monVars>>

Shutdown ==
    /\ Serve /\ reg \cap Containers = {}
    /\ shim = "up" /\ shim' = "exiting"
    /\ UNCHANGED <<mu, create, taskVars, waitVars, rpc, evVars, vcVars, hpid, monVars>>

\* The lock was released before the process named by hpid is killed.
ShutdownExit ==
    /\ shim = "exiting" /\ shim' = "exited"
    /\ vm' = IF hpid = "vm" THEN "off" ELSE vm
    /\ UNCHANGED <<mu, create, taskVars, waitVars, rpc, evVars, sbox, vcs, agent, proc, code,
                   hpid, monVars>>

-----------------------------------------------------------------------------
(* The sandbox monitor (virtcontainers/monitor.go) and watchSandbox.        *)

\* monitor.notify: a full channel loses the error.
MonitorNotify ==
    /\ shim # "exited" /\ agent = "dead" /\ watcher.open /\ Len(watcher.q) < WatcherCap
    /\ watcher' = [watcher EXCEPT !.q = Append(@, "err")]
    /\ UNCHANGED <<shim, mu, create, taskVars, waitVars, rpc, evVars, vcVars, hpid, monitor,
                   watch>>

WatchReceive ==
    /\ shim # "exited" /\ watch = "recv"
    /\ \/ /\ watcher.q # <<>>
          /\ watch' = IF Head(watcher.q) = "err" THEN "failed" ELSE "done"
          /\ watcher' = [watcher EXCEPT !.q = Tail(@)]
       \/ /\ watcher.q = <<>> /\ ~watcher.open
          /\ watch' = "done" /\ UNCHANGED watcher
    /\ UNCHANGED <<shim, mu, create, taskVars, waitVars, rpc, evVars, vcVars, hpid, monitor>>

\* s.monitor = nil, before the lock is taken.
WatchResetMonitor ==
    /\ shim # "exited" /\ watch = "failed"
    /\ monitor' = "nil" /\ watch' = "lock"
    /\ UNCHANGED <<shim, mu, create, taskVars, waitVars, rpc, evVars, vcVars, hpid, watcher>>

WatchCleanup ==
    /\ shim # "exited" /\ watch = "lock" /\ mu = Free
    /\ StopAndDelete
    /\ watch' = "done"
    /\ UNCHANGED <<shim, mu, create, taskVars, waitVars, rpc, evVars, hpid, monitor>>

-----------------------------------------------------------------------------
(* The specification.                                                       *)

\* A terminated shim stays terminated.
Exited == shim = "exited" /\ UNCHANGED vars

ClientNext ==
    \/ \E c \in Containers : Create(c) \/ Pause(c) \/ Resume(c) \/ DeleteContainer(c)
    \/ \E e \in Execs : Exec(e) \/ DeleteExec(e)
    \/ \E p \in Procs : Kill(p) \/ StartSucceeds(p) \/ StartRefused(p) \/ StartFailsLate(p)
    \/ \E c \in Containers : StartAgentFails(c)
    \/ \E w \in Waiters, p \in Procs : Wait(w, p)
    \/ KillChildren \/ Shutdown

GuestNext == AgentDies \/ \E p \in Procs : ProcExits(p)

CreateNext(c) ==
    CreateSucceeds(c) \/ CreateFails(c) \/ CreateReturns(c) \/ CreateTimesOut(c)

WaitGoroutine(p) ==
    \/ WaitGetExec(p) \/ WaitIOClosed(p) \/ WaitProcess(p) \/ WaitAgent(p)
    \/ WaitCancelWatcher(p) \/ WaitStop(p) \/ WaitNotify(p)

WaitRpc(w) == WaitRpcGetExec(w) \/ WaitRpcReceive(w) \/ WaitRpcRefill(w)

ShimNext ==
    \/ \E c \in Containers : CreateNext(c)
    \/ \E p \in Procs : SendStarted(p) \/ NotifyStartError(p) \/ IOCopyEnds(p)
    \/ \E p \in Procs : WaitLock(p) \/ WaitGoroutine(p)
    \/ \E w \in Waiters : WaitRpc(w)
    \/ \E r \in reap : Reap(r)
    \/ ProcessExits \/ CheckProcesses \/ Forward
    \/ MonitorNotify \/ WatchReceive \/ WatchResetMonitor \/ WatchCleanup
    \/ ShutdownExit

Next == ClientNext \/ GuestNext \/ ShimNext \/ Exited

Spec == Init /\ [][Next]_vars

-----------------------------------------------------------------------------
(* Properties.                                                              *)

Points == {"free", "create", "start", "startfail", "cancel", "stop", "exit"}
Statuses == {"new", "created", "running", "paused", "stopped", "unknown"}
EventSet == [kind : {"create", "start", "exit", "paused", "running", "delete"},
             p : Procs, status : Codes]
Exits == [p : Procs, status : Codes]

ShimType ==
    /\ shim \in {"up", "exiting", "exited"}
    /\ mu \in [at : Points, p : Procs]
    /\ create \in [Containers -> {"idle", "busy", "ok", "failed", "done"}]

TaskType ==
    /\ reg \subseteq Procs
    /\ status \in [Procs -> Statuses]
    /\ exit \in [Procs -> Codes]
    /\ exitCh \in [Procs -> Codes \cup {NoCode}]
    /\ exitIO \in [Procs -> BOOLEAN]
    /\ started \in [Procs -> BOOLEAN]

WaitType ==
    /\ wg \in [Procs -> {"none", "get", "io", "check", "agent", "lock", "locked", "done",
                         "gone"}]
    /\ wret \in [Procs -> Codes]
    /\ rpc \in [Waiters -> [pc : {"idle", "get", "recv", "refill", "done", "error"},
                            p : Procs, ret : Codes \cup {NoCode}]]

EventType ==
    /\ reap \subseteq Exits
    /\ ec \in Seq(Exits)
    /\ pe \in Exits \cup {NoExit}
    /\ events \in Seq(EventSet)
    /\ forwarded \subseteq EventSet

SandboxType ==
    /\ sbox \in {"nil", "ready", "running", "stopped"}
    /\ vcs \in [Containers -> {"none", "ready", "running", "paused", "stopped"}]
    /\ vm \in {"none", "on", "off"}
    /\ hpid \in {"none", "vm", "shim"}
    /\ agent \in {"ok", "dead"}
    /\ proc \in [Procs -> {"none", "running", "exited"}]
    /\ code \in [Procs -> Codes]

MonitorType ==
    /\ monitor \in {"nil", "set"}
    /\ watcher \in [q : Seq({"err", "nil"}), open : BOOLEAN]
    /\ watch \in {"none", "recv", "failed", "lock", "done"}

\* The type invariant.
TypeOK == ShimType /\ TaskType /\ WaitType /\ EventType /\ SandboxType /\ MonitorType

\* An exit event follows the start event of its process, in the channel and
\* for the client: Start holds the send lock over startContainer and the start
\* event (service.go:462), while wait, cReap and processExits already run.
StartBeforeExit ==
    \A p \in Procs, k \in Codes :
        /\ Event("exit", p, k) \in forwarded => Event("start", p, 0) \in forwarded
        /\ \A i \in 1..Len(events) :
              events[i] = Event("exit", p, k) =>
                  \/ Event("start", p, 0) \in forwarded
                  \/ \E j \in 1..(i - 1) : events[j] = Event("start", p, 0)

\* The Wait RPCs that hold the exit code of p between receive and refill.
Refilling(p) == {w \in Waiters : rpc[w].pc = "refill" /\ rpc[w].p = p}

\* There is at most one exit code per process, in exitCh or in the hands of one
\* Wait RPC that will put it back: the refill in Wait (service.go:1165), the
\* notification of a failed Start (start.go:28) and the one in wait
\* (wait.go:97) never meet a full channel, the last two while holding s.mu.
OneExitCode ==
    \A p \in Procs :
        /\ \A w1, w2 \in Refilling(p) : w1 = w2
        /\ Refilling(p) # {} => exitCh[p] = NoCode
        /\ mu \in {At("exit", p), At("startfail", p)} =>
              exitCh[p] = NoCode /\ Refilling(p) = {}

\* Everything that reports the end of a process agrees: every Wait RPC
\* (service.go:1160), the recorded exit that State and Delete return, and the
\* exit event on its way through cReap, processExits and the event channel.
\* Without a wait goroutine the only answer is the 255 of a failed Start.
ExitReportsAgree ==
    \A p \in Procs :
        /\ \A w \in Waiters : rpc[w].p = p /\ rpc[w].pc \in {"refill", "done"} =>
              \/ wg[p] = "done" /\ rpc[w].ret = exit[p]
              \/ wg[p] = "none" /\ rpc[w].ret = ExitCode255
        /\ \A k \in Codes :
              \/ [p |-> p, status |-> k] \in reap \cup {pe}
              \/ \E i \in 1..Len(ec) : ec[i] = [p |-> p, status |-> k]
              \/ \E i \in 1..Len(events) : events[i] = Event("exit", p, k)
              \/ Event("exit", p, k) \in forwarded
              => wg[p] = "done" /\ k = exit[p]

\* While the sandbox runs, a process is recorded as stopped only after its
\* guest process ended, and with the exit code of that guest process.
ExitCodeIsGuests ==
    \A p \in Procs : status[p] = "stopped" /\ sbox = "running" =>
        proc[p] = "exited" /\ exit[p] = code[p]

\* Between two handlers the status the shim caches for a container is not
\* ahead of the state virtcontainers has for it (getContainerStatus).
StatusMatchesSandbox ==
    \A c \in Containers : mu = Free /\ c \in reg /\ sbox = "running" =>
        /\ status[c] = "running" => vcs[c] = "running"
        /\ status[c] = "paused" => vcs[c] = "paused"

\* A container the shim has recorded as stopped can be deleted: deleteContainer
\* skips StopContainer for it, and container.delete refuses a container that
\* still runs (delete.go:24, container.go:879).
StoppedIsDeletable ==
    \A c \in Apps : c \in reg /\ status[c] = "stopped" =>
        vcs[c] \in {"none", "ready", "stopped"}

-----------------------------------------------------------------------------
(* Liveness.  Every goroutine that can run does; a goroutine that waits for *)
(* s.mu gets it (sync.Mutex hands over in arrival order once a waiter has   *)
(* starved for a millisecond), and so does a receiver of a channel.  The    *)
(* client and the guest are not fair.                                       *)

Fairness ==
    /\ \A c \in Containers : WF_vars(CreateNext(c))
    /\ \A p \in Procs :
          /\ WF_vars(SendStarted(p)) /\ WF_vars(NotifyStartError(p))
          /\ WF_vars(IOCopyEnds(p)) /\ WF_vars(WaitGoroutine(p))
          /\ SF_vars(WaitLock(p))
    /\ \A w \in Waiters : SF_vars(WaitRpc(w))
    /\ WF_vars(\E r \in reap : Reap(r))
    /\ WF_vars(ProcessExits) /\ SF_vars(CheckProcesses) /\ WF_vars(Forward)
    /\ WF_vars(MonitorNotify) /\ WF_vars(WatchReceive) /\ WF_vars(WatchResetMonitor)
    /\ SF_vars(WatchCleanup)

FairSpec == Spec /\ Fairness

\* When a started process has ended, its exit event reaches the forwarder,
\* unless the shim exits before.
ExitIsPublished ==
    \A p \in Procs : (proc[p] = "exited" /\ wg[p] = "io") ~>
        (shim = "exited" \/ \E k \in Codes : Event("exit", p, k) \in forwarded)

\* A Wait RPC for a process that has ended, or whose Start failed, returns.
WaitReturns ==
    \A w \in Waiters, p \in Procs :
        (rpc[w].pc = "recv" /\ rpc[w].p = p /\ wg[p] # "none" /\ proc[p] = "exited") ~>
            (rpc[w].pc = "done" \/ shim = "exited")

\* After watchSandbox has seen the sandbox fail, the wait goroutine of every
\* started process finishes: "Existing container/exec will be cleaned up by its
\* waiters" (wait.go:153).
WaitersCleanUp ==
    \A p \in Procs : (watch = "failed" /\ wg[p] # "none") ~>
        (wg[p] \in {"done", "gone"} \/ shim = "exited")
=============================================================================
