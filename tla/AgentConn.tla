----------------------------- MODULE AgentConn -----------------------------
(***************************************************************************)
(* The connection of the runtime to the agent in the guest                 *)
(* (kata_agent.go), shared by all goroutines of the shim, and the monitor  *)
(* (monitor.go) that checks the agent and the hypervisor.                  *)
(*                                                                         *)
(* A request connects first: it looks at dead and at the client without    *)
(* the lock, and dials under the lock when there is no client.  It then    *)
(* reads reqHandlers under the lock and calls the handler, which reads the *)
(* client again without it.  The monitor marks the agent dead when a check *)
(* fails, Sandbox.Stop disconnects, and both set client and reqHandlers to *)
(* nil.  Sections that hold the lock and give it back are one step, so the *)
(* lock shows in a state only when a return keeps it.                      *)
(*                                                                         *)
(* The threads are the goroutines that serve RPCs and copy streams         *)
(* (Callers), watchOOMEvents, the monitor, and the goroutine that stops    *)
(* and deletes the sandbox, of which only the calls of the agent and of    *)
(* the monitor are modelled.  keepConn is TRUE, as katautils/config.go     *)
(* sets it (LongLiveConn).                                                 *)
(***************************************************************************)
EXTENDS Integers, FiniteSets, Sequences

CONSTANTS
    Callers,            \* goroutines that send requests or read streams
    None,               \* nobody, or no connection
    WatcherChannelSize  \* capacity of a watcher channel of the monitor

Threads == Callers \cup {"oom", "monitor", "stopper"}
Conns == Nat

ASSUME AgentAssumption ==
    /\ None \notin Nat /\ None \notin Threads
    /\ {"oom", "monitor", "stopper"} \cap Callers = {}
    /\ WatcherChannelSize \in Nat \ {0}

VARIABLES
    client,      \* k.client: None or the connection it uses
    reqHandlers, \* whether k.reqHandlers is set
    dead,        \* k.dead
    lock,        \* who kept the lock of the agent, or None
    open,        \* connections that are not closed
    thread,      \* per thread: pc, what it does, its connection and result
    mon,         \* the monitor: running, stopCh and the watcher channel
    guest,       \* "on", or "off" when the virtual machine is gone (external)
    crashed      \* a nil client was dereferenced and the process is gone

agentVars == <<client, reqHandlers, dead, lock, open>>
vars == <<agentVars, thread, mon, guest, crashed>>

Thread == [pc : {"idle", "connect", "client", "dial", "handlers", "call", "reply", "back",
                 "mark", "disconnect", "tell", "stopVM", "stopMonitor", "wait", "exit"},
           op : {"request", "read", "hypervisor", "agent", "stop"},
           conn : Conns \cup {None},
           res : {"ok", "err", "dead", "closed"}]

Init ==
    /\ client = None /\ reqHandlers = FALSE /\ dead = FALSE /\ lock = None /\ open = {}
    /\ thread = [t \in Threads |-> [pc |-> "idle", op |-> "request", conn |-> None, res |-> "ok"]]
    /\ mon = [running |-> TRUE, stopCh |-> FALSE, q |-> 0, open |-> TRUE]
    /\ guest = "on"
    /\ crashed = FALSE

\* A crashed process has no thread anywhere.
At(t, pc) == ~crashed /\ thread[t].pc = pc
Set(t, pc, op) == thread' = [thread EXCEPT ![t] = [pc |-> pc, op |-> op, conn |-> None, res |-> "ok"]]
Goto(t, pc) == thread' = [thread EXCEPT ![t].pc = pc]
Return(t, res) == thread' = [thread EXCEPT ![t].pc = "back", ![t].res = res, ![t].conn = None]
Connected(t) == Goto(t, IF thread[t].op = "read" THEN "call" ELSE "handlers")

(***************************************************************************)
(* connect                                                                 *)
(***************************************************************************)
CheckDead(t) ==
    /\ At(t, "connect")
    /\ IF dead THEN Return(t, "dead") ELSE Goto(t, "client")
    /\ UNCHANGED <<agentVars, mon, guest, crashed>>

\* Mutant: the client is not looked at.
CheckClientSkips(t) ==
    /\ At(t, "client")
    /\ Connected(t)
    /\ UNCHANGED <<agentVars, mon, guest, crashed>>

CheckClient(t) ==
    /\ At(t, "client")
    /\ IF client # None THEN Connected(t) ELSE Goto(t, "dial")
    /\ UNCHANGED <<agentVars, mon, guest, crashed>>

\* A number no thread and no open connection has.
InUse(n) == n \in open \/ \E t \in Threads : thread[t].conn = n
Fresh(n) == ~InUse(n) /\ \A k \in 0 .. n - 1 : InUse(k)

\* Mutant: the client is not looked at again under the lock.
DialUnchecked(t) ==
    /\ At(t, "dial")
    /\ lock = None
    /\ guest = "on"
    /\ \E n \in 0 .. Cardinality(open) + Cardinality(Threads) :
          Fresh(n) /\ client' = n /\ open' = open \cup {n}
    /\ reqHandlers' = TRUE
    /\ Connected(t)
    /\ UNCHANGED <<dead, lock, mon, guest, crashed>>

\* The part of connect under the lock; a dial that fails marks the agent dead.
Dial(t) ==
    /\ At(t, "dial")
    /\ lock = None
    /\ \/ /\ client # None
          /\ Connected(t)
          /\ UNCHANGED agentVars
       \/ /\ client = None
          /\ guest = "on"
          /\ \E n \in 0 .. Cardinality(open) + Cardinality(Threads) :
                Fresh(n) /\ client' = n /\ open' = open \cup {n}
          /\ reqHandlers' = TRUE
          /\ Connected(t)
          /\ UNCHANGED <<dead, lock>>
       \/ /\ client = None
          /\ dead' = TRUE
          /\ Return(t, "err")
          /\ UNCHANGED <<client, reqHandlers, lock, open>>
    /\ UNCHANGED <<mon, guest, crashed>>

(***************************************************************************)
(* sendReq, and readProcessStdout and readProcessStderr                    *)
(***************************************************************************)

\* Without handlers sendReq returns and keeps the lock.
Handlers(t) ==
    /\ At(t, "handlers")
    /\ lock = None
    /\ \/ reqHandlers /\ Goto(t, "call") /\ UNCHANGED lock
       \/ ~reqHandlers /\ Return(t, "err") /\ lock' = t
    /\ UNCHANGED <<client, reqHandlers, dead, open, mon, guest, crashed>>

\* The handler, or the read, uses the client without the lock.
Call(t) ==
    /\ At(t, "call")
    /\ \/ /\ client # None
          /\ thread' = [thread EXCEPT ![t].pc = "reply", ![t].conn = client]
          /\ UNCHANGED crashed
       \/ /\ client = None
          /\ crashed' = TRUE
          /\ UNCHANGED thread
    /\ UNCHANGED <<agentVars, mon, guest>>

\* An answer, an error (a timeout, say), or the connection was closed.
Reply(t) ==
    /\ At(t, "reply")
    /\ \/ /\ thread[t].conn \notin open \/ guest = "off"
          /\ Return(t, "closed")
       \/ /\ thread[t].conn \in open /\ guest = "on"
          /\ Return(t, "ok") \/ Return(t, "err")
    /\ UNCHANGED <<agentVars, mon, guest, crashed>>

\* disconnect, from markDead or from Sandbox.Stop; an error of Close leaves
\* everything as it is, and both callers go on.
Disconnect(t) ==
    /\ At(t, "disconnect")
    /\ lock = None
    /\ \/ /\ client # None
          /\ open' = open \ {client}
          /\ client' = None
          /\ reqHandlers' = FALSE
       \/ UNCHANGED <<client, open, reqHandlers>>
    /\ Goto(t, IF thread[t].op = "stop" THEN "stopMonitor" ELSE "tell")
    /\ UNCHANGED <<dead, lock, mon, guest, crashed>>

(***************************************************************************)
(* The callers                                                             *)
(***************************************************************************)
Begin(t, op) ==
    /\ t \in Callers
    /\ At(t, "idle")
    /\ Set(t, "connect", op)
    /\ UNCHANGED <<agentVars, mon, guest, crashed>>

Done(t) ==
    /\ t \in Callers
    /\ At(t, "back")
    /\ Set(t, "idle", "request")
    /\ UNCHANGED <<agentVars, mon, guest, crashed>>

\* Mutant: only a closed connection ends the loop.
WatchOOMEventsNotDead ==
    /\ At("oom", "idle") \/ At("oom", "back")
    /\ Set("oom", IF thread["oom"].res = "closed" THEN "exit" ELSE "connect", "request")
    /\ UNCHANGED <<agentVars, mon, guest, crashed>>

\* watchOOMEvents asks for the next event until the agent is gone.
WatchOOMEvents ==
    /\ At("oom", "idle") \/ At("oom", "back")
    /\ Set("oom", IF thread["oom"].res \in {"closed", "dead"} THEN "exit" ELSE "connect", "request")
    /\ UNCHANGED <<agentVars, mon, guest, crashed>>

(***************************************************************************)
(* The monitor                                                             *)
(***************************************************************************)
\* A tick: first the hypervisor, then the agent.
WatchHypervisor ==
    /\ At("monitor", "idle")
    /\ IF guest = "off" THEN Set("monitor", "mark", "hypervisor") ELSE Set("monitor", "connect", "request")
    /\ UNCHANGED <<agentVars, mon, guest, crashed>>

WatchAgent ==
    /\ At("monitor", "back")
    /\ IF thread["monitor"].res = "ok" THEN Set("monitor", "idle", "request") ELSE Set("monitor", "mark", "agent")
    /\ UNCHANGED <<agentVars, mon, guest, crashed>>

MarkDead ==
    /\ At("monitor", "mark")
    /\ dead' = TRUE
    /\ Goto("monitor", "disconnect")
    /\ UNCHANGED <<client, reqHandlers, lock, open, mon, guest, crashed>>

\* Mutant: running is not looked at.
NotifyAlways ==
    /\ At("monitor", "tell")
    /\ mon' = IF mon.q < WatcherChannelSize THEN [mon EXCEPT !.q = @ + 1] ELSE mon
    /\ Set("monitor", IF thread["monitor"].op = "hypervisor" THEN "connect" ELSE "idle", "request")
    /\ UNCHANGED <<agentVars, guest, crashed>>

\* The rest of notify; the watcher gets the error if there is room.
Notify ==
    /\ At("monitor", "tell")
    /\ \/ /\ mon.running /\ mon.q < WatcherChannelSize
          /\ mon' = [mon EXCEPT !.q = @ + 1]
       \/ /\ ~mon.running \/ mon.q = WatcherChannelSize
          /\ UNCHANGED mon
    /\ Set("monitor", IF thread["monitor"].op = "hypervisor" THEN "connect" ELSE "idle", "request")
    /\ UNCHANGED <<agentVars, guest, crashed>>

MonitorExits ==
    /\ At("monitor", "idle")
    /\ mon.stopCh
    /\ mon' = [mon EXCEPT !.stopCh = FALSE]
    /\ Goto("monitor", "exit")
    /\ UNCHANGED <<agentVars, guest, crashed>>

(***************************************************************************)
(* Sandbox.Stop and Sandbox.Delete                                         *)
(***************************************************************************)

\* watchSandbox got an error, or the process of the sandbox container ended.
Stop ==
    /\ At("stopper", "idle")
    /\ \/ mon.q > 0 /\ mon' = [mon EXCEPT !.q = @ - 1]
       \/ UNCHANGED mon
    /\ Goto("stopper", "connect")
    /\ UNCHANGED <<agentVars, guest, crashed>>

\* stopVM: whatever stopSandbox answered, the virtual machine is stopped.
StopVM ==
    /\ At("stopper", "back")
    /\ guest' = "off"
    /\ Set("stopper", "disconnect", "stop")
    /\ UNCHANGED <<agentVars, mon, crashed>>

\* Mutant: the monitor is not told to stop.
MonitorStopSilent ==
    /\ At("stopper", "stopMonitor")
    /\ mon' = IF mon.running THEN [mon EXCEPT !.running = FALSE, !.open = FALSE] ELSE mon
    /\ Goto("stopper", "wait")
    /\ UNCHANGED <<agentVars, guest, crashed>>

MonitorStop ==
    /\ At("stopper", "stopMonitor")
    /\ mon' = IF mon.running THEN [mon EXCEPT !.running = FALSE, !.stopCh = TRUE, !.open = FALSE] ELSE mon
    /\ Goto("stopper", "wait")
    /\ UNCHANGED <<agentVars, guest, crashed>>

WaitGroup ==
    /\ At("stopper", "wait")
    /\ At("monitor", "exit")
    /\ Goto("stopper", "exit")
    /\ UNCHANGED <<agentVars, mon, guest, crashed>>

\* The virtual machine dies.
GuestDies ==
    /\ guest = "on"
    /\ guest' = "off"
    /\ UNCHANGED <<agentVars, thread, mon, crashed>>

ThreadStep(t) ==
    \/ CheckDead(t) \/ CheckClient(t) \/ Dial(t) \/ Handlers(t) \/ Call(t) \/ Reply(t)
    \/ Disconnect(t)

OOMStep == WatchOOMEvents \/ ThreadStep("oom")
MonitorTick == WatchHypervisor \/ WatchAgent \/ MarkDead \/ Notify \/ ThreadStep("monitor")
StopperStep == StopVM \/ MonitorStop \/ WaitGroup \/ ThreadStep("stopper")

Next ==
    \/ \E t \in Callers : (\E op \in {"request", "read"} : Begin(t, op)) \/ ThreadStep(t) \/ Done(t)
    \/ OOMStep \/ MonitorTick \/ MonitorExits \/ Stop \/ StopperStep
    \/ GuestDies

\* Goroutines run; the select of the monitor takes a stop some time.
Fairness ==
    /\ WF_vars(OOMStep)
    /\ WF_vars(MonitorTick)
    /\ SF_vars(MonitorExits)
    /\ WF_vars(StopperStep)

Spec == Init /\ [][Next]_vars
FairSpec == Spec /\ Fairness

-----------------------------------------------------------------------------

\* There is never a second connection to the agent, and none that nobody can
\* close: what is open is what k.client points to, and the handlers are
\* installed exactly while there is a client, although many goroutines find no
\* client at the same time (the second test of connect, under the lock).
OneConnection ==
    /\ open = {client} \ {None}
    /\ reqHandlers <=> client # None

\* notify never writes to a watcher channel that stop has closed, which would
\* panic (monitor.go, the running flag under the monitor's lock).
NoSendOnClosed == [][~mon.open => mon'.q <= mon.q]_vars

Stuck == crashed \/ lock # None

\* When the virtual machine is gone the monitor tells the watcher or the
\* sandbox is being stopped already, and watchOOMEvents ends instead of asking
\* again and again; unless the agent's lock was lost or the shim crashed.
DeathIsNoticed ==
    guest = "off" ~> \/ Stuck
                     \/ (~At("stopper", "idle") \/ mon.q > 0) /\ At("oom", "exit")

\* The lock of the agent is lost, or a nil client used, only once the agent was
\* marked dead or its virtual machine is gone: while the agent answers, the
\* accesses that connect, sendReq and the reads make without the lock are safe.
StuckOnlyAfterEnd == Stuck => dead \/ guest = "off"

\* monitor.go: stop waits "for the watcher channel to exit", and Sandbox.Stop
\* and Delete, which the shim calls with its lock held, return, unless a request
\* kept the lock of the agent or used the client after it was set to nil.
StopReturnsUnlessStuck == At("stopper", "connect") ~> (At("stopper", "exit") \/ Stuck)
=============================================================================
