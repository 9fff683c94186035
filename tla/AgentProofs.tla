---------------------------- MODULE AgentProofs ----------------------------
(***************************************************************************)
(* One connection to the agent and no write to a closed watcher channel,   *)
(* for any number of goroutines that share them.                           *)
(***************************************************************************)
EXTENDS AgentConn, TLAPS

MonitorState == [running : BOOLEAN, stopCh : BOOLEAN, q : Nat, open : BOOLEAN]

\* The channels of the monitor are closed when it stops running.
MonitorInv ==
    /\ mon \in MonitorState
    /\ mon.running => mon.open

\* A step that dials or disconnects.
ConnStep == \E t \in Threads : Dial(t) \/ Disconnect(t)

\* A step of the monitor or of the stopper that changes the monitor's state.
MonStep == Notify \/ MonitorExits \/ Stop \/ MonitorStop

LEMMA StepKinds ==
    ASSUME [Next]_vars
    PROVE  /\ ConnStep \/ UNCHANGED <<client, reqHandlers, open>>
           /\ MonStep \/ UNCHANGED mon
<1>0. \A t \in Callers : t \in Threads BY DEF Threads
<1>1. "oom" \in Threads /\ "monitor" \in Threads /\ "stopper" \in Threads BY DEF Threads
<1>2. ASSUME NEW t \in Threads, ThreadStep(t)
      PROVE  /\ ConnStep \/ UNCHANGED <<client, reqHandlers, open>>
             /\ UNCHANGED mon
  BY <1>2 DEF ThreadStep, ConnStep, CheckDead, CheckClient, Dial, Handlers, Call, Reply, Disconnect,
     agentVars
<1>3. ASSUME NEW t \in Callers, (\E op \in {"request", "read"} : Begin(t, op)) \/ Done(t)
      PROVE  UNCHANGED <<client, reqHandlers, open, mon>>
  BY <1>3 DEF Begin, Done, agentVars
<1>4. ASSUME WatchOOMEvents \/ WatchHypervisor \/ WatchAgent \/ MarkDead \/ StopVM \/ WaitGroup \/ GuestDies
      PROVE  UNCHANGED <<client, reqHandlers, open, mon>>
  BY <1>4 DEF WatchOOMEvents, WatchHypervisor, WatchAgent, MarkDead, StopVM, WaitGroup, GuestDies, agentVars
<1>5. ASSUME MonStep PROVE UNCHANGED <<client, reqHandlers, open>>
  BY <1>5 DEF MonStep, Notify, MonitorExits, Stop, MonitorStop, agentVars
<1>6. CASE UNCHANGED vars BY <1>6 DEF vars, agentVars
<1>7. CASE Next
  <2>1. CASE \E t \in Callers : (\E op \in {"request", "read"} : Begin(t, op)) \/ ThreadStep(t) \/ Done(t)
    BY <2>1, <1>0, <1>2, <1>3
  <2>2. CASE OOMStep BY <2>2, <1>1, <1>2, <1>4 DEF OOMStep
  <2>3. CASE MonitorTick BY <2>3, <1>1, <1>2, <1>4, <1>5 DEF MonitorTick, MonStep
  <2>4. CASE MonitorExits \/ Stop BY <2>4, <1>5 DEF MonStep
  <2>5. CASE StopperStep BY <2>5, <1>1, <1>2, <1>4, <1>5 DEF StopperStep, MonStep
  <2>6. CASE GuestDies BY <2>6, <1>4
  <2> QED BY <1>7, <2>1, <2>2, <2>3, <2>4, <2>5, <2>6 DEF Next
<1> QED BY <1>6, <1>7

LEMMA ConnNext == OneConnection /\ [Next]_vars => OneConnection'
<1> SUFFICES ASSUME OneConnection, [Next]_vars PROVE OneConnection'
  OBVIOUS
<1>1. ASSUME NEW t \in Threads, Dial(t) PROVE OneConnection'
  <2>1. CASE UNCHANGED <<client, reqHandlers, open>> BY <2>1 DEF OneConnection
  <2>2. ASSUME NEW n \in Nat, client = None, client' = n, open' = open \cup {n}, reqHandlers' = TRUE
        PROVE  OneConnection'
    BY <2>2, AgentAssumption DEF OneConnection
  <2>3. \A n : n \in 0 .. Cardinality(open) + Cardinality(Threads) => n \in Nat OBVIOUS
  <2> QED BY Zenon, <1>1, <2>1, <2>2, <2>3 DEF Dial, agentVars
<1>2. ASSUME NEW t \in Threads, Disconnect(t) PROVE OneConnection'
  BY <1>2 DEF Disconnect, OneConnection
<1>3. CASE UNCHANGED <<client, reqHandlers, open>> BY <1>3 DEF OneConnection
<1> QED BY <1>1, <1>2, <1>3, StepKinds DEF ConnStep

LEMMA QueueUpdate ==
    ASSUME NEW x \in MonitorState, NEW n \in Nat
    PROVE  /\ [x EXCEPT !.q = n] \in MonitorState
           /\ [x EXCEPT !.q = n].q = n
           /\ [x EXCEPT !.q = n].running = x.running
           /\ [x EXCEPT !.q = n].open = x.open
BY DEF MonitorState

LEMMA MonitorNext ==
    ASSUME MonitorInv, [Next]_vars
    PROVE  MonitorInv' /\ (~mon.open => mon'.q <= mon.q)
<1>0. mon.q \in Nat /\ mon \in MonitorState BY DEF MonitorInv, MonitorState
<1>1. CASE UNCHANGED mon
  <2>1. MonitorInv' BY <1>1 DEF MonitorInv
  <2>2. mon'.q <= mon.q BY <1>0, <1>1
  <2> QED BY <2>1, <2>2
<1>2. CASE Notify
  <2>1. CASE mon.running /\ mon' = [mon EXCEPT !.q = mon.q + 1]
    <3>1. mon.q + 1 \in Nat BY <1>0
    <3>2. mon' \in MonitorState /\ mon'.running = mon.running /\ mon'.open = mon.open
      BY Zenon, <1>0, <2>1, <3>1, QueueUpdate
    <3> QED BY Zenon, <2>1, <3>2 DEF MonitorInv
  <2> QED BY <1>1, <1>2, <2>1 DEF Notify
<1>3. CASE MonitorExits
  <2>1. /\ mon' \in MonitorState /\ mon'.running = mon.running /\ mon'.open = mon.open
        /\ mon'.q = mon.q
    BY Zenon, <1>0, <1>3 DEF MonitorExits, MonitorState
  <2>2. mon'.q <= mon.q BY <1>0, <2>1
  <2> QED BY Zenon, <2>1, <2>2 DEF MonitorInv
<1>4. CASE Stop
  <2>1. CASE mon.q > 0 /\ mon' = [mon EXCEPT !.q = mon.q - 1]
    <3>1. mon.q - 1 \in Nat /\ mon.q - 1 <= mon.q BY <1>0, <2>1
    <3>2. /\ mon' \in MonitorState /\ mon'.running = mon.running /\ mon'.open = mon.open
          /\ mon'.q = mon.q - 1
      BY <1>0, <2>1, <3>1, QueueUpdate
    <3> QED BY Zenon, <3>1, <3>2 DEF MonitorInv
  <2> QED BY <1>1, <1>4, <2>1 DEF Stop
<1>5. CASE MonitorStop
  <2>1. CASE mon' = [mon EXCEPT !.running = FALSE, !.stopCh = TRUE, !.open = FALSE]
    <3>1. mon' \in MonitorState /\ mon'.running = FALSE /\ mon'.q = mon.q
      BY Zenon, <1>0, <2>1 DEF MonitorState
    <3>2. mon'.q <= mon.q BY <1>0, <3>1
    <3> QED BY Zenon, <3>1, <3>2 DEF MonitorInv
  <2> QED BY <1>1, <1>5, <2>1 DEF MonitorStop
<1> QED BY <1>1, <1>2, <1>3, <1>4, <1>5, StepKinds DEF MonStep

\* However many goroutines connect, disconnect and mark the agent dead at the
\* same time, there is at most one connection, the client points to it, and the
\* handlers are installed exactly while it exists (connect and disconnect).
THEOREM ConnectionIsSingle == Spec => []OneConnection
<1>1. Init => OneConnection BY DEF Init, OneConnection
<1> QED BY <1>1, ConnNext, PTL DEF Spec

\* notify never writes to the watcher channel once monitor.stop has closed it.
THEOREM ClosedIsNotWritten == Spec => NoSendOnClosed
<1>1. Init => MonitorInv BY DEF Init, MonitorInv, MonitorState
<1>2. MonitorInv /\ [Next]_vars => MonitorInv' BY MonitorNext
<1>3. MonitorInv /\ [Next]_vars => [~mon.open => mon'.q <= mon.q]_vars BY MonitorNext
<1> QED BY <1>1, <1>2, <1>3, PTL DEF Spec, NoSendOnClosed
-----------------------------------------------------------------------------
(* The lock is lost and a nil client used only after the end of the agent.  *)

Ended == dead \/ guest = "off"

Holds(t) == thread[t].pc \in {"handlers", "call"}

\* Before the end nobody disconnects, so a goroutine that found a client still
\* has one when it reads the handlers and when it uses the client.
BeforeEnd ==
    /\ ~Stuck
    /\ \A t \in Threads : thread[t].pc # "disconnect" /\ (Holds(t) => client # None)

EndInv ==
    /\ thread \in [Threads -> Thread]
    /\ client \in Conns \cup {None}
    /\ Ended \/ BeforeEnd

\* What a step may do to the goroutine t while the others stay where they are.
Moves(t, pcs) ==
    /\ thread' \in [Threads -> Thread]
    /\ \A u \in Threads \ {t} : thread'[u] = thread[u]
    /\ thread'[t].pc \in pcs

LEMMA PcUpdate ==
    ASSUME thread \in [Threads -> Thread], NEW t \in Threads, NEW x,
           x \in {"client", "dial", "handlers", "call", "disconnect", "tell", "stopMonitor",
                  "wait", "exit", "connect"},
           Goto(t, x)
    PROVE  Moves(t, {x})
BY DEF Goto, Moves, Thread

LEMMA SetUpdate ==
    ASSUME thread \in [Threads -> Thread], NEW t \in Threads, NEW x, NEW op,
           x \in {"idle", "connect", "mark", "disconnect", "exit"},
           op \in {"request", "read", "hypervisor", "agent", "stop"},
           Set(t, x, op)
    PROVE  Moves(t, {x})
BY DEF Set, Moves, Thread

LEMMA ReturnUpdate ==
    ASSUME thread \in [Threads -> Thread], NEW t \in Threads,
           NEW res \in {"ok", "err", "dead", "closed"}, Return(t, res)
    PROVE  Moves(t, {"back"})
<1>1. thread[t] \in Thread OBVIOUS
<1>2. [thread[t] EXCEPT !.pc = "back", !.res = res, !.conn = None] \in Thread BY Zenon, <1>1 DEF Thread
<1>3. thread' = [thread EXCEPT ![t] = [thread[t] EXCEPT !.pc = "back", !.res = res, !.conn = None]]
  BY Zenon, <1>1 DEF Return, Thread
<1> QED BY <1>1, <1>2, <1>3 DEF Moves, Thread

LEMMA ConnectedUpdate ==
    ASSUME thread \in [Threads -> Thread], NEW t \in Threads, Connected(t)
    PROVE  Moves(t, {"handlers", "call"})
<1>1. CASE thread[t].op = "read"
  <2>1. Goto(t, "call") BY <1>1 DEF Connected
  <2> QED BY <2>1, PcUpdate DEF Moves
<1>2. CASE thread[t].op # "read"
  <2>1. Goto(t, "handlers") BY <1>2 DEF Connected
  <2> QED BY <2>1, PcUpdate DEF Moves
<1> QED BY <1>1, <1>2

LEMMA EndedStays == Ended /\ [Next]_vars => Ended'
<1> SUFFICES ASSUME Ended, [Next]_vars PROVE Ended'
  OBVIOUS
<1>0. ASSUME NEW t \in Threads, ThreadStep(t) PROVE Ended'
  BY <1>0 DEF ThreadStep, CheckDead, CheckClient, Dial, Handlers, Call, Reply, Disconnect, agentVars, Ended
<1>1. ASSUME NEW t \in Callers, (\E op \in {"request", "read"} : Begin(t, op)) \/ Done(t) PROVE Ended'
  BY <1>1 DEF Begin, Done, agentVars, Ended
<1>2. CASE WatchOOMEvents \/ WatchHypervisor \/ WatchAgent \/ MarkDead \/ Notify
  BY <1>2 DEF WatchOOMEvents, WatchHypervisor, WatchAgent, MarkDead, Notify, agentVars, Ended
<1>3. CASE MonitorExits \/ Stop \/ StopVM \/ MonitorStop \/ WaitGroup \/ GuestDies
  BY <1>3 DEF MonitorExits, Stop, StopVM, MonitorStop, WaitGroup, GuestDies, agentVars, Ended
<1>4. CASE UNCHANGED vars BY <1>4 DEF vars, agentVars, Ended
<1>5. Callers \subseteq Threads /\ {"oom", "monitor", "stopper"} \subseteq Threads BY DEF Threads
<1> QED BY <1>0, <1>1, <1>2, <1>3, <1>4, <1>5 DEF Next, OOMStep, MonitorTick, StopperStep

\* A goroutine that moves to a place where it holds no client, in a step that
\* leaves the agent alone, preserves the invariant.
LEMMA PlainMove ==
    ASSUME EndInv, NEW t \in Threads, NEW pcs, Moves(t, pcs),
           pcs \cap {"handlers", "call", "disconnect"} = {},
           UNCHANGED <<client, lock, crashed>>, Ended => Ended'
    PROVE  EndInv'
<1>1. thread' \in [Threads -> Thread] /\ client' \in Conns \cup {None} BY DEF Moves, EndInv
<1>2. CASE BeforeEnd
  <2>1. ~Stuck' BY <1>2 DEF BeforeEnd, Stuck
  <2>2. ASSUME NEW u \in Threads
        PROVE  thread'[u].pc # "disconnect" /\ (Holds(u)' => client' # None)
    BY <1>2, <2>2 DEF BeforeEnd, Moves, Holds
  <2> QED BY <1>1, <2>1, <2>2 DEF EndInv, BeforeEnd
<1> QED BY <1>1, <1>2 DEF EndInv

\* The same for a goroutine that now holds a client, because there is one.
LEMMA HoldMove ==
    ASSUME EndInv, NEW t \in Threads, Moves(t, {"handlers", "call"}),
           client' \in Conns, UNCHANGED <<lock, crashed>>, Ended => Ended'
    PROVE  EndInv'
<1>1. thread' \in [Threads -> Thread] /\ client' \in Conns \cup {None} BY DEF Moves
<1>2. CASE BeforeEnd
  <2>1. ~Stuck' BY <1>2 DEF BeforeEnd, Stuck
  <2>2. client' # None BY AgentAssumption DEF Conns
  <2>3. ASSUME NEW u \in Threads PROVE thread'[u].pc # "disconnect"
    BY <1>2, <2>3 DEF BeforeEnd, Moves
  <2> QED BY <1>1, <2>1, <2>2, <2>3 DEF EndInv, BeforeEnd
<1> QED BY <1>1, <1>2 DEF EndInv

\* An end that comes now: only the types are left to show.
LEMMA EndMove ==
    ASSUME thread' \in [Threads -> Thread], client' \in Conns \cup {None}, Ended'
    PROVE  EndInv'
BY DEF EndInv

\* The steps of connect.
LEMMA EndConnect ==
    ASSUME EndInv, NEW t \in Threads, Ended => Ended',
           CheckDead(t) \/ CheckClient(t) \/ Dial(t)
    PROVE  EndInv'
<1>0. thread \in [Threads -> Thread] /\ client \in Conns \cup {None} BY DEF EndInv
<1>1. CASE CheckDead(t)
  <2>0. UNCHANGED <<client, lock, crashed>> BY <1>1 DEF CheckDead, agentVars
  <2>1. CASE Return(t, "dead")
    <3>1. Moves(t, {"back"}) BY <1>0, <2>1, ReturnUpdate
    <3> QED BY <2>0, <3>1, PlainMove
  <2>2. CASE Goto(t, "client")
    <3>1. Moves(t, {"client"}) BY <1>0, <2>2, PcUpdate
    <3> QED BY <2>0, <3>1, PlainMove
  <2> QED BY <1>1, <2>1, <2>2 DEF CheckDead
<1>2. CASE CheckClient(t)
  <2>0. UNCHANGED <<client, lock, crashed>> BY <1>2 DEF CheckClient, agentVars
  <2>1. CASE client # None /\ Connected(t)
    <3>1. Moves(t, {"handlers", "call"}) BY <1>0, <2>1, ConnectedUpdate
    <3> QED BY <1>0, <2>0, <2>1, <3>1, HoldMove
  <2>2. CASE Goto(t, "dial")
    <3>1. Moves(t, {"dial"}) BY <1>0, <2>2, PcUpdate
    <3> QED BY <2>0, <3>1, PlainMove
  <2> QED BY <1>2, <2>1, <2>2 DEF CheckClient
<1>3. CASE Dial(t)
  <2>0. crashed' = crashed BY <1>3 DEF Dial
  <2>1. CASE client # None /\ Connected(t) /\ UNCHANGED <<client, lock>>
    <3>1. Moves(t, {"handlers", "call"}) BY <1>0, <2>1, ConnectedUpdate
    <3> QED BY <1>0, <2>0, <2>1, <3>1, HoldMove
  <2>2. ASSUME NEW n \in Nat, client' = n, Connected(t), UNCHANGED lock
        PROVE  EndInv'
    <3>1. Moves(t, {"handlers", "call"}) BY <1>0, <2>2, ConnectedUpdate
    <3> QED BY <2>0, <2>2, <3>1, HoldMove DEF Conns
  <2>3. CASE dead' /\ Return(t, "err") /\ UNCHANGED client
    <3>1. Moves(t, {"back"}) BY <1>0, <2>3, ReturnUpdate
    <3> QED BY <1>0, <2>3, <3>1, EndMove DEF Moves, Ended
  <2>4. \A n : n \in 0 .. Cardinality(open) + Cardinality(Threads) => n \in Nat OBVIOUS
  <2> QED BY Zenon, <1>3, <2>1, <2>2, <2>3, <2>4 DEF Dial, agentVars
<1> QED BY <1>1, <1>2, <1>3

\* The steps of a request.  Handlers and a client come and go together, so a
\* goroutine that finds none has lost them, and so the agent has ended.
LEMMA EndRequest ==
    ASSUME EndInv, OneConnection, NEW t \in Threads, Ended => Ended',
           Handlers(t) \/ Call(t) \/ Reply(t) \/ Disconnect(t)
    PROVE  EndInv'
<1>0. thread \in [Threads -> Thread] /\ client \in Conns \cup {None} BY DEF EndInv
<1>1. CASE Handlers(t)
  <2>0. At(t, "handlers") /\ UNCHANGED <<client, crashed>> BY <1>1 DEF Handlers
  <2>1. CASE reqHandlers /\ Goto(t, "call") /\ UNCHANGED lock
    <3>1. Moves(t, {"handlers", "call"}) BY <1>0, <2>1, PcUpdate DEF Moves
    <3>2. client \in Conns BY <1>0, <2>1 DEF OneConnection
    <3> QED BY <2>0, <2>1, <3>1, <3>2, HoldMove
  <2>2. CASE ~reqHandlers /\ Return(t, "err")
    <3>1. Moves(t, {"back"}) BY <1>0, <2>2, ReturnUpdate
    <3>2. Ended BY <2>0, <2>2 DEF EndInv, BeforeEnd, Holds, At, OneConnection
    <3> QED BY <1>0, <2>0, <3>1, <3>2, EndMove DEF Moves
  <2> QED BY <1>1, <2>1, <2>2 DEF Handlers
<1>2. CASE Call(t)
  <2>0. At(t, "call") /\ UNCHANGED <<client, lock>> BY <1>2 DEF Call, agentVars
  <2>1. CASE client # None /\ thread' = [thread EXCEPT ![t].pc = "reply", ![t].conn = client]
             /\ UNCHANGED crashed
    <3>1. thread[t] \in Thread BY <1>0
    <3>2. [thread[t] EXCEPT !.pc = "reply", !.conn = client] \in Thread BY Zenon, <1>0, <3>1 DEF Thread
    <3>3. thread' = [thread EXCEPT ![t] = [thread[t] EXCEPT !.pc = "reply", !.conn = client]]
      BY Zenon, <1>0, <2>1, <3>1 DEF Thread
    <3>4. Moves(t, {"reply"}) BY <1>0, <3>1, <3>2, <3>3 DEF Moves, Thread
    <3> QED BY <2>0, <2>1, <3>4, PlainMove
  <2>2. CASE client = None /\ UNCHANGED thread
    <3>1. Ended BY <2>0, <2>2 DEF EndInv, BeforeEnd, Holds, At
    <3> QED BY <1>0, <2>0, <2>2, <3>1, EndMove
  <2> QED BY <1>2, <2>1, <2>2 DEF Call
<1>3. CASE Reply(t)
  <2>0. UNCHANGED <<client, lock, crashed>> BY <1>3 DEF Reply, agentVars
  <2>1. PICK res \in {"ok", "err", "dead", "closed"} : Return(t, res) BY <1>3 DEF Reply
  <2>2. Moves(t, {"back"}) BY <1>0, <2>1, ReturnUpdate
  <2> QED BY <2>0, <2>2, PlainMove
<1>4. CASE Disconnect(t)
  <2>1. Ended BY <1>4 DEF Disconnect, At, EndInv, BeforeEnd
  <2>2. client' \in Conns \cup {None} BY <1>0, <1>4 DEF Disconnect
  <2>3. CASE Goto(t, "stopMonitor")
    <3>1. Moves(t, {"stopMonitor"}) BY <1>0, <2>3, PcUpdate
    <3> QED BY <2>1, <2>2, <3>1, EndMove DEF Moves
  <2>4. CASE Goto(t, "tell")
    <3>1. Moves(t, {"tell"}) BY <1>0, <2>4, PcUpdate
    <3> QED BY <2>1, <2>2, <3>1, EndMove DEF Moves
  <2> QED BY <1>4, <2>3, <2>4 DEF Disconnect
<1> QED BY <1>1, <1>2, <1>3, <1>4

\* The steps between requests of the goroutine t, which set where it goes on.
LEMMA EndSet ==
    ASSUME EndInv, NEW t \in Threads, NEW x \in {"idle", "connect", "mark", "exit"},
           NEW op \in {"request", "read", "hypervisor", "agent", "stop"},
           Set(t, x, op), UNCHANGED <<client, lock, crashed>>, Ended => Ended'
    PROVE  EndInv'
<1>1. thread \in [Threads -> Thread] BY DEF EndInv
<1>2. Moves(t, {x}) BY <1>1, SetUpdate
<1> QED BY <1>2, PlainMove

\* The steps that only the monitor and the goroutine that stops the sandbox take.
LEMMA EndMonitor ==
    ASSUME EndInv, Ended => Ended',
           \/ WatchHypervisor \/ WatchAgent \/ MarkDead \/ Notify \/ MonitorExits
           \/ Stop \/ StopVM \/ MonitorStop \/ WaitGroup
    PROVE  EndInv'
<1>0. thread \in [Threads -> Thread] /\ client \in Conns \cup {None} BY DEF EndInv
<1>1. "monitor" \in Threads /\ "stopper" \in Threads BY DEF Threads
<1>2. CASE WatchHypervisor
  <2>1. UNCHANGED <<client, lock, crashed>> BY <1>2 DEF WatchHypervisor, agentVars
  <2>2. Set("monitor", "mark", "hypervisor") \/ Set("monitor", "connect", "request")
    BY <1>2 DEF WatchHypervisor
  <2> QED BY <1>1, <2>1, <2>2, EndSet
<1>3. CASE WatchAgent
  <2>1. UNCHANGED <<client, lock, crashed>> BY <1>3 DEF WatchAgent, agentVars
  <2>2. Set("monitor", "idle", "request") \/ Set("monitor", "mark", "agent") BY <1>3 DEF WatchAgent
  <2> QED BY <1>1, <2>1, <2>2, EndSet
<1>4. CASE MarkDead
  <2>1. Ended' /\ UNCHANGED client /\ Goto("monitor", "disconnect") BY <1>4 DEF MarkDead, Ended
  <2>2. Moves("monitor", {"disconnect"}) BY <1>0, <1>1, <2>1, PcUpdate
  <2> QED BY <1>0, <2>1, <2>2, EndMove DEF Moves
<1>5. CASE Notify
  <2>1. UNCHANGED <<client, lock, crashed>> BY <1>5 DEF Notify, agentVars
  <2>2. Set("monitor", "connect", "request") \/ Set("monitor", "idle", "request") BY <1>5 DEF Notify
  <2> QED BY <1>1, <2>1, <2>2, EndSet
<1>6. CASE MonitorExits
  <2>1. UNCHANGED <<client, lock, crashed>> /\ Goto("monitor", "exit") BY <1>6 DEF MonitorExits, agentVars
  <2>2. Moves("monitor", {"exit"}) BY <1>0, <1>1, <2>1, PcUpdate
  <2> QED BY <1>1, <2>1, <2>2, PlainMove
<1>7. CASE Stop
  <2>1. UNCHANGED <<client, lock, crashed>> /\ Goto("stopper", "connect") BY <1>7 DEF Stop, agentVars
  <2>2. Moves("stopper", {"connect"}) BY <1>0, <1>1, <2>1, PcUpdate
  <2> QED BY <1>1, <2>1, <2>2, PlainMove
<1>8. CASE StopVM
  <2>1. Ended' /\ UNCHANGED client /\ Set("stopper", "disconnect", "stop") BY <1>8 DEF StopVM, Ended, agentVars
  <2>2. Moves("stopper", {"disconnect"}) BY <1>0, <1>1, <2>1, SetUpdate
  <2> QED BY <1>0, <2>1, <2>2, EndMove DEF Moves
<1>9. CASE MonitorStop
  <2>1. UNCHANGED <<client, lock, crashed>> /\ Goto("stopper", "wait") BY <1>9 DEF MonitorStop, agentVars
  <2>2. Moves("stopper", {"wait"}) BY <1>0, <1>1, <2>1, PcUpdate
  <2> QED BY <1>1, <2>1, <2>2, PlainMove
<1>10. CASE WaitGroup
  <2>1. UNCHANGED <<client, lock, crashed>> /\ Goto("stopper", "exit") BY <1>10 DEF WaitGroup, agentVars
  <2>2. Moves("stopper", {"exit"}) BY <1>0, <1>1, <2>1, PcUpdate
  <2> QED BY <1>1, <2>1, <2>2, PlainMove
<1> QED BY <1>2, <1>3, <1>4, <1>5, <1>6, <1>7, <1>8, <1>9, <1>10

LEMMA EndNext == EndInv /\ OneConnection /\ [Next]_vars => EndInv'
<1> SUFFICES ASSUME EndInv, OneConnection, [Next]_vars PROVE EndInv'
  OBVIOUS
<1>0. Ended => Ended' BY EndedStays
<1>1. Callers \subseteq Threads /\ {"oom", "monitor", "stopper"} \subseteq Threads BY DEF Threads
<1>2. ASSUME NEW t \in Threads, ThreadStep(t) PROVE EndInv'
  BY <1>0, <1>2, EndConnect, EndRequest DEF ThreadStep
<1>3. ASSUME NEW t \in Callers, NEW op \in {"request", "read"}, Begin(t, op) PROVE EndInv'
  <2>1. Set(t, "connect", op) /\ UNCHANGED <<client, lock, crashed>> BY <1>3 DEF Begin, agentVars
  <2> QED BY <1>0, <1>1, <2>1, EndSet
<1>4. ASSUME NEW t \in Callers, Done(t) PROVE EndInv'
  <2>1. Set(t, "idle", "request") /\ UNCHANGED <<client, lock, crashed>> BY <1>4 DEF Done, agentVars
  <2> QED BY <1>0, <1>1, <2>1, EndSet
<1>5. CASE WatchOOMEvents
  <2>1. Set("oom", "exit", "request") \/ Set("oom", "connect", "request") BY <1>5 DEF WatchOOMEvents
  <2>2. UNCHANGED <<client, lock, crashed>> BY <1>5 DEF WatchOOMEvents, agentVars
  <2> QED BY <1>0, <1>1, <2>1, <2>2, EndSet
<1>6. CASE GuestDies
  BY <1>6, EndMove DEF GuestDies, Ended, EndInv, agentVars
<1>7. CASE UNCHANGED vars
  BY <1>7 DEF vars, agentVars, EndInv, Ended, BeforeEnd, Stuck, Holds
<1>8. CASE \/ WatchHypervisor \/ WatchAgent \/ MarkDead \/ Notify \/ MonitorExits
           \/ Stop \/ StopVM \/ MonitorStop \/ WaitGroup
  BY <1>0, <1>8, EndMonitor
<1>9. CASE Next
  <2>1. CASE \E t \in Callers : (\E op \in {"request", "read"} : Begin(t, op)) \/ ThreadStep(t) \/ Done(t)
    BY <2>1, <1>1, <1>2, <1>3, <1>4
  <2>2. CASE OOMStep BY <2>2, <1>1, <1>2, <1>5 DEF OOMStep
  <2>3. CASE MonitorTick BY <2>3, <1>1, <1>2, <1>8 DEF MonitorTick
  <2>4. CASE MonitorExits \/ Stop BY <2>4, <1>8
  <2>5. CASE StopperStep BY <2>5, <1>1, <1>2, <1>8 DEF StopperStep
  <2> QED BY <1>9, <1>6, <2>1, <2>2, <2>3, <2>4, <2>5 DEF Next
<1> QED BY <1>7, <1>9

\* For any number of goroutines, sendReq keeps the lock of the agent, and a read
\* or a handler uses a nil client, only after the agent was marked dead or its
\* virtual machine was stopped or died.
THEOREM LockIsLostOnlyAfterEnd == Spec => []StuckOnlyAfterEnd
<1>1. Init => EndInv /\ OneConnection
  BY DEF Init, EndInv, OneConnection, BeforeEnd, Stuck, Holds, Thread, Threads
<1>2. EndInv => StuckOnlyAfterEnd BY DEF EndInv, BeforeEnd, Ended, StuckOnlyAfterEnd
<1> QED BY <1>1, <1>2, ConnNext, EndNext, PTL DEF Spec
=============================================================================
