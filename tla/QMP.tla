-------------------------------- MODULE QMP --------------------------------
(***************************************************************************)
(* The QMP client of govmm (pkg/govmm/qemu/qmp.go).  Goroutines call the   *)
(* Execute methods; mainLoop keeps their commands in a queue, writes one   *)
(* at a time to QEMU and hands each answer to its caller over an           *)
(* unbuffered channel; readLoop feeds it the lines QEMU sends.  Contexts   *)
(* can be cancelled, QEMU can die, Shutdown can be called.                 *)
(*                                                                         *)
(* A call stands for its command.  A line from QEMU is <<"greeting">>,     *)
(* <<"return", c>>, <<"error", c>> or <<"event", d>>; the call c in an     *)
(* answer is not on the wire, the program cannot read it: it is there for  *)
(* the property that every caller is given its own answer.                 *)
(***************************************************************************)
EXTENDS Integers, Sequences, FiniteSets

CONSTANTS
  Calls,                \* the calls of Execute methods
  NoCall,               \* none of them
  Deletes,              \* those of ExecuteDeviceDel, which wait for an event
  Cancellable,          \* those whose context may be cancelled
  StartMayCancel,       \* whether the context of QMPStart may be cancelled
  MaxEvents             \* bound on the events QEMU sends unasked

ASSUME CallsAssumption ==
  /\ NoCall \notin Calls
  /\ Deletes \subseteq Calls /\ Cancellable \subseteq Calls
  /\ StartMayCancel \in BOOLEAN /\ MaxEvents \in Nat

VARIABLES
  start,                \* QMPStart: "waiting", "stopping", "up", "rejected", "failed"
  call,                 \* executeCommandWithResponse: "idle", "sending", "waiting", "returned"
  result,               \* what it returned
  cancelled,            \* calls whose context is done
  cmdCh,                \* "open", or "closed" by Shutdown
  disconnected,         \* disconnectedCh is closed
  loop,                 \* mainLoop: "select", "connect", "send", "drain", "fail", "exited"
  ready,                \* the greeting was seen
  queue,                \* cmdQueue
  cmdDone,              \* whose context mainLoop listens to, or NoCall
  pending,              \* the result mainLoop is blocked sending
  filter,               \* calls whose command still has its event filter
  received,             \* the answer that resultReceived stands for, or NoCall
  reader,               \* readLoop: "scan", "send", "closed"
  conn,                 \* "open", or "closed" by mainLoop
  qemu,                 \* "starting", "up", "dead"
  toQemu,               \* commands written and not read by QEMU
  written,              \* commands written so far
  fromQemu,             \* lines QEMU sent
  unplugging,           \* device_del commands whose device is still there
  deleted,              \* device_del commands whose device is gone
  events                \* events sent unasked

callVars == <<start, call, result, cancelled, cmdCh>>
loopVars == <<loop, ready, queue, cmdDone, pending, filter, received, disconnected, conn>>
qemuVars == <<qemu, unplugging, deleted, events>>
wire == <<toQemu, written>>
vars == <<callVars, loopVars, reader, qemuVars, wire, fromQemu>>

Nothing == <<"none", NoCall>>
NoSend == [to |-> NoCall, res |-> Nothing, unwritten |-> FALSE]

Init ==
  /\ start = "waiting"
  /\ call = [c \in Calls |-> "idle"]
  /\ result = [c \in Calls |-> Nothing]
  /\ cancelled = {} /\ cmdCh = "open" /\ disconnected = FALSE
  /\ loop = "select" /\ ready = FALSE /\ queue = << >> /\ cmdDone = NoCall
  /\ pending = NoSend /\ filter = Deletes /\ received = [c \in Calls |-> NoCall]
  /\ reader = "scan" /\ conn = "open"
  /\ qemu = "starting" /\ toQemu = << >> /\ written = {} /\ fromQemu = << >>
  /\ unplugging = {} /\ deleted = {} /\ events = 0

Front(q) == IF q = << >> THEN NoCall ELSE Head(q)

Return(c, r) ==
  /\ call' = [call EXCEPT ![c] = "returned"]
  /\ result' = [result EXCEPT ![c] = r]

---------------------------------------------------------------------------
(* executeCommandWithResponse                                              *)

Execute(c) ==
  /\ call[c] = "idle" /\ start = "up" /\ cmdCh = "open"
  /\ call' = [call EXCEPT ![c] = "sending"]
  /\ UNCHANGED <<start, result, cancelled, cmdCh, loopVars, reader, qemuVars, wire, fromQemu>>

ExecuteDisconnected(c) ==
  /\ call[c] = "sending" /\ disconnected
  /\ Return(c, <<"lost", c>>)
  /\ UNCHANGED <<start, cancelled, cmdCh, loopVars, reader, qemuVars, wire, fromQemu>>

ExecuteCancelled(c) ==
  /\ call[c] = "waiting" /\ c \in cancelled
  /\ Return(c, <<"cancelled", c>>)
  /\ UNCHANGED <<start, cancelled, cmdCh, loopVars, reader, qemuVars, wire, fromQemu>>

Cancel(c) ==
  /\ c \in Cancellable \ cancelled /\ call[c] \in {"sending", "waiting"}
  /\ cancelled' = cancelled \cup {c}
  /\ UNCHANGED <<start, call, result, cmdCh, loopVars, reader, qemuVars, wire, fromQemu>>

---------------------------------------------------------------------------
(* QMPStart and Shutdown                                                   *)

StartCancelled ==
  /\ StartMayCancel /\ start = "waiting"
  /\ start' = "stopping" /\ cmdCh' = "closed"
  /\ UNCHANGED <<call, result, cancelled, loopVars, reader, qemuVars, wire, fromQemu>>

StartDisconnected ==
  /\ start \in {"waiting", "stopping"} /\ disconnected
  /\ start' = "failed"
  /\ UNCHANGED <<call, result, cancelled, cmdCh, loopVars, reader, qemuVars, wire, fromQemu>>

(* As documented, not while a call is handing over its command: closing    *)
(* cmdCh would make that call panic.                                       *)
Shutdown ==
  /\ start = "up" /\ cmdCh = "open"
  /\ \A c \in Calls : call[c] # "sending"
  /\ cmdCh' = "closed"
  /\ UNCHANGED <<start, call, result, cancelled, loopVars, reader, qemuVars, wire, fromQemu>>

---------------------------------------------------------------------------
(* mainLoop.  The operators describe what one case of the select does to   *)
(* queue, toQemu, loop, pending and cmdDone.                               *)

(* writeNextQMPCommand on the queue q.  A write that fails sends the error *)
(* to the caller, whatever its context, before the command is removed.     *)
WriteNext(q) ==
  /\ queue' = q
  /\ IF qemu # "dead"
     THEN /\ toQemu' = Append(toQemu, Head(q)) /\ written' = written \cup {Head(q)}
          /\ loop' = "select" /\ pending' = NoSend /\ cmdDone' = Head(q)
     ELSE /\ pending' = [to |-> Head(q), res |-> <<"lost", Head(q)>>, unwritten |-> TRUE]
          /\ loop' = "send"
          /\ UNCHANGED <<wire, cmdDone>>

WriteUnlessEmpty(q) ==
  IF q # << >> THEN WriteNext(q)
  ELSE /\ queue' = q /\ loop' = "select" /\ pending' = NoSend /\ cmdDone' = NoCall
       /\ UNCHANGED wire

(* finaliseCommandWithResponse on the command at the front.                *)
Finalise(res) ==
  IF Head(queue) \in cancelled
  THEN WriteUnlessEmpty(Tail(queue))
  ELSE /\ pending' = [to |-> Head(queue), res |-> res, unwritten |-> FALSE]
       /\ queue' = Tail(queue) /\ loop' = "send"
       /\ UNCHANGED <<cmdDone, wire>>

Keep ==
  /\ cmdDone' = Front(queue)
  /\ UNCHANGED <<queue, wire, loop, pending>>

(* Mutant: a command is written at once, whatever is queued before it.     *)
AcceptWrites(c) ==
  /\ loop = "select" /\ cmdCh = "open" /\ call[c] = "sending"
  /\ call' = [call EXCEPT ![c] = "waiting"]
  /\ IF ready /\ qemu # "dead"
     THEN /\ queue' = Append(queue, c) /\ cmdDone' = Front(queue')
          /\ toQemu' = Append(toQemu, c) /\ written' = written \cup {c}
          /\ UNCHANGED <<loop, pending>>
     ELSE queue' = Append(queue, c) /\ UNCHANGED <<wire, loop, pending, cmdDone>>
  /\ UNCHANGED <<start, result, cancelled, cmdCh, ready, filter, received, disconnected, conn,
                 reader, qemuVars, fromQemu>>

(* case cmd, ok := <-q.cmdCh                                               *)
Accept(c) ==
  /\ loop = "select" /\ cmdCh = "open" /\ call[c] = "sending"
  /\ call' = [call EXCEPT ![c] = "waiting"]
  /\ IF ready /\ queue = << >>
     THEN WriteNext(<<c>>)
     ELSE queue' = Append(queue, c) /\ UNCHANGED <<wire, loop, pending, cmdDone>>
  /\ UNCHANGED <<start, result, cancelled, cmdCh, ready, filter, received, disconnected, conn,
                 reader, qemuVars, fromQemu>>

(* Mutant: the filter looks at the name of the event and not at the device. *)
ProcessEventAnyDevice(d) ==
  LET c == Front(queue)
      match == c \in filter
  IN /\ IF match /\ received[c] # NoCall THEN Finalise(<<"return", received[c]>>) ELSE Keep
     /\ filter' = IF match /\ received[c] = NoCall THEN filter \ {c} ELSE filter
     /\ UNCHANGED received

(* processQMPEvent                                                         *)
ProcessEvent(d) ==
  LET c == Front(queue)
      match == c \in filter /\ c = d
  IN /\ IF match /\ received[c] # NoCall THEN Finalise(<<"return", received[c]>>) ELSE Keep
     /\ filter' = IF match /\ received[c] = NoCall THEN filter \ {c} ELSE filter
     /\ UNCHANGED received

(* processQMPInput on an answer                                            *)
ProcessAnswer(kind, d) ==
  LET c == Front(queue)
      final == c # NoCall /\ (kind = "error" \/ c \notin filter)
  IN /\ IF final THEN Finalise(<<kind, d>>) ELSE Keep
     /\ received' = IF c # NoCall /\ ~final THEN [received EXCEPT ![c] = d] ELSE received
     /\ UNCHANGED filter

(* case line, ok := <-fromVMCh                                             *)
Input ==
  /\ loop = "select" /\ reader = "send"
  /\ reader' = "scan" /\ fromQemu' = Tail(fromQemu)
  /\ LET line == Head(fromQemu) IN
     IF ~ready
     THEN /\ loop' = IF line[1] = "greeting" THEN "connect" ELSE "select"
          /\ UNCHANGED <<queue, wire, pending, cmdDone, filter, received>>
     ELSE \/ line[1] = "event" /\ ProcessEvent(line[2])
          \/ line[1] \in {"return", "error"} /\ ProcessAnswer(line[1], line[2])
  /\ UNCHANGED <<callVars, ready, disconnected, conn, qemuVars>>

(* q.connectedCh <- version, received by QMPStart, which refuses a QEMU    *)
(* older than 5.0.                                                         *)
Connect ==
  /\ loop = "connect" /\ start = "waiting"
  /\ start' \in {"up", "rejected"}
  /\ ready' = TRUE /\ loop' = "select"
  /\ UNCHANGED <<call, result, cancelled, cmdCh, queue, cmdDone, pending, filter, received,
                 disconnected, conn, reader, qemuVars, wire, fromQemu>>

(* case <-cmdDoneCh: cancelCurrentCommand                                  *)
CancelCurrent ==
  /\ loop = "select" /\ cmdDone \in cancelled
  /\ IF received[Head(queue)] # NoCall
     THEN Finalise(<<"error", Head(queue)>>) /\ UNCHANGED filter
     ELSE Keep /\ filter' = filter \ {Head(queue)}
  /\ UNCHANGED <<callVars, ready, received, disconnected, conn, reader, qemuVars, fromQemu>>

(* cmd.res <- result, received by the caller if it is still there.         *)
Deliver ==
  /\ loop = "send" /\ call[pending.to] = "waiting"
  /\ Return(pending.to, pending.res)
  /\ IF pending.unwritten
     THEN /\ queue' = Tail(queue) /\ cmdDone' = Front(Tail(queue))
          /\ loop' = "select" /\ pending' = NoSend /\ UNCHANGED wire
     ELSE WriteUnlessEmpty(queue)
  /\ UNCHANGED <<start, cancelled, cmdCh, ready, filter, received, disconnected, conn, reader,
                 qemuVars, fromQemu>>

(* The return of mainLoop: its deferred function closes the connection,    *)
(* takes one item from readLoop, fails what is queued and closes           *)
(* disconnectedCh.                                                         *)
Leave ==
  /\ loop = "select" /\ (cmdCh = "closed" \/ reader = "closed")
  /\ loop' = "drain" /\ conn' = "closed"
  /\ UNCHANGED <<callVars, ready, queue, cmdDone, pending, filter, received, disconnected, reader,
                 qemuVars, wire, fromQemu>>

Drain ==
  /\ loop = "drain"
  /\ \/ reader = "send" /\ reader' = "scan" /\ fromQemu' = Tail(fromQemu)
     \/ reader = "closed" /\ UNCHANGED <<reader, fromQemu>>
  /\ loop' = "fail"
  /\ UNCHANGED <<callVars, ready, queue, cmdDone, pending, filter, received, disconnected, conn,
                 qemuVars, wire>>

FailOutstanding ==
  /\ loop = "fail" /\ queue # << >>
  /\ \/ call[Head(queue)] = "waiting" /\ Return(Head(queue), <<"lost", Head(queue)>>)
     \/ Head(queue) \in cancelled /\ UNCHANGED <<call, result>>
  /\ queue' = Tail(queue)
  /\ UNCHANGED <<start, cancelled, cmdCh, loop, ready, cmdDone, pending, filter, received,
                 disconnected, conn, reader, qemuVars, wire, fromQemu>>

(* Mutant: disconnectedCh is not closed.                                   *)
ExitLeavesOpen ==
  /\ loop = "fail" /\ queue = << >>
  /\ loop' = "exited"
  /\ UNCHANGED <<callVars, ready, queue, cmdDone, pending, filter, received, disconnected, conn,
                 reader, qemuVars, wire, fromQemu>>

Exit ==
  /\ loop = "fail" /\ queue = << >>
  /\ loop' = "exited" /\ disconnected' = TRUE
  /\ UNCHANGED <<callVars, ready, queue, cmdDone, pending, filter, received, conn, reader,
                 qemuVars, wire, fromQemu>>

---------------------------------------------------------------------------
(* readLoop                                                                *)

Scan ==
  /\ reader = "scan"
  /\ \/ fromQemu # << >> /\ reader' = "send"
     \/ conn = "closed" /\ reader' = "closed"
     \/ fromQemu = << >> /\ qemu = "dead" /\ reader' = "closed"
  /\ UNCHANGED <<callVars, loopVars, qemuVars, wire, fromQemu>>

---------------------------------------------------------------------------
(* QEMU, as the client sees it: it greets, answers the commands in the     *)
(* order it reads them, tells when a device is gone (before or after it    *)
(* answers device_del), and sends events of its own.                       *)

Says(lines) ==
  /\ qemu # "dead" /\ conn = "open"
  /\ fromQemu' = fromQemu \o lines
  /\ UNCHANGED <<callVars, loopVars, reader>>

Greets ==
  /\ qemu = "starting" /\ qemu' = "up"
  /\ Says(<<<<"greeting">>>>)
  /\ UNCHANGED <<unplugging, deleted, events, wire>>

AnswersError ==
  /\ toQemu # << >> /\ toQemu' = Tail(toQemu)
  /\ Says(<<<<"error", Head(toQemu)>>>>)
  /\ UNCHANGED <<qemuVars, written>>

AnswersReturn ==
  /\ toQemu # << >> /\ toQemu' = Tail(toQemu)
  /\ LET c == Head(toQemu) IN
     \/ /\ Says(<<<<"return", c>>>>)
        /\ unplugging' = IF c \in Deletes THEN unplugging \cup {c} ELSE unplugging
        /\ UNCHANGED deleted
     \/ /\ c \in Deletes /\ Says(<<<<"event", c>>, <<"return", c>>>>)
        /\ deleted' = deleted \cup {c} /\ UNCHANGED unplugging
  /\ UNCHANGED <<qemu, events, written>>

DeviceDeleted(c) ==
  /\ c \in unplugging
  /\ unplugging' = unplugging \ {c} /\ deleted' = deleted \cup {c}
  /\ Says(<<<<"event", c>>>>)
  /\ UNCHANGED <<qemu, events, wire>>

OtherEvent ==
  /\ events < MaxEvents /\ events' = events + 1
  /\ Says(<<<<"event", NoCall>>>>)
  /\ UNCHANGED <<qemu, unplugging, deleted, wire>>

QemuDies ==
  /\ qemu # "dead" /\ qemu' = "dead"
  /\ UNCHANGED <<callVars, loopVars, reader, unplugging, deleted, events, wire, fromQemu>>

---------------------------------------------------------------------------

CallStep(c) == ExecuteDisconnected(c) \/ ExecuteCancelled(c)

LoopStep ==
  \/ \E c \in Calls : Accept(c)
  \/ Input \/ Connect \/ CancelCurrent \/ Deliver \/ Leave \/ Drain \/ FailOutstanding \/ Exit

QemuStep == Greets \/ AnswersError \/ AnswersReturn \/ \E c \in Calls : DeviceDeleted(c)

Next ==
  \/ \E c \in Calls : Execute(c) \/ CallStep(c) \/ Cancel(c)
  \/ StartCancelled \/ StartDisconnected \/ Shutdown
  \/ LoopStep \/ Scan \/ QemuStep \/ OtherEvent \/ QemuDies

Spec == Init /\ [][Next]_vars

(* Goroutines that can run do run.  QEMU is taken to answer, and the guest *)
(* to give up a device it is asked for, unless QEMU dies.                  *)
FairSpec ==
  /\ Spec
  /\ \A c \in Calls : WF_vars(CallStep(c)) /\ WF_vars(Accept(c))
  /\ WF_vars(Input \/ Connect \/ Deliver \/ Leave \/ Drain \/ FailOutstanding \/ Exit)
  /\ WF_vars(CancelCurrent)
  /\ WF_vars(StartDisconnected) /\ WF_vars(Scan) /\ WF_vars(QemuStep)

---------------------------------------------------------------------------
(* Properties *)

(* ExecuteDeviceDel "blocks until a DEVICE_DELETED event is received for   *)
(* devID": a call that returns success returns after its own device is     *)
(* gone, whatever was cancelled or answered before it.                     *)
DeletedBeforeReturn ==
  \A c \in Deletes : result[c][1] = "return" => c \in deleted

(* The queue of mainLoop implements the serial executor of QMPSerial: one  *)
(* command at a time, in the order accepted, and every caller its own      *)
(* answer.  A command that mainLoop is about to answer still counts as     *)
(* issued; the answer to another call would be no outcome of the executor. *)
Answering == loop = "send" /\ ~pending.unwritten
FrontIsIssued == ~Answering /\ Front(queue) \in written
Waiting == IF FrontIsIssued THEN Tail(queue) ELSE queue
Issued == IF Answering THEN pending.to ELSE IF FrontIsIssued THEN Head(queue) ELSE NoCall
Closed == qemu = "dead" \/ conn = "closed"
Outcome == [c \in Calls |-> IF result[c][2] \in {c, NoCall} THEN result[c][1] ELSE "foreign"]
Serial == INSTANCE QMPSerial WITH
  waiting <- Waiting, issued <- Issued, closed <- Closed, over <- cancelled, outcome <- Outcome
SerialSpec == Serial!Spec

(* With no context cancelled, every Execute method returns and Shutdown    *)
(* ends mainLoop, whatever order commands, answers and events take and     *)
(* even if QEMU dies.                                                      *)
Undisturbed == cancelled = {} /\ start # "stopping"
CallsReturn ==
  /\ \A c \in Calls : (call[c] = "sending") ~> (call[c] = "returned" \/ ~Undisturbed)
  /\ (cmdCh = "closed") ~> (disconnected \/ ~Undisturbed)
=============================================================================
