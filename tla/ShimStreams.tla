---------------------------- MODULE ShimStreams ----------------------------
(***************************************************************************)
(* The streams of the containers of a pod (stream.go, CloseIO) and the     *)
(* command that runs a unikernel in place of a virtual machine (urunc.go,  *)
(* urunc_agent.go).  ioCopy has a goroutine per stream and one that waits  *)
(* for them; a unikernel adds the goroutine Command.Wait, which closes the *)
(* same channels.  A panic ends the shim: then no step is left.            *)
(***************************************************************************)
EXTENDS Integers

CONSTANTS
    Pod,         \* the container that stands for the sandbox
    Apps,        \* the other containers
    Givens,      \* the sets of streams a client may ask for
    PodGivens,   \* the same for the container of the sandbox
    Overlap,     \* the client may create a container before it started the last one
    MaxIn,       \* bound: chunks the client sends to a process
    MaxOut,      \* bound: chunks a process writes to a stream
    PipeCap,     \* chunks that fit into a pipe
    None

Containers == {Pod} \cup Apps
Outputs == {"stdout", "stderr"}
Streams == Outputs \cup {"stdin"}

ASSUME StreamsAssumption ==
    /\ Pod \notin Apps
    /\ Givens \subseteq SUBSET Streams /\ PodGivens \subseteq SUBSET Streams
    /\ Overlap \in BOOLEAN
    /\ {MaxIn, MaxOut, PipeCap} \subseteq Nat \ {0}
    /\ None \notin Containers

VARIABLES
    unikernel,    \* HypervisorConfig.Unikernel
    given,        \* the streams named in the Create request of each container
    execData,     \* uruncAgent.ExecData, one for the whole sandbox
    state,        \* the state of the container in virtcontainers
    status,       \* container.status in the shim
    exitCh,       \* container.exitCh: empty, "ended" (written by wait), "failed" (255)
    proc,         \* the process of the container
    image,        \* the container whose binary the process runs
    ended,        \* the outputs a process has closed
    written,      \* chunks written to each output by the process ...
    copied,       \* ... and copied to the client
    input,        \* stdin: chunks sent, whether the client closed it, forwarded, read
    pipes,        \* the shim's ends of the pipes to the process
    fifo,         \* ttyIO.Stdin
    copyPc,       \* the goroutine of each stream
    ioPc,         \* the goroutine of ioCopy
    exitIO,       \* exitIOch is closed
    stdinCloser,  \* stdinCloser is closed
    cmdPc,        \* the goroutine of Command.Wait
    waitPc,       \* the goroutine of wait
    mu,           \* service.mu: held by CloseIO of a container, or free (None)
    closedIn,     \* CloseIO closed the stdin of the process, or failed to
    panic         \* why and for which container the shim ended

taskVars == <<state, status, exitCh>>
procVars == <<proc, image, ended, written>>
copyVars == <<copied, fifo, copyPc, ioPc>>
closeVars == <<exitIO, stdinCloser, panic>>
fixed == <<unikernel, given>>
vars == <<fixed, execData, taskVars, procVars, input, pipes, copyVars, closeVars, cmdPc,
          waitPc, mu, closedIn>>

NoPanic == [why |-> "none", c |-> None]
Up == panic = NoPanic
Free == Up /\ mu = None

\* The containers begin with the channels of newContainer.
Init ==
    /\ unikernel \in BOOLEAN
    /\ given \in [Containers -> Givens \cup PodGivens]
    /\ given[Pod] \in PodGivens /\ \A a \in Apps : given[a] \in Givens
    /\ execData = [container |-> None, binary |-> None]
    /\ state = [c \in Containers |-> "none"]
    /\ status = [c \in Containers |-> "none"]
    /\ exitCh = [c \in Containers |-> "empty"]
    /\ proc = [c \in Containers |-> "none"]
    /\ image = [c \in Containers |-> None]
    /\ ended = [c \in Containers |-> {}]
    /\ written = [c \in Containers |-> [s \in Outputs |-> 0]]
    /\ copied = written
    /\ input = [c \in Containers |-> [sent |-> 0, closed |-> FALSE, forwarded |-> 0, read |-> 0]]
    /\ pipes = [c \in Containers |-> "open"]
    /\ fifo = [c \in Containers |-> "nil"]
    /\ copyPc = [c \in Containers |-> [s \in Streams |-> "none"]]
    /\ ioPc = [c \in Containers |-> "none"]
    /\ exitIO = [c \in Containers |-> FALSE]
    /\ stdinCloser = exitIO
    /\ cmdPc = [c \in Containers |-> "none"]
    /\ waitPc = cmdPc
    /\ mu = None
    /\ closedIn = [c \in Containers |-> "open"]
    /\ panic = NoPanic

-----------------------------------------------------------------------------
(* Create and Start, each under service.mu.                                 *)

\* The sandbox exists before its containers, and runs.
CanCreate(c) ==
    /\ Free /\ status[c] = "none"
    /\ c # Pod => state[Pod] = "running"
    /\ Overlap \/ \A d \in Containers : status[d] = "created" => exitCh[d] # "empty"

\* Mutant: the binary found last is kept when there is one.
CreateContainerKeepsBinary(c) ==
    /\ CanCreate(c)
    /\ state' = [state EXCEPT ![c] = "ready"]
    /\ status' = [status EXCEPT ![c] = "created"]
    /\ execData' = IF ~unikernel THEN execData
                   ELSE [container |-> c,
                         binary |-> IF execData.binary = None THEN c ELSE execData.binary]
    /\ UNCHANGED <<fixed, exitCh, procVars, input, pipes, copyVars, closeVars, cmdPc, waitPc,
                   mu, closedIn>>

\* uruncAgent.createContainer finds the binary in the image of the container.
CreateContainer(c) ==
    /\ CanCreate(c)
    /\ state' = [state EXCEPT ![c] = "ready"]
    /\ status' = [status EXCEPT ![c] = "created"]
    /\ execData' = IF unikernel THEN [container |-> c, binary |-> c] ELSE execData
    /\ UNCHANGED <<fixed, exitCh, procVars, input, pipes, copyVars, closeVars, cmdPc, waitPc,
                   mu, closedIn>>

\* The image is not supported, or copying a block device fails after its binary
\* was recorded; what createContainer has set stays.  A sandbox whose own container
\* fails is thrown away.
CreateContainerFails(c) ==
    /\ CanCreate(c) /\ unikernel /\ c \in Apps
    /\ \E b \in {execData.binary, c} : execData' = [container |-> c, binary |-> b]
    /\ UNCHANGED <<fixed, taskVars, procVars, input, pipes, copyVars, closeVars, cmdPc, waitPc,
                   mu, closedIn>>

CanStart(c) ==
    /\ Free /\ status[c] = "created" /\ exitCh[c] = "empty"
    /\ c # Pod => state[Pod] = "running"

\* ioCopy starts a goroutine for each stream the client asked for.
IOCopyStarts(c) ==
    /\ fifo' = [fifo EXCEPT ![c] = IF "stdin" \in given[c] THEN "open" ELSE "nil"]
    /\ copyPc' = [copyPc EXCEPT ![c] =
                     [s \in Streams |-> IF s \in given[c] THEN "read" ELSE "done"]]
    /\ ioPc' = [ioPc EXCEPT ![c] = "wait"]
    /\ UNCHANGED copied

Begin(c) ==
    /\ state' = [state EXCEPT ![c] = "running"]
    /\ status' = [status EXCEPT ![c] = "running"]

Runs(c, b) ==
    /\ proc' = [proc EXCEPT ![c] = "running"]
    /\ image' = [image EXCEPT ![c] = b]
    /\ UNCHANGED <<ended, written>>

\* Mutant: stdinCloser is closed also when there are streams.
StartInVMClosesAlways(c) ==
    /\ CanStart(c) /\ ~unikernel
    /\ Begin(c) /\ Runs(c, c)
    /\ IF given[c] # {} THEN IOCopyStarts(c) ELSE UNCHANGED copyVars
    /\ exitIO' = [exitIO EXCEPT ![c] = given[c] = {}]
    /\ stdinCloser' = [stdinCloser EXCEPT ![c] = TRUE]
    /\ waitPc' = [waitPc EXCEPT ![c] = "io"]
    /\ UNCHANGED <<fixed, execData, exitCh, input, pipes, panic, cmdPc, mu, closedIn>>

\* A container in the virtual machine: without streams the channels are closed.
StartInVM(c) ==
    /\ CanStart(c) /\ ~unikernel
    /\ Begin(c) /\ Runs(c, c)
    /\ IF given[c] # {} THEN IOCopyStarts(c) ELSE UNCHANGED copyVars
    /\ exitIO' = [exitIO EXCEPT ![c] = given[c] = {}]
    /\ stdinCloser' = [stdinCloser EXCEPT ![c] = given[c] = {}]
    /\ waitPc' = [waitPc EXCEPT ![c] = "io"]
    /\ UNCHANGED <<fixed, execData, exitCh, input, pipes, panic, cmdPc, mu, closedIn>>

\* A unikernel: SetIO, Command.Start, and the goroutines Command.Wait and wait.
StartCommand(c) ==
    /\ CanStart(c) /\ unikernel
    /\ Begin(c) /\ Runs(c, execData.binary)
    /\ IF given[c] # {} THEN IOCopyStarts(c) ELSE UNCHANGED copyVars
    /\ cmdPc' = [cmdPc EXCEPT ![c] = "wait"]
    /\ waitPc' = [waitPc EXCEPT ![c] = "io"]
    /\ UNCHANGED <<fixed, execData, exitCh, input, pipes, closeVars, mu, closedIn>>

\* The program cannot be run: os/exec closes the pipes and no goroutine waits.
StartCommandFails(c) ==
    /\ CanStart(c) /\ unikernel
    /\ Begin(c)
    /\ IF given[c] # {} THEN IOCopyStarts(c) ELSE UNCHANGED copyVars
    /\ pipes' = [pipes EXCEPT ![c] = "closed"]
    /\ exitCh' = [exitCh EXCEPT ![c] = "failed"]
    /\ UNCHANGED <<fixed, execData, procVars, input, closeVars, cmdPc, waitPc, mu, closedIn>>

\* ioPipes, IOStream or newTtyIO fails: a container in the virtual machine runs already.
StartIOFails(c) ==
    /\ CanStart(c)
    /\ IF unikernel
       THEN state' = [state EXCEPT ![c] = "running"] /\ UNCHANGED <<status, procVars>>
       ELSE Begin(c) /\ Runs(c, c)
    /\ exitCh' = [exitCh EXCEPT ![c] = "failed"]
    /\ UNCHANGED <<fixed, execData, input, pipes, copyVars, closeVars, cmdPc, waitPc, mu,
                   closedIn>>

-----------------------------------------------------------------------------
(* The process and the client.                                              *)

Alive(c) == proc[c] = "running"

\* What it writes to a stream nobody asked for is not seen.
ProcWrites(c, s) ==
    /\ Up /\ Alive(c) /\ s \in given[c] \ ended[c]
    /\ written[c][s] < MaxOut /\ written[c][s] - copied[c][s] < PipeCap
    /\ written' = [written EXCEPT ![c][s] = @ + 1]
    /\ UNCHANGED <<fixed, execData, taskVars, proc, image, ended, input, pipes, copyVars,
                   closeVars, cmdPc, waitPc, mu, closedIn>>

ProcCloses(c, s) ==
    /\ Up /\ Alive(c) /\ s \in given[c] \ ended[c]
    /\ ended' = [ended EXCEPT ![c] = @ \cup {s}]
    /\ UNCHANGED <<fixed, execData, taskVars, proc, image, written, input, pipes, copyVars,
                   closeVars, cmdPc, waitPc, mu, closedIn>>

ProcReads(c) ==
    /\ Up /\ Alive(c) /\ input[c].read < input[c].forwarded
    /\ input' = [input EXCEPT ![c].read = @ + 1]
    /\ UNCHANGED <<fixed, execData, taskVars, procVars, pipes, copyVars, closeVars, cmdPc,
                   waitPc, mu, closedIn>>

\* By itself or by a signal.
ProcEnds(c) ==
    /\ Up /\ Alive(c)
    /\ proc' = [proc EXCEPT ![c] = "ended"]
    /\ ended' = [ended EXCEPT ![c] = Outputs]
    /\ UNCHANGED <<fixed, execData, taskVars, image, written, input, pipes, copyVars, closeVars,
                   cmdPc, waitPc, mu, closedIn>>

ClientSends(c) ==
    /\ Up /\ "stdin" \in given[c] /\ fifo[c] = "open"
    /\ ~input[c].closed /\ input[c].sent < MaxIn
    /\ input' = [input EXCEPT ![c].sent = @ + 1]
    /\ UNCHANGED <<fixed, execData, taskVars, procVars, pipes, copyVars, closeVars, cmdPc,
                   waitPc, mu, closedIn>>

ClientCloses(c) ==
    /\ Up /\ "stdin" \in given[c] /\ ~input[c].closed
    /\ input' = [input EXCEPT ![c].closed = TRUE]
    /\ UNCHANGED <<fixed, execData, taskVars, procVars, pipes, copyVars, closeVars, cmdPc,
                   waitPc, mu, closedIn>>

\* Once the client has closed its end it asks the shim to close the stdin of a
\* process that was given one and was started; it asks once.
CloseIO(c) ==
    /\ Free /\ input[c].closed /\ closedIn[c] = "open" /\ waitPc[c] # "none"
    /\ mu' = c
    /\ UNCHANGED <<fixed, execData, taskVars, procVars, input, pipes, copyVars, closeVars,
                   cmdPc, waitPc, closedIn>>

\* Mutant: CloseIO does not wait for the end of the copy.
CloseIOReturnsAtOnce(c) ==
    /\ Up /\ mu = c
    /\ mu' = None /\ closedIn' = [closedIn EXCEPT ![c] = "closed"]
    /\ UNCHANGED <<fixed, execData, taskVars, procVars, input, pipes, copyVars, closeVars,
                   cmdPc, waitPc>>

\* Closing the stream may fail.
CloseIOReturns(c) ==
    /\ Up /\ mu = c /\ stdinCloser[c]
    /\ mu' = None
    /\ \E r \in {"closed", "failed"} : closedIn' = [closedIn EXCEPT ![c] = r]
    /\ UNCHANGED <<fixed, execData, taskVars, procVars, input, pipes, copyVars, closeVars,
                   cmdPc, waitPc>>

-----------------------------------------------------------------------------
(* Closing a channel: a channel that is closed already ends the shim.       *)

CloseExitIO(c) ==
    /\ exitIO' = [exitIO EXCEPT ![c] = TRUE]
    /\ panic' = IF exitIO[c] THEN [why |-> "exitIO", c |-> c] ELSE panic
    /\ UNCHANGED stdinCloser

CloseStdinCloser(c) ==
    /\ stdinCloser' = [stdinCloser EXCEPT ![c] = TRUE]
    /\ panic' = IF stdinCloser[c] THEN [why |-> "stdinCloser", c |-> c] ELSE panic
    /\ UNCHANGED exitIO

-----------------------------------------------------------------------------
(* The goroutines of ioCopy.                                                *)

Moves(c, s, to) == copyPc' = [copyPc EXCEPT ![c][s] = to]

\* A read of stdin gives a chunk, or ends because the client has closed its end
\* or the goroutine of stdout has closed the stream.
ReadStdin(c) ==
    /\ Up /\ copyPc[c]["stdin"] = "read"
    /\ \/ fifo[c] = "open" /\ input[c].sent > input[c].forwarded /\ Moves(c, "stdin", "write")
       \/ /\ fifo[c] # "open" \/ (input[c].closed /\ input[c].sent = input[c].forwarded)
          /\ Moves(c, "stdin", "end")
    /\ UNCHANGED <<fixed, execData, taskVars, procVars, input, pipes, copied, fifo, ioPc,
                   closeVars, cmdPc, waitPc, mu, closedIn>>

\* The process does not read its stdin and the pipe is full.
PipeIsFull(c) == Alive(c) /\ input[c].forwarded - input[c].read >= PipeCap

WriteStdin(c) ==
    /\ Up /\ copyPc[c]["stdin"] = "write"
    /\ \/ /\ Alive(c) /\ ~PipeIsFull(c)
          /\ input' = [input EXCEPT ![c].forwarded = @ + 1]
          /\ Moves(c, "stdin", "read")
       \/ ~Alive(c) /\ Moves(c, "stdin", "end") /\ UNCHANGED input
    /\ UNCHANGED <<fixed, execData, taskVars, procVars, pipes, copied, fifo, ioPc, closeVars,
                   cmdPc, waitPc, mu, closedIn>>

\* Mutant: the copy of stdin ends without notice to CloseIO.
EndStdinSilent(c) ==
    /\ Up /\ copyPc[c]["stdin"] = "end"
    /\ Moves(c, "stdin", "done")
    /\ UNCHANGED <<fixed, execData, taskVars, procVars, input, pipes, copied, fifo, ioPc,
                   closeVars, cmdPc, waitPc, mu, closedIn>>

EndStdin(c) ==
    /\ Up /\ copyPc[c]["stdin"] = "end"
    /\ CloseStdinCloser(c) /\ Moves(c, "stdin", "done")
    /\ UNCHANGED <<fixed, execData, taskVars, procVars, input, pipes, copied, fifo, ioPc, cmdPc,
                   waitPc, mu, closedIn>>

CopyOutput(c, s) ==
    /\ Up /\ copyPc[c][s] = "read" /\ pipes[c] = "open" /\ copied[c][s] < written[c][s]
    /\ copied' = [copied EXCEPT ![c][s] = @ + 1]
    /\ UNCHANGED <<fixed, execData, taskVars, procVars, input, pipes, fifo, copyPc, ioPc,
                   closeVars, cmdPc, waitPc, mu, closedIn>>

\* Mutant: the end of the process ends the copy.
EndOutputEarly(c, s) ==
    /\ Up /\ copyPc[c][s] = "read"
    /\ pipes[c] = "closed" \/ s \in ended[c]
    /\ Moves(c, s, IF s = "stdout" THEN "check" ELSE "done")
    /\ UNCHANGED <<fixed, execData, taskVars, procVars, input, pipes, copied, fifo, ioPc,
                   closeVars, cmdPc, waitPc, mu, closedIn>>

\* The end of an output; wg.Done comes before the look at tty.Stdin.  The streams of a
\* process in the virtual machine share one flag: after CloseIO a read of an output,
\* other than one that waits for the agent already, finds the stream closed.
EndOutput(c, s) ==
    /\ Up /\ copyPc[c][s] = "read"
    /\ \/ pipes[c] = "closed"
       \/ s \in ended[c] /\ copied[c][s] = written[c][s]
       \/ ~unikernel /\ closedIn[c] = "closed"
    /\ Moves(c, s, IF s = "stdout" THEN "check" ELSE "done")
    /\ UNCHANGED <<fixed, execData, taskVars, procVars, input, pipes, copied, fifo, ioPc,
                   closeVars, cmdPc, waitPc, mu, closedIn>>

CheckStdin(c) ==
    /\ Up /\ copyPc[c]["stdout"] = "check"
    /\ Moves(c, "stdout", IF fifo[c] = "nil" THEN "done" ELSE "close")
    /\ UNCHANGED <<fixed, execData, taskVars, procVars, input, pipes, copied, fifo, ioPc,
                   closeVars, cmdPc, waitPc, mu, closedIn>>

\* Mutant: stdout ends without closing stdin.
CloseStdinNever(c) ==
    /\ Up /\ copyPc[c]["stdout"] = "close"
    /\ Moves(c, "stdout", "done")
    /\ UNCHANGED <<fixed, execData, taskVars, procVars, input, pipes, copied, fifo, ioPc,
                   closeVars, cmdPc, waitPc, mu, closedIn>>

\* "close stdin to make the other routine stop" (stream.go:128).  ttyIO.close may
\* have set the field to nil meanwhile: the second read of the field, without
\* synchronisation, gives the old value or nil.
CloseStdin(c) ==
    /\ Up /\ copyPc[c]["stdout"] = "close"
    /\ Moves(c, "stdout", "done")
    /\ IF fifo[c] = "nil"
       THEN panic' \in {panic, [why |-> "tty", c |-> c]} /\ UNCHANGED fifo
       ELSE fifo' = [fifo EXCEPT ![c] = "closed"] /\ UNCHANGED panic
    /\ UNCHANGED <<fixed, execData, taskVars, procVars, input, pipes, copied, ioPc, exitIO,
                   stdinCloser, cmdPc, waitPc, mu, closedIn>>

\* wg.Wait, tty.close and close(exitch).
IOCopyEnds(c) ==
    /\ Up /\ ioPc[c] = "wait"
    /\ copyPc[c]["stdin"] = "done" /\ copyPc[c]["stderr"] = "done"
    /\ copyPc[c]["stdout"] \in {"check", "close", "done"}
    /\ fifo' = [fifo EXCEPT ![c] = "nil"]
    /\ ioPc' = [ioPc EXCEPT ![c] = "done"]
    /\ CloseExitIO(c)
    /\ UNCHANGED <<fixed, execData, taskVars, procVars, input, pipes, copied, copyPc, cmdPc,
                   waitPc, mu, closedIn>>

-----------------------------------------------------------------------------
(* Command.Wait.                                                            *)

CmdMoves(c, from, to) == Up /\ cmdPc[c] = from /\ cmdPc' = [cmdPc EXCEPT ![c] = to]

\* os/exec closes the pipes when the program has ended, read or not.
CommandWait(c) ==
    /\ CmdMoves(c, "wait", "exitIO") /\ ~Alive(c)
    /\ pipes' = [pipes EXCEPT ![c] = "closed"]
    /\ UNCHANGED <<fixed, execData, taskVars, procVars, input, copyVars, closeVars, waitPc, mu,
                   closedIn>>

CommandExitIO(c) ==
    /\ CmdMoves(c, "exitIO", "stdin") /\ CloseExitIO(c)
    /\ UNCHANGED <<fixed, execData, taskVars, procVars, input, pipes, copyVars, waitPc, mu,
                   closedIn>>

CommandStdin(c) ==
    /\ CmdMoves(c, "stdin", "status") /\ CloseStdinCloser(c)
    /\ UNCHANGED <<fixed, execData, taskVars, procVars, input, pipes, copyVars, waitPc, mu,
                   closedIn>>

\* The status is written without service.mu.
CommandStatus(c) ==
    /\ CmdMoves(c, "status", "done")
    /\ status' = [status EXCEPT ![c] = "stopped"]
    /\ UNCHANGED <<fixed, execData, state, exitCh, procVars, input, pipes, copyVars, closeVars,
                   waitPc, mu, closedIn>>

CommandStep(c) == CommandWait(c) \/ CommandExitIO(c) \/ CommandStdin(c) \/ CommandStatus(c)

-----------------------------------------------------------------------------
(* The goroutine of wait.                                                   *)

\* Mutant: the end of the streams is taken for the end of the process.
WaitProcessNot(c) ==
    /\ Up /\ waitPc[c] = "io" /\ exitIO[c]
    /\ waitPc' = [waitPc EXCEPT ![c] = "lock"]
    /\ UNCHANGED <<fixed, execData, taskVars, procVars, input, pipes, copyVars, closeVars, cmdPc,
                   mu, closedIn>>

\* The guest agent answers when the process has ended, uruncAgent at once.
WaitProcess(c) ==
    /\ Up /\ waitPc[c] = "io" /\ exitIO[c]
    /\ unikernel \/ ~Alive(c)
    /\ waitPc' = [waitPc EXCEPT ![c] = "lock"]
    /\ UNCHANGED <<fixed, execData, taskVars, procVars, input, pipes, copyVars, closeVars, cmdPc,
                   mu, closedIn>>

\* The container of the sandbox stops all containers, and the virtual machine if
\* there is one; unikernels are not touched by it.
WaitStop(c) ==
    /\ Free /\ waitPc[c] = "lock"
    /\ LET stopped == IF c = Pod THEN {d \in Containers : state[d] # "none"} ELSE {c}
           off == c = Pod /\ ~unikernel
       IN /\ state' = [d \in Containers |-> IF d \in stopped THEN "stopped" ELSE state[d]]
          /\ proc' = [d \in Containers |-> IF off /\ Alive(d) THEN "ended" ELSE proc[d]]
          /\ ended' = [d \in Containers |-> IF off /\ Alive(d) THEN Outputs ELSE ended[d]]
          /\ pipes' = [d \in Containers |-> IF off THEN "closed" ELSE pipes[d]]
    /\ status' = [status EXCEPT ![c] = "stopped"]
    /\ exitCh' = [exitCh EXCEPT ![c] = "ended"]
    /\ waitPc' = [waitPc EXCEPT ![c] = "done"]
    /\ UNCHANGED <<fixed, execData, image, written, input, copyVars, closeVars, cmdPc, mu,
                   closedIn>>

-----------------------------------------------------------------------------
(* The specification.                                                       *)

StartStep(c) ==
    \/ CreateContainer(c) \/ CreateContainerFails(c)
    \/ StartInVM(c) \/ StartCommand(c) \/ StartCommandFails(c) \/ StartIOFails(c)

ProcStep(c) ==
    \/ \E s \in Outputs : ProcWrites(c, s) \/ ProcCloses(c, s)
    \/ ProcReads(c) \/ ProcEnds(c)

ClientStep(c) == ClientSends(c) \/ ClientCloses(c) \/ CloseIO(c)

StdinStep(c) == ReadStdin(c) \/ WriteStdin(c) \/ EndStdin(c)
OutputStep(c, s) == CopyOutput(c, s) \/ EndOutput(c, s)
StdoutCloses(c) == CheckStdin(c) \/ CloseStdin(c)
WaitStep(c) == WaitProcess(c) \/ WaitStop(c)

GoStep(c) ==
    \/ StdinStep(c) \/ StdoutCloses(c) \/ IOCopyEnds(c) \/ CommandStep(c) \/ WaitStep(c)
    \/ CloseIOReturns(c)
    \/ \E s \in Outputs : OutputStep(c, s)

Next == \E c \in Containers : StartStep(c) \/ ProcStep(c) \/ ClientStep(c) \/ GoStep(c)

Spec == Init /\ [][Next]_vars

\* The goroutines run; nothing is assumed of the process and of the client.
Fairness ==
    \A c \in Containers :
        /\ WF_vars(StdinStep(c)) /\ WF_vars(StdoutCloses(c)) /\ WF_vars(IOCopyEnds(c))
        /\ WF_vars(CommandStep(c)) /\ WF_vars(WaitStep(c)) /\ WF_vars(CloseIOReturns(c))
        /\ \A s \in Outputs : WF_vars(OutputStep(c, s))

FairSpec == Spec /\ Fairness

-----------------------------------------------------------------------------
(* Properties.                                                              *)

\* A unikernel container runs the binary of its own image, although ExecData is
\* one for the sandbox, if the client starts each container before it creates the
\* next: "intented to pass the required data back to containerd-shim"
\* (urunc_agent.go:31).
RunsItsOwnImage == \A c \in Containers : image[c] \in {None, c}

\* wait reports the end of a process that has ended: the end of the streams alone
\* is not enough.  A unikernel is the exception, as uruncAgent.waitProcess does
\* not wait: it is reported when ioCopy has seen all its outputs closed.
EndIsReal ==
    \A c \in Containers : exitCh[c] = "ended" =>
        \/ ~Alive(c)
        \/ unikernel /\ given[c] # {} /\ given[c] \cap Outputs \subseteq ended[c]

\* When exitIOch is closed all the process wrote has been copied to the client,
\* unless the streams were closed first: by the end of the virtual machine, by
\* Command.Wait, which does not wait for ioCopy, or by CloseIO, whose stdin shares
\* its flag with the outputs ("stdout read closed should fail", iostream_test.go:50).
OutputIsComplete ==
    \A c \in Containers : exitIO[c] /\ pipes[c] = "open" /\ (unikernel \/ closedIn[c] # "closed") =>
        \A s \in given[c] \cap Outputs : copied[c][s] = written[c][s]

\* When CloseIO has closed the stdin of a process all the client sent has been
\* forwarded ("otherwise some contents would not be forwarded to the process",
\* service.go:967), unless the process has ended or closed its stdout.
InputIsForwarded ==
    \A c \in Containers : closedIn[c] = "closed" =>
        \/ input[c].forwarded = input[c].sent
        \/ ~Alive(c) \/ "stdout" \in ended[c]

\* exitIOch and stdinCloser of a container are closed once, by startContainer, by
\* ioCopy or by Command.Wait; only a unikernel with streams has two goroutines
\* that close them.
ClosedOnce ==
    panic.why \in {"exitIO", "stdinCloser"} => unikernel /\ given[panic.c] # {}

\* CloseIO of c holds the lock until a process that does not read takes its input.
Blocked(c) == mu = c /\ copyPc[c]["stdin"] = "write" /\ PipeIsFull(c)

\* Only the goroutine of stdout closes stdin: without it ioCopy waits for the client.
ClientHolds(c) == "stdin" \in given[c] /\ "stdout" \notin given[c] /\ ~input[c].closed

\* When a started process has ended the wait goroutine finishes: the container is
\* stopped and its exit code is there, with any set of streams.  It does not when
\* CloseIO is blocked with the lock held, or when nothing but the client ends the
\* copy of stdin.
EndIsHandled ==
    \A c \in Containers :
        \/ []<>(proc[c] = "ended" /\ Up => waitPc[c] \in {"none", "done"})
        \/ <>[](\E d \in Containers : Blocked(d))
        \/ <>[]ClientHolds(c)

\* CloseIO returns and gives the lock back unless the process runs and does not
\* read what was forwarded to it.
CloseIOIsAnswered ==
    \A c \in Containers : []<>(mu # c \/ ~Up) \/ <>[]Blocked(c)
=============================================================================
