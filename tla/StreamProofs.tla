---------------------------- MODULE StreamProofs ----------------------------
(***************************************************************************)
(* The streams of any number of containers, with any sets of streams and   *)
(* pipes of any size.                                                      *)
(***************************************************************************)
EXTENDS ShimStreams, TLAPS

FixedType ==
    /\ unikernel \in BOOLEAN
    /\ given \in [Containers -> SUBSET Streams]

StateType ==
    /\ execData \in [container : Containers \cup {None}, binary : Containers \cup {None}]
    /\ state \in [Containers -> {"none", "ready", "running", "stopped"}]
    /\ status \in [Containers -> {"none", "created", "running", "stopped"}]
    /\ exitCh \in [Containers -> {"empty", "ended", "failed"}]

ProcType ==
    /\ proc \in [Containers -> {"none", "running", "ended"}]
    /\ image \in [Containers -> Containers \cup {None}]
    /\ ended \in [Containers -> SUBSET Outputs]
    /\ written \in [Containers -> [Outputs -> Nat]]

InputType ==
    input \in [Containers -> [sent : Nat, closed : BOOLEAN, forwarded : Nat, read : Nat]]

CopyPoints == {"none", "read", "write", "end", "check", "close", "done"}

CopyType ==
    /\ copied \in [Containers -> [Outputs -> Nat]]
    /\ fifo \in [Containers -> {"nil", "open", "closed"}]
    /\ copyPc \in [Containers -> [Streams -> CopyPoints]]
    /\ ioPc \in [Containers -> {"none", "wait", "done"}]

CloseType ==
    /\ pipes \in [Containers -> {"open", "closed"}]
    /\ exitIO \in [Containers -> BOOLEAN]
    /\ stdinCloser \in [Containers -> BOOLEAN]
    /\ cmdPc \in [Containers -> {"none", "wait", "exitIO", "stdin", "status", "done"}]
    /\ waitPc \in [Containers -> {"none", "io", "lock", "done"}]
    /\ mu \in Containers \cup {None}
    /\ closedIn \in [Containers -> {"open", "closed", "failed"}]

StreamType == FixedType /\ StateType /\ ProcType /\ InputType /\ CopyType /\ CloseType

\* Nobody has started c.
Fresh(c) == status[c] = "none" \/ (status[c] = "created" /\ exitCh[c] = "empty")

FreshInv(c) ==
    Fresh(c) =>
        /\ exitCh[c] = "empty" /\ proc[c] = "none" /\ ended[c] = {}
        /\ copyPc[c] = [s \in Streams |-> "none"]
        /\ ioPc[c] = "none" /\ cmdPc[c] = "none" /\ waitPc[c] = "none"
        /\ ~exitIO[c] /\ ~stdinCloser[c] /\ closedIn[c] = "open"
        /\ unikernel => pipes[c] = "open"

\* The pipes are closed behind a process that has ended, and the end of the
\* virtual machine is the end of all of them.
PipeInv(c) ==
    pipes[c] = "closed" =>
        /\ ~Alive(c)
        /\ ~unikernel => state[Pod] # "running" /\ ~Fresh(Pod)

\* Command.Wait closes the channels of a unikernel without streams alone.
CommandInv(c) ==
    /\ cmdPc[c] # "none" => unikernel
    /\ cmdPc[c] \in {"exitIO", "stdin", "status", "done"} => pipes[c] = "closed"
    /\ unikernel /\ given[c] = {} =>
        /\ cmdPc[c] \in {"none", "wait", "exitIO"} => ~exitIO[c]
        /\ cmdPc[c] \in {"none", "wait", "exitIO", "stdin"} => ~stdinCloser[c]

Past == {"check", "close", "done"}

\* A copy of an output ends at the end of what was written, or with the streams.
OutputInv(c) ==
    /\ given[c] = {} => copyPc[c] = [s \in Streams |-> "none"] /\ ioPc[c] = "none"
    /\ ~unikernel /\ ioPc[c] = "wait" => ~exitIO[c]
    /\ \A s \in given[c] \cap Outputs : copyPc[c][s] \in Past =>
        \/ pipes[c] = "closed"
        \/ s \in ended[c] /\ copied[c][s] = written[c][s]
        \/ ~unikernel /\ closedIn[c] = "closed"
    /\ exitIO[c] =>
        \/ pipes[c] = "closed"
        \/ given[c] = {} /\ ~unikernel
        \/ given[c] # {} /\ \A s \in Outputs : copyPc[c][s] \in Past

\* The process takes no more input.
Deaf(c) == ~Alive(c) \/ "stdout" \in ended[c]
\* The client has sent all it will send, and it was forwarded.
AllForwarded(c) == input[c].closed /\ input[c].forwarded = input[c].sent

\* The copy of stdin ends at the end of what was sent, or with the process.
InputInv(c) ==
    /\ input[c].closed => "stdin" \in given[c]
    /\ closedIn[c] = "closed" => stdinCloser[c] /\ "stdin" \in given[c]
    /\ mu = c => closedIn[c] = "open" /\ input[c].closed /\ waitPc[c] # "none"
    /\ ~unikernel /\ copyPc[c]["stdin"] \in {"read", "write", "end"} => ~stdinCloser[c]
    /\ copyPc[c]["stdin"] = "write" => input[c].forwarded < input[c].sent
    /\ copyPc[c]["stdin"] \in {"read", "write"} =>
        (copyPc[c]["stdout"] \in {"check", "close"} \/ fifo[c] # "open" => Deaf(c))
    /\ "stdin" \in given[c] /\ (copyPc[c]["stdin"] \in {"end", "done"} \/ stdinCloser[c]) =>
        AllForwarded(c) \/ Deaf(c)

EndSeen(c) ==
    ~Alive(c) \/ (unikernel /\ given[c] # {} /\ given[c] \cap Outputs \subseteq ended[c])

WaitInv(c) == waitPc[c] \in {"lock", "done"} \/ exitCh[c] = "ended" => EndSeen(c)

ContInv(c) ==
    FreshInv(c) /\ PipeInv(c) /\ CommandInv(c) /\ OutputInv(c) /\ InputInv(c) /\ WaitInv(c)

StreamInv == ClosedOnce /\ \A c \in Containers : ContInv(c)

\* The binary found last is the one of the container that is started next.
ImageInv ==
    /\ RunsItsOwnImage
    /\ unikernel => \A c \in Containers :
            status[c] = "created" /\ exitCh[c] = "empty" => execData.binary = c

USE DEF vars, fixed, taskVars, procVars, copyVars, closeVars

LEMMA TypeInit == Init => StreamType
<1> SUFFICES ASSUME Init PROVE StreamType
  BY Zenon
<1>1. FixedType BY Zenon, StreamsAssumption DEF Init, FixedType
<1>2. StateType BY Zenon DEF Init, StateType
<1>3. ProcType BY Zenon DEF Init, ProcType
<1>4. InputType BY Zenon DEF Init, InputType
<1>5. CopyType BY Zenon DEF Init, CopyType, CopyPoints
<1>6. CloseType BY Zenon DEF Init, CloseType
<1> QED BY Zenon, <1>1, <1>2, <1>3, <1>4, <1>5, <1>6 DEF StreamType

LEMMA StreamNames == Outputs \subseteq Streams /\ "stdin" \in Streams /\ "stdout" \in Outputs
BY Zenon DEF Streams, Outputs

LEMMA TypeIOCopyStarts ==
    ASSUME StreamType, NEW c \in Containers,
           IF given[c] # {} THEN IOCopyStarts(c) ELSE UNCHANGED copyVars
    PROVE  CopyType'
<1>1. CASE IOCopyStarts(c) BY Zenon, <1>1 DEF StreamType, CopyType, IOCopyStarts, CopyPoints
<1>2. CASE UNCHANGED copyVars BY Zenon, <1>2 DEF StreamType, CopyType
<1> QED BY Zenon, <1>1, <1>2

LEMMA TypeBegin ==
    ASSUME StreamType, NEW c \in Containers
    PROVE  /\ Begin(c) /\ UNCHANGED <<execData, exitCh>> => StateType'
           /\ \A b \in Containers \cup {None} : Runs(c, b) => ProcType'
<1>1. Begin(c) /\ UNCHANGED <<execData, exitCh>> => StateType' BY Zenon DEF StreamType, StateType, Begin
<1>2. ASSUME NEW b \in Containers \cup {None}, Runs(c, b) PROVE ProcType'
  BY Zenon, <1>2 DEF StreamType, ProcType, Runs
<1> QED BY Zenon, <1>1, <1>2

LEMMA TypeStart ==
    ASSUME StreamType, NEW c \in Containers, StartStep(c) PROVE StreamType'
<1>1. CASE CreateContainer(c) \/ CreateContainerFails(c)
  <2>1. StateType' BY <1>1 DEF StreamType, StateType, CreateContainer, CreateContainerFails
  <2> QED BY <1>1, <2>1
      DEF StreamType, FixedType, ProcType, InputType, CopyType, CloseType, CreateContainer, CreateContainerFails
<1>2. CASE StartInVM(c)
  <2>1. StateType' /\ ProcType' /\ CopyType' BY Zenon, <1>2, TypeBegin, TypeIOCopyStarts DEF StartInVM
  <2>2. CloseType' BY Zenon, <1>2 DEF StreamType, CloseType, StartInVM
  <2> QED BY Zenon, <1>2, <2>1, <2>2 DEF StreamType, FixedType, InputType, StartInVM
<1>3. CASE StartCommand(c)
  <2>0. execData.binary \in Containers \cup {None} BY Zenon DEF StreamType, StateType
  <2>1. StateType' /\ ProcType' /\ CopyType' BY Zenon, <1>3, <2>0, TypeBegin, TypeIOCopyStarts DEF StartCommand
  <2>2. CloseType' BY Zenon, <1>3 DEF StreamType, CloseType, StartCommand
  <2> QED BY Zenon, <1>3, <2>1, <2>2 DEF StreamType, FixedType, InputType, StartCommand
<1>4. CASE StartCommandFails(c)
  <2>1. StateType' BY Zenon, <1>4 DEF StreamType, StateType, StartCommandFails, Begin
  <2>2. CopyType' BY Zenon, <1>4, TypeIOCopyStarts DEF StartCommandFails
  <2>3. CloseType' BY Zenon, <1>4 DEF StreamType, CloseType, StartCommandFails
  <2> QED BY Zenon, <1>4, <2>1, <2>2, <2>3 DEF StreamType, FixedType, ProcType, InputType, StartCommandFails
<1>5. CASE StartIOFails(c)
  <2>1. StateType' BY Zenon, <1>5 DEF StreamType, StateType, StartIOFails, Begin
  <2>2. ProcType' BY Zenon, <1>5, TypeBegin DEF StreamType, ProcType, StartIOFails
  <2> QED BY Zenon, <1>5, <2>1, <2>2 DEF StreamType, FixedType, InputType, CopyType, CloseType, StartIOFails
<1> QED BY Zenon, <1>1, <1>2, <1>3, <1>4, <1>5 DEF StartStep

LEMMA TypeProc ==
    ASSUME StreamType, NEW c \in Containers, ProcStep(c) \/ ClientStep(c) PROVE StreamType'
<1>1. ASSUME NEW s \in Outputs, ProcWrites(c, s) \/ ProcCloses(c, s) PROVE StreamType'
  <2>1. ASSUME ProcWrites(c, s) PROVE ProcType'
    <3>1. written[c] \in [Outputs -> Nat] /\ written[c][s] + 1 \in Nat BY DEF StreamType, ProcType
    <3>2. [written[c] EXCEPT ![s] = written[c][s] + 1] \in [Outputs -> Nat] BY Zenon, <3>1
    <3>3. written' = [written EXCEPT ![c] = [written[c] EXCEPT ![s] = written[c][s] + 1]]
      BY Zenon, <2>1 DEF ProcWrites, StreamType, ProcType
    <3> QED BY <2>1, <3>2, <3>3 DEF StreamType, ProcType, ProcWrites
  <2>2. ASSUME ProcCloses(c, s) PROVE ProcType' BY Zenon, <2>2 DEF StreamType, ProcType, ProcCloses
  <2>3. ProcType' BY Zenon, <1>1, <2>1, <2>2
  <2> QED BY <1>1, <2>3
      DEF StreamType, FixedType, StateType, InputType, CopyType, CloseType, ProcWrites, ProcCloses
<1>2. CASE ProcReads(c) \/ ClientSends(c) \/ ClientCloses(c)
  <2>1. ASSUME ProcReads(c) PROVE InputType' BY <2>1 DEF StreamType, InputType, ProcReads
  <2>2. ASSUME ClientSends(c) PROVE InputType' BY <2>2 DEF StreamType, InputType, ClientSends
  <2>3. ASSUME ClientCloses(c) PROVE InputType' BY Zenon, <2>3 DEF StreamType, InputType, ClientCloses
  <2>4. InputType' BY Zenon, <1>2, <2>1, <2>2, <2>3
  <2> QED BY <1>2, <2>4
      DEF StreamType, FixedType, StateType, ProcType, CopyType, CloseType, ProcReads, ClientSends, ClientCloses
<1>3. CASE ProcEnds(c)
  <2>1. ProcType' BY Zenon, <1>3 DEF StreamType, ProcType, ProcEnds
  <2> QED BY Zenon, <1>3, <2>1 DEF StreamType, FixedType, StateType, InputType, CopyType, CloseType, ProcEnds
<1>4. CASE CloseIO(c)
  <2>1. CloseType' BY Zenon, <1>4 DEF StreamType, CloseType, CloseIO
  <2> QED BY Zenon, <1>4, <2>1 DEF StreamType, FixedType, StateType, ProcType, InputType, CopyType, CloseIO
<1> QED BY Zenon, <1>1, <1>2, <1>3, <1>4 DEF ProcStep, ClientStep

LEMMA TypeMoves ==
    ASSUME StreamType, NEW c \in Containers, NEW s \in Streams, NEW to \in CopyPoints, Moves(c, s, to)
    PROVE  copyPc' \in [Containers -> [Streams -> CopyPoints]]
BY Zenon DEF StreamType, CopyType, Moves

LEMMA TypeGo ==
    ASSUME StreamType, NEW c \in Containers, GoStep(c) PROVE StreamType'
<1> USE StreamNames
<1>0. \A p \in CopyPoints : Moves(c, "stdin", p) \/ Moves(c, "stdout", p) \/ Moves(c, "stderr", p) => 
         copyPc' \in [Containers -> [Streams -> CopyPoints]]
  BY Zenon, TypeMoves DEF Streams, Outputs
<1>1. CASE ReadStdin(c) \/ CheckStdin(c) \/ \E s \in Outputs : EndOutput(c, s)
  <2>1. CopyType' BY Zenon, <1>0, <1>1 DEF StreamType, CopyType, CopyPoints, ReadStdin, CheckStdin, EndOutput, Outputs
  <2> QED BY <1>1, <2>1
      DEF StreamType, FixedType, StateType, ProcType, InputType, CloseType, ReadStdin, CheckStdin, EndOutput
<1>2. CASE WriteStdin(c)
  <2>1. CopyType' BY Zenon, <1>0, <1>2 DEF StreamType, CopyType, CopyPoints, WriteStdin
  <2>2. InputType' BY <1>2 DEF StreamType, InputType, WriteStdin
  <2> QED BY Zenon, <1>2, <2>1, <2>2 DEF StreamType, FixedType, StateType, ProcType, CloseType, WriteStdin
<1>3. CASE EndStdin(c) \/ CloseStdin(c)
  <2>1. CopyType' BY Zenon, <1>0, <1>3 DEF StreamType, CopyType, CopyPoints, EndStdin, CloseStdin
  <2>2. CloseType' BY ZenonT(40), <1>3 DEF StreamType, CloseType, EndStdin, CloseStdin, CloseStdinCloser
  <2> QED BY <1>3, <2>1, <2>2 DEF StreamType, FixedType, StateType, ProcType, InputType, EndStdin, CloseStdin
<1>4. CASE \E s \in Outputs : CopyOutput(c, s)
  <2>1. CopyType' BY <1>4 DEF StreamType, CopyType, CopyOutput
  <2> QED BY <1>4, <2>1 DEF StreamType, FixedType, StateType, ProcType, InputType, CloseType, CopyOutput
<1>5. CASE IOCopyEnds(c)
  <2>1. CopyType' /\ CloseType' BY Zenon, <1>5 DEF StreamType, CopyType, CloseType, IOCopyEnds, CloseExitIO
  <2> QED BY Zenon, <1>5, <2>1 DEF StreamType, FixedType, StateType, ProcType, InputType, IOCopyEnds
<1>6. CASE CommandStep(c)
  <2>1. CloseType'
    BY <1>6 DEF StreamType, CloseType, CommandStep, CmdMoves, CommandWait, CommandExitIO, CommandStdin,
                CommandStatus, CloseExitIO, CloseStdinCloser
  <2>2. StateType'
    BY Zenon, <1>6 DEF StreamType, StateType, CommandStep, CommandWait, CommandExitIO, CommandStdin, CommandStatus
  <2> QED BY Zenon, <1>6, <2>1, <2>2
      DEF StreamType, FixedType, ProcType, InputType, CopyType, CommandStep, CommandWait, CommandExitIO,
          CommandStdin, CommandStatus
<1>7. CASE WaitProcess(c) \/ CloseIOReturns(c)
  <2>1. CloseType' BY <1>7 DEF StreamType, CloseType, WaitProcess, CloseIOReturns
  <2> QED BY <1>7, <2>1
      DEF StreamType, FixedType, StateType, ProcType, InputType, CopyType, WaitProcess, CloseIOReturns
<1>8. CASE WaitStop(c)
  <2>1. StateType' BY Zenon, <1>8 DEF StreamType, StateType, WaitStop
  <2>2. ProcType' BY Zenon, <1>8 DEF StreamType, ProcType, WaitStop
  <2>3. CloseType' BY Zenon, <1>8 DEF StreamType, CloseType, WaitStop
  <2> QED BY Zenon, <1>8, <2>1, <2>2, <2>3 DEF StreamType, FixedType, InputType, CopyType, WaitStop
<1> QED
  BY Zenon, <1>1, <1>2, <1>3, <1>4, <1>5, <1>6, <1>7, <1>8
  DEF GoStep, StdinStep, StdoutCloses, OutputStep, WaitStep

LEMMA TypeNext == StreamType /\ [Next]_vars => StreamType'
<1>1. StreamType /\ UNCHANGED vars => StreamType'
  BY DEF StreamType, FixedType, StateType, ProcType, InputType, CopyType, CloseType
<1> QED BY Zenon, <1>1, TypeStart, TypeProc, TypeGo DEF Next

-----------------------------------------------------------------------------
(* The invariant of each container.                                         *)

\* A step that leaves container d alone, and does not start the sandbox again.
Same(d) ==
    /\ UNCHANGED fixed
    /\ status'[d] = status[d] /\ exitCh'[d] = exitCh[d]
    /\ proc'[d] = proc[d] /\ ended'[d] = ended[d] /\ written'[d] = written[d]
    /\ input'[d] = input[d] /\ pipes'[d] = pipes[d]
    /\ copied'[d] = copied[d] /\ fifo'[d] = fifo[d] /\ copyPc'[d] = copyPc[d] /\ ioPc'[d] = ioPc[d]
    /\ exitIO'[d] = exitIO[d] /\ stdinCloser'[d] = stdinCloser[d]
    /\ cmdPc'[d] = cmdPc[d] /\ waitPc'[d] = waitPc[d] /\ closedIn'[d] = closedIn[d]
    /\ mu' = d => mu = d

\* The virtual machine is gone, and no container can be started in it.
PodGone == state[Pod] # "running" /\ ~Fresh(Pod)

LEMMA ContFrame ==
    ASSUME NEW d \in Containers, ContInv(d), Same(d), PodGone => PodGone'
    PROVE  ContInv(d)'
<1>1. Fresh(d)' <=> Fresh(d) BY Zenon DEF Same, Fresh
<1>2. Alive(d)' <=> Alive(d) BY Zenon DEF Same, Alive
<1>3. FreshInv(d)' BY Zenon, <1>1 DEF ContInv, FreshInv, Same
<1>4. PipeInv(d)' BY Zenon, <1>2 DEF ContInv, PipeInv, Same, PodGone
<1>5. CommandInv(d)' BY Zenon DEF ContInv, CommandInv, Same
<1>6. OutputInv(d)' BY Zenon DEF ContInv, OutputInv, Same
<1>7. InputInv(d)' BY Zenon, <1>2 DEF ContInv, InputInv, Same, Deaf, AllForwarded
<1>8. WaitInv(d)' BY Zenon, <1>2 DEF ContInv, WaitInv, EndSeen, Same
<1> QED BY Zenon, <1>3, <1>4, <1>5, <1>6, <1>7, <1>8 DEF ContInv

LEMMA PodStays ==
    ASSUME StreamType, NEW c \in Containers, StartStep(c) \/ ProcStep(c) \/ ClientStep(c) \/ GoStep(c),
           PodGone
    PROVE  PodGone'
<1>0. Pod \in Containers BY Zenon DEF Containers
<1>1. CASE StartStep(c)
  BY Zenon, <1>0, <1>1 DEF PodGone, Fresh, StreamType, StateType, StartStep, CreateContainer, CreateContainerFails, StartInVM,
     StartCommand, StartCommandFails, StartIOFails, CanCreate, CanStart, Begin
<1>2. CASE ProcStep(c) \/ ClientStep(c)
  BY Zenon, <1>2 DEF PodGone, Fresh, ProcStep, ClientStep, ProcWrites, ProcCloses, ProcReads, ProcEnds, ClientSends,
     ClientCloses, CloseIO
<1>3. CASE WaitStop(c) BY Zenon, <1>0, <1>3 DEF PodGone, Fresh, StreamType, StateType, WaitStop
<1>4. CASE CommandStep(c)
  BY Zenon, <1>0, <1>4 DEF PodGone, Fresh, StreamType, StateType, CommandStep, CommandWait, CommandExitIO,
     CommandStdin, CommandStatus
<1>5. CASE StdinStep(c) \/ StdoutCloses(c) \/ IOCopyEnds(c) \/ WaitProcess(c) \/ CloseIOReturns(c)
           \/ \E s \in Outputs : OutputStep(c, s)
  BY Zenon, <1>5 DEF PodGone, Fresh, StdinStep, StdoutCloses, OutputStep, ReadStdin, WriteStdin, EndStdin, CheckStdin,
     CloseStdin, IOCopyEnds, WaitProcess, CloseIOReturns, CopyOutput, EndOutput
<1> QED BY Zenon, <1>1, <1>2, <1>3, <1>4, <1>5 DEF GoStep, WaitStep

LEMMA InvInit == Init => StreamInv
<1> SUFFICES ASSUME Init PROVE ClosedOnce /\ \A c \in Containers : ContInv(c)
  BY Zenon DEF StreamInv
<1> SUFFICES ASSUME NEW c \in Containers PROVE ClosedOnce /\ ContInv(c)
  BY Zenon DEF Containers
<1>1. ClosedOnce BY Zenon DEF Init, ClosedOnce, NoPanic
<1>2. FreshInv(c) /\ PipeInv(c) /\ CommandInv(c) /\ WaitInv(c)
  BY Zenon DEF Init, FreshInv, PipeInv, CommandInv, WaitInv
<1>3. OutputInv(c) BY Zenon, StreamNames DEF Init, OutputInv, Past
<1>4. InputInv(c)
  <2>1. mu # c BY Zenon, StreamsAssumption DEF Init
  <2> QED BY Zenon, <2>1, StreamNames DEF Init, InputInv
<1> QED BY Zenon, <1>1, <1>2, <1>3, <1>4 DEF ContInv

LEMMA InvCreate ==
    ASSUME StreamType, NEW c \in Containers, ContInv(c), CreateContainer(c) \/ CreateContainerFails(c)
    PROVE  ContInv(c)' /\ \A d \in Containers \ {c} : Same(d)
<1>1. \A d \in Containers \ {c} : Same(d)
  <2>1. CASE CreateContainer(c)
    <3>1. \A d \in Containers \ {c} : status'[d] = status[d] BY Zenon, <2>1 DEF CreateContainer, StreamType, StateType
    <3> QED BY Zenon, <2>1, <3>1 DEF Same, CreateContainer
  <2>2. CASE CreateContainerFails(c) BY Zenon, <2>2 DEF Same, CreateContainerFails
  <2> QED BY Zenon, <2>1, <2>2
<1>2. CASE CreateContainerFails(c)
  <2>1. Same(c) /\ UNCHANGED <<state, status, exitCh>> BY Zenon, <1>2 DEF Same, CreateContainerFails
  <2>2. PodGone => PodGone' BY Zenon, <2>1 DEF PodGone, Fresh
  <2> QED BY Zenon, <1>1, <2>1, <2>2, ContFrame
<1>3. CASE CreateContainer(c)
  <2>0. status[c] = "none" /\ status'[c] = "created" BY Zenon, <1>3 DEF CreateContainer, CanCreate, StreamType, StateType
  <2>1. FreshInv(c)' BY Zenon, <1>3, <2>0 DEF ContInv, FreshInv, Fresh, CreateContainer
  <2>2. PipeInv(c)'
    <3>1. PodGone => PodGone' BY Zenon, <1>3, PodStays DEF StartStep
    <3> QED BY Zenon, <1>3, <3>1 DEF ContInv, PipeInv, PodGone, CreateContainer, Alive
  <2>3. CommandInv(c)' /\ OutputInv(c)' BY Zenon, <1>3 DEF ContInv, CommandInv, OutputInv, CreateContainer
  <2>4. InputInv(c)' BY Zenon, <1>3 DEF ContInv, InputInv, CreateContainer, Deaf, AllForwarded, Alive
  <2>5. WaitInv(c)' BY Zenon, <1>3 DEF ContInv, WaitInv, EndSeen, CreateContainer, Alive
  <2> QED BY Zenon, <1>1, <2>1, <2>2, <2>3, <2>4, <2>5 DEF ContInv
<1> QED BY ZenonT(40), <1>2, <1>3

\* The copies of a started container are at their beginning, or there are none.
LEMMA CopyStarts ==
    ASSUME StreamType, NEW c \in Containers, FreshInv(c), Fresh(c),
           IF given[c] # {} THEN IOCopyStarts(c) ELSE UNCHANGED copyVars, UNCHANGED fixed
    PROVE  /\ given[c] = {} => copyPc'[c] = [s \in Streams |-> "none"] /\ ioPc'[c] = "none"
           /\ given[c] # {} => ioPc'[c] = "wait"
           /\ \A s \in given[c] : copyPc'[c][s] = "read"
           /\ given[c] # {} => \A s \in Streams \ given[c] : copyPc'[c][s] = "done"
           /\ "stdin" \in given[c] => fifo'[c] = "open"
           /\ \A d \in Containers \ {c} : /\ copyPc'[d] = copyPc[d] /\ ioPc'[d] = ioPc[d]
                                          /\ fifo'[d] = fifo[d] /\ copied'[d] = copied[d]
<1>0. given[c] \subseteq Streams BY Zenon DEF StreamType, FixedType
<1>1. CASE given[c] = {} BY Zenon, <1>1 DEF FreshInv
<1>2. CASE given[c] # {}
  <2>1. IOCopyStarts(c) BY Zenon, <1>2
  <2>2. copyPc'[c] = [s \in Streams |-> IF s \in given[c] THEN "read" ELSE "done"]
    BY Zenon, <2>1 DEF IOCopyStarts, StreamType, CopyType
  <2> QED BY Zenon, <1>0, <1>2, <2>1, <2>2 DEF IOCopyStarts, StreamType, CopyType
<1> QED BY Zenon, <1>1, <1>2

\* What a started container has: nothing is closed, read or written yet.
LEMMA InvStarted ==
    ASSUME StreamType, NEW c \in Containers, ContInv(c), Fresh(c), ~Fresh(c)', UNCHANGED <<fixed, input, mu, closedIn>>,
           IF given[c] # {} THEN IOCopyStarts(c) ELSE UNCHANGED copyVars,
           ~(waitPc'[c] \in {"lock", "done"}), exitCh'[c] # "ended",
           pipes'[c] = "closed" => ~Alive(c)' /\ (~unikernel => PodGone'),
           cmdPc'[c] \in {"none", "wait"}, cmdPc'[c] # "none" => unikernel,
           exitIO'[c] <=> (given[c] = {} /\ ~unikernel), stdinCloser'[c] <=> (given[c] = {} /\ ~unikernel)
    PROVE  ContInv(c)'
<1> USE StreamNames
<1>0. FreshInv(c) /\ closedIn[c] = "open" /\ waitPc[c] = "none" BY Zenon DEF ContInv, FreshInv
<1>1. FreshInv(c)' BY Zenon DEF FreshInv
<1>2. PipeInv(c)' BY Zenon DEF PipeInv, PodGone
<1>3. CommandInv(c)' BY Zenon DEF CommandInv
<1>4. WaitInv(c)' BY Zenon DEF WaitInv
<1>5. OutputInv(c)'
  <2>1. \A s \in given[c] : copyPc'[c][s] = "read" BY Zenon, <1>0, CopyStarts
  <2>2. given[c] = {} => copyPc'[c] = [s \in Streams |-> "none"] /\ ioPc'[c] = "none" BY Zenon, <1>0, CopyStarts
  <2>3. exitIO'[c] => given[c] = {} /\ ~unikernel BY Zenon
  <2>4. ~unikernel /\ ioPc'[c] = "wait" => ~exitIO'[c] BY Zenon, <2>2
  <2> QED BY Zenon, <2>1, <2>2, <2>3, <2>4 DEF OutputInv, Past
<1>6. InputInv(c)'
  <2>0. mu # c BY Zenon, <1>0 DEF ContInv, InputInv
  <2>1. "stdin" \in given[c] => copyPc'[c]["stdin"] = "read" /\ fifo'[c] = "open" BY Zenon, <1>0, CopyStarts
  <2>2. "stdin" \notin given[c] => copyPc'[c]["stdin"] \in {"none", "done"} BY <1>0, CopyStarts
  <2>3. "stdin" \in given[c] => copyPc'[c]["stdout"] \in {"read", "done"} BY <1>0, CopyStarts
  <2> QED BY Zenon, <1>0, <2>0, <2>1, <2>2, <2>3 DEF ContInv, InputInv, Deaf
<1> QED BY Zenon, <1>1, <1>2, <1>3, <1>4, <1>5, <1>6 DEF ContInv

LEMMA InvStart ==
    ASSUME StreamType, NEW c \in Containers, ContInv(c),
           StartInVM(c) \/ StartCommand(c) \/ StartCommandFails(c)
    PROVE  ContInv(c)' /\ \A d \in Containers \ {c} : Same(d)
<1>0. Fresh(c) /\ FreshInv(c) BY Zenon DEF StartInVM, StartCommand, StartCommandFails, CanStart, Fresh, ContInv
<1>a. IF given[c] # {} THEN IOCopyStarts(c) ELSE UNCHANGED copyVars
  BY Zenon DEF StartInVM, StartCommand, StartCommandFails
<1>b. UNCHANGED fixed BY Zenon DEF StartInVM, StartCommand, StartCommandFails
<1>c. \A d \in Containers \ {c} : /\ copyPc'[d] = copyPc[d] /\ ioPc'[d] = ioPc[d]
                                  /\ fifo'[d] = fifo[d] /\ copied'[d] = copied[d]
  BY Zenon, <1>0, <1>a, <1>b, CopyStarts
<1>d. status'[c] = "running"
  BY ZenonT(40) DEF StartInVM, StartCommand, StartCommandFails, Begin, StreamType, StateType
<1>e. ~Fresh(c)' BY Zenon, <1>d DEF Fresh
<1>1. CASE StartInVM(c)
  <2>1. \A d \in Containers \ {c} : Same(d)
    <3>1. \A d \in Containers \ {c} : status'[d] = status[d] BY Zenon, <1>1 DEF StartInVM, StreamType, StateType, Begin
    <3>2. \A d \in Containers \ {c} : proc'[d] = proc[d] BY Zenon, <1>1 DEF StartInVM, StreamType, ProcType, Runs
    <3>3. \A d \in Containers \ {c} : waitPc'[d] = waitPc[d] BY Zenon, <1>1 DEF StartInVM, StreamType, CloseType
    <3>4. \A d \in Containers \ {c} : exitIO'[d] = exitIO[d] BY Zenon, <1>1 DEF StartInVM, StreamType, CloseType
    <3>5. \A d \in Containers \ {c} : stdinCloser'[d] = stdinCloser[d] BY Zenon, <1>1 DEF StartInVM, StreamType, CloseType
    <3> QED BY Zenon, <1>1, <1>b, <1>c, <3>1, <3>2, <3>3, <3>4, <3>5 DEF Same, StartInVM, Runs
  <2>2. waitPc'[c] = "io" /\ exitCh'[c] = "empty" /\ cmdPc'[c] = "none" /\ pipes'[c] = pipes[c]
    BY Zenon, <1>0, <1>1 DEF StartInVM, FreshInv, StreamType, CloseType
  <2>3. exitIO'[c] <=> given[c] = {} BY Zenon, <1>1 DEF StartInVM, StreamType, CloseType
  <2>4. stdinCloser'[c] <=> given[c] = {} BY Zenon, <1>1 DEF StartInVM, StreamType, CloseType
  <2>5. pipes[c] # "closed"
    BY Zenon, <1>0, <1>1 DEF StartInVM, CanStart, ContInv, PipeInv, Fresh
  <2> QED BY Zenon, <1>0, <1>1, <1>a, <1>e, <2>1, <2>2, <2>3, <2>4, <2>5, InvStarted DEF StartInVM
<1>2. CASE StartCommand(c)
  <2>1. \A d \in Containers \ {c} : Same(d)
    <3>1. \A d \in Containers \ {c} : status'[d] = status[d] BY Zenon, <1>2 DEF StartCommand, StreamType, StateType, Begin
    <3>2. \A d \in Containers \ {c} : proc'[d] = proc[d] BY Zenon, <1>2 DEF StartCommand, StreamType, ProcType, Runs
    <3>3. \A d \in Containers \ {c} : waitPc'[d] = waitPc[d] BY Zenon, <1>2 DEF StartCommand, StreamType, CloseType
    <3>4. \A d \in Containers \ {c} : cmdPc'[d] = cmdPc[d] BY Zenon, <1>2 DEF StartCommand, StreamType, CloseType
    <3> QED BY Zenon, <1>2, <1>b, <1>c, <3>1, <3>2, <3>3, <3>4 DEF Same, StartCommand, Runs
  <2>2. waitPc'[c] = "io" /\ exitCh'[c] = "empty" /\ cmdPc'[c] = "wait" /\ pipes'[c] = "open"
    BY Zenon, <1>0, <1>2 DEF StartCommand, FreshInv, StreamType, CloseType
  <2>3. ~exitIO'[c] /\ ~stdinCloser'[c] BY Zenon, <1>0, <1>2 DEF StartCommand, FreshInv
  <2> QED BY Zenon, <1>0, <1>2, <1>a, <1>e, <2>1, <2>2, <2>3, InvStarted DEF StartCommand
<1>3. CASE StartCommandFails(c)
  <2>1. \A d \in Containers \ {c} : Same(d)
    <3>1. \A d \in Containers \ {c} : status'[d] = status[d] BY Zenon, <1>3 DEF StartCommandFails, StreamType, StateType, Begin
    <3>2. \A d \in Containers \ {c} : pipes'[d] = pipes[d] BY Zenon, <1>3 DEF StartCommandFails, StreamType, CloseType
    <3>3. \A d \in Containers \ {c} : exitCh'[d] = exitCh[d] BY Zenon, <1>3 DEF StartCommandFails, StreamType, StateType
    <3> QED BY Zenon, <1>3, <1>b, <1>c, <3>1, <3>2, <3>3 DEF Same, StartCommandFails
  <2>2. waitPc'[c] = "none" /\ exitCh'[c] = "failed" /\ cmdPc'[c] = "none" /\ ~Alive(c)'
    BY Zenon, <1>0, <1>3 DEF StartCommandFails, FreshInv, StreamType, StateType, Alive
  <2>3. ~exitIO'[c] /\ ~stdinCloser'[c] BY Zenon, <1>0, <1>3 DEF StartCommandFails, FreshInv
  <2> QED BY Zenon, <1>0, <1>3, <1>a, <1>e, <2>1, <2>2, <2>3, InvStarted DEF StartCommandFails
<1> QED BY Zenon, <1>1, <1>2, <1>3

LEMMA InvStartIOFails ==
    ASSUME StreamType, NEW c \in Containers, ContInv(c), StartIOFails(c)
    PROVE  ContInv(c)' /\ \A d \in Containers \ {c} : Same(d)
<1> USE StreamNames
<1>0. Fresh(c) /\ FreshInv(c) BY Zenon DEF StartIOFails, CanStart, Fresh, ContInv
<1>1. \A d \in Containers \ {c} : Same(d)
  BY DEF Same, StartIOFails, StreamType, StateType, ProcType, Begin, Runs
<1>2. exitCh'[c] = "failed" BY Zenon DEF StartIOFails, StreamType, StateType
<1>3. ~Fresh(c)'
  <2>1. status'[c] \in {"created", "running"}
    BY Zenon DEF StartIOFails, CanStart, Begin, StreamType, StateType
  <2> QED BY Zenon, <1>2, <2>1 DEF Fresh
<1>4. FreshInv(c)' BY Zenon, <1>3 DEF FreshInv
<1>5. PipeInv(c)'
  <2>1. pipes[c] # "closed" BY Zenon, <1>0 DEF StartIOFails, CanStart, ContInv, PipeInv, Fresh, FreshInv
  <2> QED BY Zenon, <2>1 DEF StartIOFails, PipeInv
<1>6. CommandInv(c)' BY Zenon DEF ContInv, CommandInv, StartIOFails
<1>7. OutputInv(c)' BY Zenon, <1>0 DEF ContInv, OutputInv, StartIOFails, FreshInv, Past
<1>8. InputInv(c)' BY Zenon, <1>0 DEF ContInv, InputInv, StartIOFails, FreshInv
<1>9. WaitInv(c)' BY Zenon, <1>0, <1>2 DEF WaitInv, StartIOFails, FreshInv
<1> QED BY Zenon, <1>1, <1>4, <1>5, <1>6, <1>7, <1>8, <1>9 DEF ContInv

LEMMA InvProcOutputs ==
    ASSUME StreamType, NEW c \in Containers, ContInv(c), NEW s \in Outputs, ProcWrites(c, s) \/ ProcCloses(c, s)
    PROVE  ContInv(c)' /\ \A d \in Containers \ {c} : Same(d)
<1>0. Alive(c) /\ ~Fresh(c) BY Zenon DEF ProcWrites, ProcCloses, ContInv, FreshInv, Alive
<1>1. CASE ProcWrites(c, s)
  <2>1. written' = [written EXCEPT ![c] = [written[c] EXCEPT ![s] = written[c][s] + 1]]
    BY Zenon, <1>1 DEF ProcWrites, StreamType, ProcType
  <2>2. \A d \in Containers \ {c} : written'[d] = written[d] BY Zenon, <2>1 DEF StreamType, ProcType
  <2>3. \A t \in Outputs \ {s} : written'[c][t] = written[c][t] BY Zenon, <2>1 DEF StreamType, ProcType
  <2>4. \A d \in Containers \ {c} : Same(d) BY Zenon, <1>1, <2>2 DEF Same, ProcWrites
  <2>5. FreshInv(c)' /\ PipeInv(c)' /\ CommandInv(c)' /\ WaitInv(c)'
    BY Zenon, <1>0, <1>1 DEF ContInv, FreshInv, PipeInv, CommandInv, WaitInv, EndSeen, Fresh, Alive, ProcWrites
  <2>6. OutputInv(c)' BY Zenon, <1>1, <2>3 DEF ContInv, OutputInv, ProcWrites
  <2>7. InputInv(c)' BY Zenon, <1>1 DEF ContInv, InputInv, ProcWrites, Deaf, AllForwarded, Alive
  <2> QED BY Zenon, <2>4, <2>5, <2>6, <2>7 DEF ContInv
<1>2. CASE ProcCloses(c, s)
  <2>1. \A d \in Containers \ {c} : Same(d) BY Zenon, <1>2 DEF Same, ProcCloses, StreamType, ProcType
  <2>2. ended'[c] = ended[c] \cup {s} BY Zenon, <1>2 DEF ProcCloses, StreamType, ProcType
  <2>5. FreshInv(c)' /\ PipeInv(c)' /\ CommandInv(c)' /\ WaitInv(c)'
    BY Zenon, <1>0, <1>2, <2>2 DEF ContInv, FreshInv, PipeInv, CommandInv, WaitInv, EndSeen, Fresh, Alive, ProcCloses
  <2>6. OutputInv(c)' BY Zenon, <1>2, <2>2 DEF ContInv, OutputInv, ProcCloses
  <2>7. InputInv(c)' BY Zenon, <1>2, <2>2 DEF ContInv, InputInv, ProcCloses, Deaf, AllForwarded, Alive
  <2> QED BY Zenon, <2>1, <2>5, <2>6, <2>7 DEF ContInv
<1> QED BY Zenon, <1>1, <1>2

LEMMA InvProcEnds ==
    ASSUME StreamType, NEW c \in Containers, ContInv(c), ProcEnds(c)
    PROVE  ContInv(c)' /\ \A d \in Containers \ {c} : Same(d)
<1>0. Alive(c) /\ ~Fresh(c) BY Zenon DEF ProcEnds, ContInv, FreshInv, Alive
<1>1. \A d \in Containers \ {c} : Same(d) BY Zenon DEF Same, ProcEnds, StreamType, ProcType
<1>2. ended'[c] = Outputs /\ ~Alive(c)' BY Zenon DEF ProcEnds, StreamType, ProcType, Alive
<1>3. FreshInv(c)' /\ PipeInv(c)' /\ CommandInv(c)' /\ WaitInv(c)'
  BY Zenon, <1>0, <1>2 DEF ContInv, FreshInv, PipeInv, CommandInv, WaitInv, EndSeen, Fresh, ProcEnds
<1>4. OutputInv(c)' BY Zenon, <1>2 DEF ContInv, OutputInv, ProcEnds
<1>5. InputInv(c)' BY Zenon, <1>2 DEF ContInv, InputInv, ProcEnds, Deaf
<1> QED BY Zenon, <1>1, <1>3, <1>4, <1>5 DEF ContInv

LEMMA InvInput ==
    ASSUME StreamType, NEW c \in Containers, ContInv(c), ProcReads(c) \/ ClientSends(c) \/ ClientCloses(c)
    PROVE  ContInv(c)' /\ \A d \in Containers \ {c} : Same(d)
<1>1. \A d \in Containers \ {c} : Same(d)
  BY Zenon DEF Same, ProcReads, ClientSends, ClientCloses, StreamType, InputType
<1>2. FreshInv(c)' /\ PipeInv(c)' /\ CommandInv(c)' /\ WaitInv(c)'
  BY DEF ContInv, FreshInv, PipeInv, CommandInv, WaitInv, EndSeen, Fresh, Alive, ProcReads, ClientSends,
         ClientCloses
<1>3. OutputInv(c)' BY DEF ContInv, OutputInv, ProcReads, ClientSends, ClientCloses
<1>4. InputInv(c)'
  <2>1. input[c] \in [sent : Nat, closed : BOOLEAN, forwarded : Nat, read : Nat] BY Zenon DEF StreamType, InputType
  <2>2. ASSUME ProcReads(c) PROVE InputInv(c)'
    <3>1. input'[c] = [input[c] EXCEPT !.read = input[c].read + 1] BY Zenon, <2>2 DEF ProcReads, StreamType, InputType
    <3>2. /\ input'[c].sent = input[c].sent /\ input'[c].closed = input[c].closed
          /\ input'[c].forwarded = input[c].forwarded
      BY Zenon, <2>1, <3>1
    <3> QED BY Zenon, <2>2, <3>2 DEF ContInv, InputInv, Deaf, AllForwarded, Alive, ProcReads
  <2>3. ASSUME ClientSends(c) \/ ClientCloses(c) PROVE InputInv(c)'
    <3>1. ~input[c].closed /\ "stdin" \in given[c] BY Zenon, <2>3 DEF ClientSends, ClientCloses
    <3>2. mu # c BY Zenon, <3>1 DEF ContInv, InputInv
    <3>3. ~AllForwarded(c) BY Zenon, <3>1 DEF AllForwarded
    <3>4. input'[c].forwarded = input[c].forwarded /\ input'[c].sent >= input[c].sent /\ input'[c].sent \in Nat
      BY <2>1, <2>3 DEF ClientSends, ClientCloses, StreamType, InputType
    <3>5. copyPc[c]["stdin"] = "write" => input'[c].forwarded < input'[c].sent
      BY <2>1, <3>4 DEF ContInv, InputInv
    <3> QED BY Zenon, <2>3, <3>1, <3>2, <3>3, <3>5 DEF ContInv, InputInv, Deaf, Alive, ClientSends, ClientCloses
  <2> QED BY Zenon, <2>2, <2>3
<1> QED BY Zenon, <1>1, <1>2, <1>3, <1>4 DEF ContInv

LEMMA InvCloseIO ==
    ASSUME StreamType, NEW c \in Containers, ContInv(c), CloseIO(c) \/ CloseIOReturns(c)
    PROVE  ContInv(c)' /\ \A d \in Containers \ {c} : Same(d)
<1>0. c # None /\ ~(mu' \in Containers \ {c}) BY Zenon, StreamsAssumption DEF CloseIO, CloseIOReturns
<1>1. \A d \in Containers \ {c} : Same(d) BY <1>0 DEF Same, CloseIO, CloseIOReturns, StreamType, CloseType
<1>2. closedIn'[c] = closedIn[c] \/ (CloseIOReturns(c) /\ ~Fresh(c))
  <2>1. CloseIOReturns(c) => ~Fresh(c) BY ZenonT(40) DEF CloseIOReturns, ContInv, InputInv, FreshInv
  <2> QED BY Zenon, <2>1 DEF CloseIO
<1>3. FreshInv(c)' /\ PipeInv(c)' /\ CommandInv(c)' /\ WaitInv(c)'
  <2>1. UNCHANGED <<unikernel, given, status, state, exitCh, proc, ended, pipes, copyPc, ioPc, exitIO, stdinCloser,
                    cmdPc, waitPc>>
    BY Zenon DEF CloseIO, CloseIOReturns
  <2>2. FreshInv(c)' BY Zenon, <1>2, <2>1 DEF ContInv, FreshInv, Fresh
  <2>3. PipeInv(c)' BY Zenon, <2>1 DEF ContInv, PipeInv, Fresh, Alive
  <2>4. CommandInv(c)' BY Zenon, <2>1 DEF ContInv, CommandInv
  <2>5. WaitInv(c)' BY Zenon, <2>1 DEF ContInv, WaitInv, EndSeen, Alive
  <2> QED BY Zenon, <2>2, <2>3, <2>4, <2>5
<1>4. OutputInv(c)'
  <2>1. closedIn[c] = "closed" => closedIn'[c] = "closed" BY Zenon DEF ContInv, InputInv, CloseIO, CloseIOReturns
  <2>2. UNCHANGED <<unikernel, given, copyPc, ioPc, exitIO, pipes, ended, written, copied>>
    BY Zenon DEF CloseIO, CloseIOReturns, fixed, procVars, copyVars, closeVars
  <2> QED BY Zenon, <2>1, <2>2 DEF ContInv, OutputInv
<1>5. InputInv(c)'
  <2>1. CASE CloseIO(c) BY Zenon, <2>1 DEF ContInv, InputInv, Deaf, AllForwarded, Alive, CloseIO
  <2>2. CASE CloseIOReturns(c)
    BY Zenon, <1>0, <2>2 DEF ContInv, InputInv, Deaf, AllForwarded, Alive, CloseIOReturns
  <2> QED BY Zenon, <2>1, <2>2
<1> QED BY Zenon, <1>1, <1>3, <1>4, <1>5 DEF ContInv

LEMMA MovesOne ==
    ASSUME StreamType, NEW c \in Containers, NEW s \in Streams, NEW to, Moves(c, s, to)
    PROVE  /\ copyPc'[c][s] = to
           /\ \A t \in Streams \ {s} : copyPc'[c][t] = copyPc[c][t]
           /\ \A d \in Containers \ {c} : copyPc'[d] = copyPc[d]
<1>1. copyPc[c] \in [Streams -> CopyPoints] /\ copyPc \in [Containers -> [Streams -> CopyPoints]]
  BY Zenon DEF StreamType, CopyType
<1>2. copyPc' = [copyPc EXCEPT ![c] = [copyPc[c] EXCEPT ![s] = to]] BY Zenon, <1>1 DEF Moves
<1> QED BY Zenon, <1>1, <1>2

LEMMA StreamNamesDiffer == "stdin" \notin Outputs /\ \A s \in Outputs : s \in Streams \ {"stdin"}
BY Zenon DEF Outputs, Streams

\* A copy moves only when it was started.
LEMMA CopyIsStarted ==
    ASSUME StreamType, NEW c \in Containers, ContInv(c), NEW s \in Streams, copyPc[c][s] # "none"
    PROVE  ~Fresh(c) /\ given[c] # {}
BY Zenon DEF ContInv, FreshInv, OutputInv

LEMMA InvReadStdin ==
    ASSUME StreamType, NEW c \in Containers, ContInv(c), ReadStdin(c) \/ WriteStdin(c)
    PROVE  ContInv(c)' /\ \A d \in Containers \ {c} : Same(d)
<1> USE StreamNames, StreamNamesDiffer
<1>0. ~Fresh(c) /\ given[c] # {} BY Zenon, CopyIsStarted DEF ReadStdin, WriteStdin
<1>1. \E to : Moves(c, "stdin", to) BY Zenon DEF ReadStdin, WriteStdin
<1>2. \A t \in Outputs : copyPc'[c][t] = copyPc[c][t] BY Zenon, <1>1, MovesOne
<1>3. \A d \in Containers \ {c} : copyPc'[d] = copyPc[d] BY Zenon, <1>1, MovesOne
<1>4. \A d \in Containers \ {c} : Same(d) BY Zenon, <1>3 DEF Same, ReadStdin, WriteStdin, StreamType, InputType
<1>5. FreshInv(c)' /\ PipeInv(c)' /\ CommandInv(c)' /\ WaitInv(c)'
  BY ZenonT(40), <1>0 DEF ContInv, FreshInv, PipeInv, CommandInv, WaitInv, EndSeen, Fresh, Alive, ReadStdin, WriteStdin
<1>6. OutputInv(c)' BY <1>0, <1>2 DEF ContInv, OutputInv, ReadStdin, WriteStdin
<1>7. InputInv(c)'
  <2>0. copyPc'[c]["stdout"] = copyPc[c]["stdout"] BY Zenon, <1>2
  <2>1. CASE ReadStdin(c)
    <3>1. CASE fifo[c] = "open" /\ input[c].sent > input[c].forwarded /\ Moves(c, "stdin", "write")
      <4>1. copyPc'[c]["stdin"] = "write" BY Zenon, <3>1, MovesOne
      <4>2. input'[c].forwarded < input'[c].sent BY Zenon, <2>1, <3>1 DEF ReadStdin, StreamType, InputType
      <4> QED BY Zenon, <2>0, <2>1, <3>1, <4>1, <4>2 DEF ContInv, InputInv, Deaf, AllForwarded, Alive, ReadStdin
    <3>2. CASE fifo[c] # "open" /\ Moves(c, "stdin", "end")
      <4>1. copyPc'[c]["stdin"] = "end" BY Zenon, <3>2, MovesOne
      <4> QED BY Zenon, <2>0, <2>1, <3>2, <4>1 DEF ContInv, InputInv, Deaf, AllForwarded, Alive, ReadStdin
    <3>3. CASE input[c].closed /\ input[c].sent = input[c].forwarded /\ Moves(c, "stdin", "end")
      <4>1. copyPc'[c]["stdin"] = "end" BY Zenon, <3>3, MovesOne
      <4> QED BY Zenon, <2>0, <2>1, <3>3, <4>1 DEF ContInv, InputInv, Deaf, AllForwarded, Alive, ReadStdin
    <3> QED BY Zenon, <2>1, <3>1, <3>2, <3>3 DEF ReadStdin
  <2>2. CASE WriteStdin(c) /\ ~Alive(c)
    <3>1. copyPc'[c]["stdin"] = "end" BY ZenonT(40), <2>2, MovesOne DEF WriteStdin
    <3> QED BY Zenon, <2>0, <2>2, <3>1 DEF ContInv, InputInv, Deaf, AllForwarded, Alive, WriteStdin
  <2>3. CASE WriteStdin(c) /\ Alive(c)
    <3>1. copyPc'[c]["stdin"] = "read" BY ZenonT(40), <2>3, MovesOne DEF WriteStdin
    <3>2. input'[c] = [input[c] EXCEPT !.forwarded = input[c].forwarded + 1]
      BY Zenon, <2>3 DEF WriteStdin, StreamType, InputType
    <3>3. input[c] \in [sent : Nat, closed : BOOLEAN, forwarded : Nat, read : Nat] BY Zenon DEF StreamType, InputType
    <3>4. input'[c].closed = input[c].closed BY Zenon, <3>2, <3>3
    <3>5. "stdin" \in given[c] /\ stdinCloser[c] => Deaf(c)
      BY <2>3, <3>3 DEF ContInv, InputInv, AllForwarded, WriteStdin
    <3> QED BY Zenon, <2>0, <2>3, <3>1, <3>4, <3>5 DEF ContInv, InputInv, Deaf, AllForwarded, Alive, WriteStdin
  <2> QED BY Zenon, <2>1, <2>2, <2>3
<1> QED BY Zenon, <1>4, <1>5, <1>6, <1>7 DEF ContInv

LEMMA InvEndStdin ==
    ASSUME StreamType, NEW c \in Containers, ContInv(c), EndStdin(c)
    PROVE  /\ ContInv(c)' /\ \A d \in Containers \ {c} : Same(d)
           /\ ~unikernel \/ given[c] = {} => UNCHANGED panic
<1> USE StreamNames, StreamNamesDiffer
<1>0. ~Fresh(c) /\ given[c] # {} BY Zenon, CopyIsStarted DEF EndStdin
<1>1. Moves(c, "stdin", "done") BY Zenon DEF EndStdin
<1>2. \A t \in Outputs : copyPc'[c][t] = copyPc[c][t] BY Zenon, <1>1, MovesOne
<1>3. \A d \in Containers \ {c} : copyPc'[d] = copyPc[d] BY Zenon, <1>1, MovesOne
<1>4. \A d \in Containers \ {c} : Same(d) BY ZenonT(40), <1>3 DEF Same, EndStdin, CloseStdinCloser, StreamType, CloseType
<1>5. FreshInv(c)' /\ PipeInv(c)' /\ CommandInv(c)' /\ WaitInv(c)'
  BY Zenon, <1>0 DEF ContInv, FreshInv, PipeInv, CommandInv, WaitInv, EndSeen, Fresh, Alive, EndStdin, CloseStdinCloser
<1>6. OutputInv(c)' BY Zenon, <1>0, <1>2 DEF ContInv, OutputInv, EndStdin, CloseStdinCloser
<1>7. InputInv(c)'
  <2>1. stdinCloser'[c] BY Zenon DEF EndStdin, CloseStdinCloser, StreamType, CloseType
  <2>2. copyPc'[c]["stdin"] = "done" BY Zenon, <1>1, MovesOne
  <2> QED BY Zenon, <2>1, <2>2 DEF ContInv, InputInv, Deaf, AllForwarded, Alive, EndStdin
<1>8. ~unikernel \/ given[c] = {} => UNCHANGED panic
  BY Zenon, <1>0 DEF ContInv, InputInv, EndStdin, CloseStdinCloser
<1> QED BY Zenon, <1>4, <1>5, <1>6, <1>7, <1>8 DEF ContInv

LEMMA InvCopyOutput ==
    ASSUME StreamType, NEW c \in Containers, ContInv(c), NEW s \in Outputs, CopyOutput(c, s)
    PROVE  ContInv(c)' /\ \A d \in Containers \ {c} : Same(d)
<1> USE StreamNames, StreamNamesDiffer
<1>1. copied' = [copied EXCEPT ![c] = [copied[c] EXCEPT ![s] = copied[c][s] + 1]]
  BY Zenon DEF CopyOutput, StreamType, CopyType
<1>2. \A t \in Outputs \ {s} : copied'[c][t] = copied[c][t] BY Zenon, <1>1 DEF StreamType, CopyType
<1>3. \A d \in Containers \ {c} : copied'[d] = copied[d] BY Zenon, <1>1 DEF StreamType, CopyType
<1>4. \A d \in Containers \ {c} : Same(d) BY Zenon, <1>3 DEF Same, CopyOutput
<1>5. FreshInv(c)' /\ PipeInv(c)' /\ CommandInv(c)' /\ WaitInv(c)'
  BY Zenon DEF ContInv, FreshInv, PipeInv, CommandInv, WaitInv, EndSeen, Fresh, Alive, CopyOutput
<1>6. OutputInv(c)'
  <2>1. copyPc[c][s] \notin Past BY Zenon DEF CopyOutput, Past
  <2> QED BY Zenon, <1>2, <2>1 DEF ContInv, OutputInv, CopyOutput
<1>7. InputInv(c)' BY Zenon DEF ContInv, InputInv, Deaf, AllForwarded, Alive, CopyOutput
<1> QED BY Zenon, <1>4, <1>5, <1>6, <1>7 DEF ContInv

LEMMA InvEndOutput ==
    ASSUME StreamType, NEW c \in Containers, ContInv(c), NEW s \in Outputs, EndOutput(c, s)
    PROVE  ContInv(c)' /\ \A d \in Containers \ {c} : Same(d)
<1> USE StreamNames, StreamNamesDiffer
<1>0. ~Fresh(c) /\ given[c] # {} BY Zenon, CopyIsStarted DEF EndOutput
<1>1. Moves(c, s, IF s = "stdout" THEN "check" ELSE "done") BY Zenon DEF EndOutput
<1>2. copyPc'[c][s] = (IF s = "stdout" THEN "check" ELSE "done") BY <1>1, MovesOne
<1>3. \A t \in Streams \ {s} : copyPc'[c][t] = copyPc[c][t] BY Zenon, <1>1, MovesOne
<1>a. \A d \in Containers \ {c} : copyPc'[d] = copyPc[d] BY Zenon, <1>1, MovesOne
<1>4. \A d \in Containers \ {c} : Same(d) BY Zenon, <1>a DEF Same, EndOutput
<1>5. FreshInv(c)' /\ PipeInv(c)' /\ CommandInv(c)' /\ WaitInv(c)'
  BY Zenon, <1>0 DEF ContInv, FreshInv, PipeInv, CommandInv, WaitInv, EndSeen, Fresh, Alive, EndOutput
<1>6. OutputInv(c)'
  <2>1. \A t \in Outputs : copyPc[c][t] \in Past => copyPc'[c][t] \in Past BY Zenon, <1>2, <1>3 DEF Past
  <2>2. \A t \in Outputs : copyPc'[c][t] \in Past =>
            copyPc[c][t] \in Past \/ pipes[c] = "closed" \/ (t \in ended[c] /\ copied[c][t] = written[c][t])
            \/ (~unikernel /\ closedIn[c] = "closed")
    BY Zenon, <1>3 DEF EndOutput
  <2> QED BY Zenon, <1>0, <2>1, <2>2 DEF ContInv, OutputInv, EndOutput
<1>7. InputInv(c)'
  <2>1. copyPc'[c]["stdin"] = copyPc[c]["stdin"] BY Zenon, <1>3
  <2>2. copyPc'[c]["stdout"] \in {"check", "close"} /\ copyPc[c]["stdin"] \in {"read", "write"} => Deaf(c)
    <3>1. CASE s # "stdout" BY Zenon, <1>3, <3>1 DEF ContInv, InputInv
    <3>2. CASE s = "stdout"
      <4>1. pipes[c] = "closed" => Deaf(c) BY Zenon DEF ContInv, PipeInv, Deaf
      <4>2. "stdout" \in ended[c] => Deaf(c) BY Zenon DEF Deaf
      <4>3. ~unikernel /\ closedIn[c] = "closed" => copyPc[c]["stdin"] \notin {"read", "write"}
        BY Zenon DEF ContInv, InputInv
      <4> QED BY Zenon, <3>2, <4>1, <4>2, <4>3 DEF EndOutput
    <3> QED BY Zenon, <3>1, <3>2
  <2> QED BY Zenon, <2>1, <2>2 DEF ContInv, InputInv, Deaf, AllForwarded, Alive, EndOutput
<1> QED BY Zenon, <1>4, <1>5, <1>6, <1>7 DEF ContInv

LEMMA InvStdoutCloses ==
    ASSUME StreamType, NEW c \in Containers, ContInv(c), StdoutCloses(c)
    PROVE  /\ ContInv(c)' /\ \A d \in Containers \ {c} : Same(d)
           /\ panic' = panic \/ panic'.why = "tty"
<1> USE StreamNames, StreamNamesDiffer DEF StdoutCloses
<1>0. ~Fresh(c) /\ given[c] # {} BY Zenon, CopyIsStarted DEF CheckStdin, CloseStdin
<1>1. PICK to \in {"close", "done"} : Moves(c, "stdout", to) BY Zenon DEF CheckStdin, CloseStdin
<1>2. copyPc'[c]["stdout"] = to BY Zenon, <1>1, MovesOne
<1>3. \A t \in Streams \ {"stdout"} : copyPc'[c][t] = copyPc[c][t] BY Zenon, <1>1, MovesOne
<1>a. \A d \in Containers \ {c} : copyPc'[d] = copyPc[d] BY Zenon, <1>1, MovesOne
<1>b. copyPc[c]["stdout"] \in {"check", "close"} BY Zenon DEF CheckStdin, CloseStdin
<1>4. \A d \in Containers \ {c} : Same(d) BY Zenon, <1>a DEF Same, CheckStdin, CloseStdin, StreamType, CopyType
<1>5. FreshInv(c)' /\ PipeInv(c)' /\ CommandInv(c)' /\ WaitInv(c)'
  BY ZenonT(40), <1>0 DEF ContInv, FreshInv, PipeInv, CommandInv, WaitInv, EndSeen, Fresh, Alive, CheckStdin, CloseStdin
<1>6. OutputInv(c)'
  <2>1. \A t \in Outputs : copyPc[c][t] \in Past <=> copyPc'[c][t] \in Past BY Zenon, <1>2, <1>3, <1>b DEF Past
  <2>2. UNCHANGED <<unikernel, given, ioPc, exitIO, pipes, ended, copied, written, closedIn>>
    BY Zenon DEF CheckStdin, CloseStdin
  <2> QED BY Zenon, <1>0, <2>1, <2>2 DEF ContInv, OutputInv
<1>7. InputInv(c)'
  <2>1. copyPc'[c]["stdin"] = copyPc[c]["stdin"] BY Zenon, <1>3
  <2>2. copyPc[c]["stdin"] \in {"read", "write"} => Deaf(c) BY Zenon, <1>b DEF ContInv, InputInv
  <2> QED BY ZenonT(40), <2>1, <2>2 DEF ContInv, InputInv, Deaf, AllForwarded, Alive, CheckStdin, CloseStdin
<1>8. panic' = panic \/ panic'.why = "tty"
  <2>1. [why |-> "tty", c |-> c].why = "tty" BY SMT
  <2>2. panic' \in {panic, [why |-> "tty", c |-> c]} BY Zenon DEF CheckStdin, CloseStdin, closeVars
  <2> QED BY Zenon, <2>1, <2>2
<1> QED BY Zenon, <1>4, <1>5, <1>6, <1>7, <1>8 DEF ContInv

LEMMA InvIOCopyEnds ==
    ASSUME StreamType, NEW c \in Containers, ContInv(c), IOCopyEnds(c)
    PROVE  /\ ContInv(c)' /\ \A d \in Containers \ {c} : Same(d)
           /\ ~unikernel \/ given[c] = {} => UNCHANGED panic
<1>0. ~Fresh(c) /\ given[c] # {} BY ZenonT(40) DEF IOCopyEnds, ContInv, FreshInv, OutputInv
<1>1. \A d \in Containers \ {c} : Same(d)
  <2>1. \A d \in Containers \ {c} : fifo'[d] = fifo[d] BY Zenon DEF IOCopyEnds, StreamType, CopyType
  <2>2. \A d \in Containers \ {c} : ioPc'[d] = ioPc[d] BY Zenon DEF IOCopyEnds, StreamType, CopyType
  <2>3. \A d \in Containers \ {c} : exitIO'[d] = exitIO[d] BY Zenon DEF IOCopyEnds, StreamType, CloseType, CloseExitIO
  <2> QED BY Zenon, <2>1, <2>2, <2>3 DEF Same, IOCopyEnds, CloseExitIO
<1>2. FreshInv(c)' /\ PipeInv(c)' /\ CommandInv(c)' /\ WaitInv(c)'
  BY Zenon, <1>0 DEF ContInv, FreshInv, PipeInv, CommandInv, WaitInv, EndSeen, Fresh, Alive, IOCopyEnds, CloseExitIO
<1>3. OutputInv(c)'
  <2>1. \A s \in Outputs : copyPc[c][s] \in Past BY Zenon DEF Outputs, Past, IOCopyEnds
  <2>2. ioPc'[c] = "done" BY Zenon DEF IOCopyEnds, StreamType, CopyType
  <2> QED BY Zenon, <1>0, <2>1, <2>2 DEF ContInv, OutputInv, IOCopyEnds
<1>4. InputInv(c)' BY Zenon DEF ContInv, InputInv, Deaf, AllForwarded, Alive, IOCopyEnds, CloseExitIO
<1>5. ~unikernel \/ given[c] = {} => UNCHANGED panic
  BY Zenon, <1>0 DEF ContInv, OutputInv, IOCopyEnds, CloseExitIO
<1> QED BY Zenon, <1>1, <1>2, <1>3, <1>4, <1>5 DEF ContInv

LEMMA InvCommand ==
    ASSUME StreamType, NEW c \in Containers, ContInv(c), CommandStep(c)
    PROVE  /\ ContInv(c)' /\ \A d \in Containers \ {c} : Same(d)
           /\ ~unikernel \/ given[c] = {} => UNCHANGED panic
<1>0. ~Fresh(c) /\ unikernel
  BY Zenon DEF CommandStep, CommandWait, CommandExitIO, CommandStdin, CommandStatus, CmdMoves, ContInv, FreshInv,
         CommandInv
<1>1. CASE CommandWait(c)
  <2>1. \A d \in Containers \ {c} : Same(d) BY Zenon, <1>1 DEF Same, CommandWait, CmdMoves, StreamType, CloseType
  <2>2. pipes'[c] = "closed" /\ ~Alive(c) /\ cmdPc[c] = "wait" /\ cmdPc'[c] = "exitIO"
    BY Zenon, <1>1 DEF CommandWait, CmdMoves, StreamType, CloseType
  <2>3. FreshInv(c)' /\ PipeInv(c)' /\ CommandInv(c)' /\ WaitInv(c)'
    BY Zenon, <1>0, <1>1, <2>2 DEF ContInv, FreshInv, PipeInv, CommandInv, WaitInv, EndSeen, Fresh, Alive, CommandWait
  <2>4. OutputInv(c)' BY Zenon, <1>0, <1>1, <2>2 DEF ContInv, OutputInv, CommandWait
  <2>5. InputInv(c)' BY Zenon, <1>1 DEF ContInv, InputInv, Deaf, AllForwarded, Alive, CommandWait
  <2> QED BY Zenon, <1>1, <2>1, <2>3, <2>4, <2>5 DEF ContInv, CommandWait
<1>2. CASE CommandExitIO(c)
  <2>1. \A d \in Containers \ {c} : Same(d)
    BY Zenon, <1>2 DEF Same, CommandExitIO, CmdMoves, CloseExitIO, StreamType, CloseType
  <2>2. pipes[c] = "closed" /\ cmdPc[c] = "exitIO" /\ cmdPc'[c] = "stdin"
    BY Zenon, <1>2 DEF CommandExitIO, CmdMoves, StreamType, CloseType, ContInv, CommandInv
  <2>3. FreshInv(c)' /\ PipeInv(c)' /\ CommandInv(c)' /\ WaitInv(c)'
    BY Zenon, <1>0, <1>2, <2>2 DEF ContInv, FreshInv, PipeInv, CommandInv, WaitInv, EndSeen, Fresh, Alive, CommandExitIO,
       CloseExitIO
  <2>4. OutputInv(c)' BY Zenon, <1>0, <1>2, <2>2 DEF ContInv, OutputInv, CommandExitIO
  <2>5. InputInv(c)' BY Zenon, <1>2 DEF ContInv, InputInv, Deaf, AllForwarded, Alive, CommandExitIO, CloseExitIO
  <2>6. given[c] = {} => UNCHANGED panic BY Zenon, <1>0, <1>2, <2>2 DEF ContInv, CommandInv, CommandExitIO, CloseExitIO
  <2> QED BY Zenon, <1>0, <2>1, <2>3, <2>4, <2>5, <2>6 DEF ContInv
<1>3. CASE CommandStdin(c)
  <2>1. \A d \in Containers \ {c} : Same(d)
    BY Zenon, <1>3 DEF Same, CommandStdin, CmdMoves, CloseStdinCloser, StreamType, CloseType
  <2>2. pipes[c] = "closed" /\ cmdPc[c] = "stdin" /\ cmdPc'[c] = "status" /\ ~Alive(c)
    BY Zenon, <1>3 DEF CommandStdin, CmdMoves, StreamType, CloseType, ContInv, CommandInv, PipeInv
  <2>3. FreshInv(c)' /\ PipeInv(c)' /\ CommandInv(c)' /\ WaitInv(c)'
    BY Zenon, <1>0, <1>3, <2>2 DEF ContInv, FreshInv, PipeInv, CommandInv, WaitInv, EndSeen, Fresh, Alive, CommandStdin,
       CloseStdinCloser
  <2>4. OutputInv(c)' BY Zenon, <1>0, <1>3, <2>2 DEF ContInv, OutputInv, CommandStdin, CloseStdinCloser
  <2>5. InputInv(c)'
    <3>1. stdinCloser'[c] BY Zenon, <1>3 DEF CommandStdin, CloseStdinCloser, StreamType, CloseType
    <3> QED BY Zenon, <1>0, <1>3, <2>2, <3>1 DEF ContInv, InputInv, Deaf, AllForwarded, Alive, CommandStdin
  <2>6. given[c] = {} => UNCHANGED panic BY Zenon, <1>0, <1>3, <2>2 DEF ContInv, CommandInv, CommandStdin, CloseStdinCloser
  <2> QED BY Zenon, <1>0, <2>1, <2>3, <2>4, <2>5, <2>6 DEF ContInv
<1>4. CASE CommandStatus(c)
  <2>1. \A d \in Containers \ {c} : Same(d)
    <3>1. \A d \in Containers \ {c} : status'[d] = status[d] BY Zenon, <1>4 DEF CommandStatus, StreamType, StateType
    <3>2. \A d \in Containers \ {c} : cmdPc'[d] = cmdPc[d] BY Zenon, <1>4 DEF CommandStatus, StreamType, CloseType, CmdMoves
    <3> QED BY Zenon, <1>4, <3>1, <3>2 DEF Same, CommandStatus
  <2>2. pipes[c] = "closed" /\ cmdPc[c] = "status" /\ cmdPc'[c] = "done" /\ status'[c] = "stopped"
    BY <1>4 DEF CommandStatus, CmdMoves, StreamType, CloseType, StateType, ContInv, CommandInv
  <2>3. FreshInv(c)' /\ PipeInv(c)' /\ CommandInv(c)' /\ WaitInv(c)'
    BY Zenon, <1>0, <1>4, <2>2 DEF ContInv, FreshInv, PipeInv, CommandInv, WaitInv, EndSeen, Fresh, Alive, CommandStatus
  <2>4. OutputInv(c)' BY Zenon, <1>4 DEF ContInv, OutputInv, CommandStatus
  <2>5. InputInv(c)' BY Zenon, <1>4 DEF ContInv, InputInv, Deaf, AllForwarded, Alive, CommandStatus
  <2> QED BY ZenonT(40), <1>4, <2>1, <2>3, <2>4, <2>5 DEF ContInv, CommandStatus
<1> QED BY Zenon, <1>1, <1>2, <1>3, <1>4 DEF CommandStep

LEMMA InvWaitProcess ==
    ASSUME StreamType, NEW c \in Containers, ContInv(c), WaitProcess(c)
    PROVE  ContInv(c)' /\ \A d \in Containers \ {c} : Same(d)
<1>0. ~Fresh(c) BY Zenon DEF WaitProcess, ContInv, FreshInv
<1>1. \A d \in Containers \ {c} : Same(d) BY Zenon DEF Same, WaitProcess, StreamType, CloseType
<1>2. EndSeen(c)
  <2>1. pipes[c] = "closed" => ~Alive(c) BY Zenon DEF ContInv, PipeInv
  <2>2. unikernel /\ pipes[c] # "closed" => given[c] # {} /\ given[c] \cap Outputs \subseteq ended[c]
    BY Zenon DEF ContInv, OutputInv, WaitProcess
  <2> QED BY Zenon, <2>1, <2>2 DEF EndSeen, WaitProcess
<1>3. FreshInv(c)' /\ PipeInv(c)' /\ CommandInv(c)'
  BY Zenon, <1>0 DEF ContInv, FreshInv, PipeInv, CommandInv, Fresh, Alive, WaitProcess
<1>4. WaitInv(c)' BY Zenon, <1>2 DEF WaitInv, EndSeen, Alive, WaitProcess
<1>5. OutputInv(c)' BY Zenon DEF ContInv, OutputInv, WaitProcess
<1>6. InputInv(c)'
  <2>1. waitPc'[c] = "lock" BY Zenon DEF WaitProcess, StreamType, CloseType
  <2> QED BY Zenon, <2>1 DEF ContInv, InputInv, Deaf, AllForwarded, Alive, WaitProcess
<1> QED BY Zenon, <1>1, <1>3, <1>4, <1>5, <1>6 DEF ContInv

\* The one step that reaches other containers: the end of the sandbox.
LEMMA InvWaitStop ==
    ASSUME StreamType, NEW c \in Containers, ContInv(c), WaitStop(c), NEW d \in Containers, ContInv(d)
    PROVE  ContInv(d)'
<1> DEFINE off == c = Pod /\ ~unikernel
<1>0. Pod \in Containers BY Zenon DEF Containers
<1>1. /\ ~Alive(d) => proc'[d] = proc[d] /\ ended'[d] = ended[d]
      /\ Alive(d) /\ ~off => proc'[d] = proc[d] /\ ended'[d] = ended[d]
      /\ Alive(d) /\ off => proc'[d] = "ended" /\ ended'[d] = Outputs
      /\ pipes'[d] = IF off THEN "closed" ELSE pipes[d]
  BY Zenon DEF WaitStop
<1>2. /\ status'[d] = IF d = c THEN "stopped" ELSE status[d]
      /\ exitCh'[d] = IF d = c THEN "ended" ELSE exitCh[d]
      /\ waitPc'[d] = IF d = c THEN "done" ELSE waitPc[d]
  BY DEF WaitStop, StreamType, StateType, CloseType
<1>3. ended[d] \subseteq ended'[d] /\ (~Alive(d) => ~Alive(d)') /\ (off => ~Alive(d)')
  BY Zenon, <1>1 DEF StreamType, ProcType, Alive
<1>4. FreshInv(d)'
  <2>1. Fresh(d)' => d # c /\ Fresh(d) BY Zenon, <1>2 DEF Fresh
  <2>2. Fresh(d) => ~Alive(d) BY Zenon DEF ContInv, FreshInv, Alive
  <2> QED BY Zenon, <1>1, <1>2, <2>1, <2>2 DEF ContInv, FreshInv, WaitStop
<1>5. PipeInv(d)'
  <2>1. PodGone => PodGone' BY Zenon, PodStays DEF GoStep, WaitStep
  <2>2. off => PodGone' BY Zenon, <1>0 DEF WaitStop, PodGone, Fresh, StreamType, StateType
  <2> QED BY Zenon, <1>1, <1>3, <2>1, <2>2 DEF ContInv, PipeInv, PodGone, WaitStop
<1>6. CommandInv(d)' BY Zenon, <1>1 DEF ContInv, CommandInv, WaitStop
<1>7. OutputInv(d)' BY Zenon, <1>1, <1>3 DEF ContInv, OutputInv, WaitStop
<1>8. InputInv(d)'
  <2>1. Deaf(d) => Deaf(d)' BY Zenon, <1>3 DEF Deaf
  <2>2. mu # d BY Zenon, StreamsAssumption DEF WaitStop, Free
  <2> QED BY Zenon, <2>1, <2>2 DEF ContInv, InputInv, AllForwarded, WaitStop
<1>9. WaitInv(d)'
  <2>1. EndSeen(d) => EndSeen(d)' BY Zenon, <1>3 DEF EndSeen, WaitStop
  <2>2. d = c => EndSeen(d) BY Zenon DEF ContInv, WaitInv, WaitStop
  <2> QED BY Zenon, <1>2, <2>1, <2>2 DEF ContInv, WaitInv
<1> QED BY Zenon, <1>4, <1>5, <1>6, <1>7, <1>8, <1>9 DEF ContInv

LEMMA ClosedOnceKept ==
    ASSUME StreamType, ClosedOnce, NEW c \in Containers, ContInv(c),
           StartStep(c) \/ ProcStep(c) \/ ClientStep(c) \/ GoStep(c)
    PROVE  ClosedOnce'
<1>1. UNCHANGED fixed
  BY Zenon DEF StartStep, CreateContainer, CreateContainerFails, StartInVM, StartCommand, StartCommandFails, StartIOFails,
         ProcStep, ClientStep, ProcWrites, ProcCloses, ProcReads, ProcEnds, ClientSends, ClientCloses, CloseIO,
         GoStep, StdinStep, StdoutCloses, OutputStep, WaitStep, CommandStep, ReadStdin, WriteStdin, EndStdin,
         CheckStdin, CloseStdin, CopyOutput, EndOutput, IOCopyEnds, CommandWait, CommandExitIO, CommandStdin,
         CommandStatus, WaitProcess, WaitStop, CloseIOReturns
<1>2. CASE UNCHANGED panic BY Zenon, <1>1, <1>2 DEF ClosedOnce
<1>3. CASE EndStdin(c) \/ IOCopyEnds(c) \/ CommandStep(c)
  <2>1. ~unikernel \/ given[c] = {} => UNCHANGED panic BY Zenon, <1>3, InvEndStdin, InvIOCopyEnds, InvCommand
  <2>2. panic' = panic \/ panic'.c = c
    <3>1. \A w : [why |-> w, c |-> c].c = c BY SMT
    <3>2. panic' = panic \/ \E w : panic' = [why |-> w, c |-> c]
      BY Zenon, <1>3 DEF EndStdin, IOCopyEnds, CommandStep, CommandWait, CommandExitIO, CommandStdin, CommandStatus,
         CloseExitIO, CloseStdinCloser, closeVars
    <3> QED BY Zenon, <3>1, <3>2
  <2> QED BY Zenon, <1>1, <1>2, <2>1, <2>2, StreamsAssumption DEF ClosedOnce, StreamType, FixedType
<1>4. CASE StdoutCloses(c) BY Zenon, <1>2, <1>4, InvStdoutCloses DEF ClosedOnce
<1>5. CASE StartStep(c) \/ ProcStep(c) \/ ClientStep(c)
  BY Zenon, <1>2, <1>5
     DEF StartStep, CreateContainer, CreateContainerFails, StartInVM, StartCommand, StartCommandFails, StartIOFails,
         ProcStep, ClientStep, ProcWrites, ProcCloses, ProcReads, ProcEnds, ClientSends, ClientCloses, CloseIO
<1>6. CASE ReadStdin(c) \/ WriteStdin(c) \/ WaitStep(c) \/ CloseIOReturns(c) \/ \E s \in Outputs : OutputStep(c, s)
  BY Zenon, <1>2, <1>6
     DEF ReadStdin, WriteStdin, WaitStep, WaitProcess, WaitStop, CloseIOReturns, OutputStep, CopyOutput, EndOutput
<1> QED BY Zenon, <1>3, <1>4, <1>5, <1>6 DEF GoStep, StdinStep

LEMMA InvStep ==
    ASSUME StreamType, NEW c \in Containers, ContInv(c), StartStep(c) \/ ProcStep(c) \/ ClientStep(c) \/ GoStep(c),
           ~WaitStop(c)
    PROVE  ContInv(c)' /\ \A d \in Containers \ {c} : Same(d)
<1>1. CASE StartStep(c) BY Zenon, <1>1, InvCreate, InvStart, InvStartIOFails DEF StartStep
<1>2. CASE ProcStep(c) \/ ClientStep(c)
  BY Zenon, <1>2, InvProcOutputs, InvProcEnds, InvInput, InvCloseIO DEF ProcStep, ClientStep
<1>3. CASE GoStep(c)
  BY Zenon, <1>3, InvReadStdin, InvEndStdin, InvCopyOutput, InvEndOutput, InvStdoutCloses, InvIOCopyEnds, InvCommand,
     InvWaitProcess, InvCloseIO DEF GoStep, StdinStep, OutputStep, WaitStep
<1> QED BY Zenon, <1>1, <1>2, <1>3

LEMMA InvNext == StreamType /\ StreamInv /\ [Next]_vars => StreamInv'
<1> SUFFICES ASSUME StreamType, StreamInv, [Next]_vars PROVE StreamInv'
  BY Zenon
<1>1. CASE UNCHANGED vars
  <2>1. ClosedOnce' BY Zenon, <1>1 DEF StreamInv, ClosedOnce
  <2>2. \A d \in Containers : Same(d) BY Zenon, <1>1 DEF Same
  <2>3. PodGone => PodGone' BY Zenon, <1>1 DEF PodGone, Fresh
  <2> QED BY Zenon, <2>1, <2>2, <2>3, ContFrame DEF StreamInv
<1>2. ASSUME NEW c \in Containers, StartStep(c) \/ ProcStep(c) \/ ClientStep(c) \/ GoStep(c) PROVE StreamInv'
  <2>1. ClosedOnce' BY Zenon, <1>2, ClosedOnceKept DEF StreamInv
  <2>2. ASSUME NEW d \in Containers PROVE ContInv(d)'
    <3>1. PodGone => PodGone' BY Zenon, <1>2, PodStays
    <3>2. CASE WaitStop(c) BY Zenon, <3>2, InvWaitStop DEF StreamInv
    <3>3. CASE ~WaitStop(c) BY Zenon, <1>2, <3>1, <3>3, InvStep, ContFrame DEF StreamInv
    <3> QED BY Zenon, <3>2, <3>3
  <2> QED BY Zenon, <2>1, <2>2 DEF StreamInv
<1> QED BY Zenon, <1>1, <1>2 DEF Next

LEMMA InvAlways == Spec => [](StreamType /\ StreamInv)
BY TypeInit, TypeNext, InvInit, InvNext, PTL DEF Spec

-----------------------------------------------------------------------------
(* The binary of a unikernel.                                               *)

\* Waiting to be started.
Pending(c) == status[c] = "created" /\ exitCh[c] = "empty"

LEMMA ImageStart ==
    ASSUME ~Overlap, StreamType, ImageInv, NEW c \in Containers, StartStep(c)
    PROVE  ImageInv'
<1> USE DEF ImageInv, RunsItsOwnImage, StreamType, StateType, ProcType
<1>1. CASE CreateContainer(c) \/ CreateContainerFails(c)
  <2>1. \A d \in Containers : ~Pending(d)
    BY Zenon, <1>1 DEF Pending, CreateContainer, CreateContainerFails, CanCreate
  <2>2. \A d \in Containers \ {c} : ~Pending(d)'
    BY ZenonT(40), <1>1, <2>1 DEF Pending, CreateContainer, CreateContainerFails
  <2>3. UNCHANGED <<image, unikernel>> BY Zenon, <1>1 DEF CreateContainer, CreateContainerFails
  <2>4. CASE CreateContainer(c)
    <3>1. unikernel => execData'.binary = c BY Zenon, <2>4 DEF CreateContainer
    <3> QED BY Zenon, <2>2, <2>3, <3>1 DEF Pending
  <2>5. CASE CreateContainerFails(c)
    <3>1. \A d \in Containers : ~Pending(d)' BY Zenon, <2>1, <2>5 DEF Pending, CreateContainerFails
    <3> QED BY Zenon, <2>3, <3>1 DEF Pending
  <2> QED BY Zenon, <1>1, <2>4, <2>5
<1>2. CASE StartInVM(c) \/ StartCommand(c) \/ StartCommandFails(c) \/ StartIOFails(c)
  <2>0. UNCHANGED <<unikernel, execData>>
    BY Zenon, <1>2 DEF StartInVM, StartCommand, StartCommandFails, StartIOFails
  <2>1. Pending(c) BY Zenon, <1>2 DEF StartInVM, StartCommand, StartCommandFails, StartIOFails, CanStart, Pending
  <2>2. \A d \in Containers : Pending(d)' => Pending(d)
    BY ZenonT(60), <1>2 DEF StartInVM, StartCommand, StartCommandFails, StartIOFails, Begin, Pending
  <2>3. \A d \in Containers : image'[d] = image[d] \/ image'[d] = d
    <3>1. unikernel => execData.binary = c BY Zenon, <2>1 DEF Pending
    <3>2. image' = image \/ image' = [image EXCEPT ![c] = c]
      BY Zenon, <1>2, <3>1 DEF StartInVM, StartCommand, StartCommandFails, StartIOFails, Runs, procVars
    <3>3. image \in [Containers -> Containers \cup {None}] BY Zenon DEF ProcType
    <3>4. \A d \in Containers : [image EXCEPT ![c] = c][d] \in {image[d], d} BY SMT, <3>3
    <3> QED BY Zenon, <3>2, <3>4
  <2> QED BY Zenon, <2>0, <2>2, <2>3 DEF Pending
<1> QED BY Zenon, <1>1, <1>2 DEF StartStep

LEMMA ImageNext == ~Overlap /\ StreamType /\ ImageInv /\ [Next]_vars => ImageInv'
<1> SUFFICES ASSUME ~Overlap, StreamType, ImageInv, [Next]_vars PROVE ImageInv'
  BY Zenon
<1>1. CASE UNCHANGED <<unikernel, execData, image, status, exitCh>>
  BY Zenon, <1>1 DEF ImageInv, RunsItsOwnImage
<1>2. ASSUME NEW c \in Containers, CommandStatus(c) \/ WaitStop(c) PROVE ImageInv'
  <2>1. UNCHANGED <<unikernel, execData, image>> BY Zenon, <1>2 DEF CommandStatus, WaitStop
  <2>2. \A d \in Containers : status'[d] = status[d] \/ status'[d] = "stopped"
    BY Zenon, <1>2 DEF CommandStatus, WaitStop, StreamType, StateType
  <2>3. \A d \in Containers : exitCh'[d] = exitCh[d] \/ exitCh'[d] = "ended"
    BY Zenon, <1>2 DEF CommandStatus, WaitStop, StreamType, StateType
  <2>4. "stopped" # "created" /\ "ended" # "empty" BY SMT
  <2> QED BY Zenon, <2>1, <2>2, <2>3, <2>4 DEF ImageInv, RunsItsOwnImage
<1>3. ASSUME NEW c \in Containers, ProcStep(c) \/ ClientStep(c) PROVE ImageInv'
  BY Zenon, <1>1, <1>3 DEF ProcStep, ClientStep, ProcWrites, ProcCloses, ProcReads, ProcEnds, ClientSends, ClientCloses,
     CloseIO
<1>4. ASSUME NEW c \in Containers, GoStep(c) PROVE ImageInv'
  BY Zenon, <1>1, <1>2, <1>4
  DEF GoStep, StdinStep, StdoutCloses, OutputStep, WaitStep, CommandStep, ReadStdin, WriteStdin, EndStdin,
      CheckStdin, CloseStdin, CopyOutput, EndOutput, IOCopyEnds, CommandWait, CommandExitIO, CommandStdin,
      WaitProcess, CloseIOReturns
<1> QED BY Zenon, <1>1, <1>3, <1>4, ImageStart DEF Next

-----------------------------------------------------------------------------
(* The theorems.                                                            *)

\* A unikernel runs the binary of its own image (startContainer takes the one
\* uruncAgent.createContainer found last), with any number of containers, if each
\* is started before the next is created.
THEOREM OwnImage == ASSUME ~Overlap PROVE Spec => []RunsItsOwnImage
<1>1. Init => ImageInv BY DEF Init, ImageInv, RunsItsOwnImage
<1>2. ImageInv => RunsItsOwnImage BY Zenon DEF ImageInv
<1> QED BY <1>1, <1>2, TypeInit, TypeNext, ImageNext, PTL DEF Spec

\* wait writes the exit code of a process that has ended, or of a unikernel whose
\* outputs are all closed.
THEOREM RealEnd == Spec => []EndIsReal
<1>1. StreamInv => EndIsReal BY Zenon DEF StreamInv, ContInv, WaitInv, EndSeen, EndIsReal
<1> QED BY <1>1, InvAlways, PTL

\* When exitIOch is closed ioCopy has given the client all a process wrote, unless
\* the pipes or the streams were closed under it.
THEOREM CompleteOutput == Spec => []OutputIsComplete
<1>1. StreamInv => OutputIsComplete BY Zenon DEF StreamInv, ContInv, OutputInv, OutputIsComplete
<1> QED BY <1>1, InvAlways, PTL

\* CloseIO closes the stdin of a process after all the client sent was forwarded.
THEOREM ForwardedInput == Spec => []InputIsForwarded
<1>1. StreamInv => InputIsForwarded
  BY Zenon DEF StreamInv, ContInv, InputInv, InputIsForwarded, Deaf, AllForwarded
<1> QED BY <1>1, InvAlways, PTL

\* Only of a unikernel with streams can ioCopy and Command.Wait close a channel twice.
THEOREM OneClose == Spec => []ClosedOnce
<1>1. StreamInv => ClosedOnce BY Zenon DEF StreamInv
<1> QED BY <1>1, InvAlways, PTL
=============================================================================
