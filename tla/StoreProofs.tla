---------------------------- MODULE StoreProofs ----------------------------
(***************************************************************************)
(* Proof that, between two operations, the files of a sandbox say what the *)
(* shim knows of it (SandboxStore.IdleIsStored), for any containers and any *)
(* faults.  An operation moves memory and files apart and brings them      *)
(* together again, so the inductive invariant says how far apart they may  *)
(* be for every remaining sequence of steps (PlanInv), and how much of a   *)
(* Save that is under way has been written (SavingInv).                    *)
(***************************************************************************)
EXTENDS SandboxStore, SequenceTheorems, TLAPS

-----------------------------------------------------------------------------
(* Sequences of steps.                                                      *)

\* The save that a stop puts before the steps that remain (Container.stop), for
\* each number of steps.
LEMMA Before0 == ASSUME NEW a PROVE <<a>> \o <<>> = <<a>>
<1> DEFINE S == {a}
<1>0. a \in S OBVIOUS
<1> HIDE DEF S
<1>1. <<a>> \in Seq(S) BY <1>0, SMT
<1> QED BY <1>1, ConcatEmptySeq, Zenon

\* Two steps before none.
LEMMA Before0Two == ASSUME NEW a, NEW b PROVE <<a, b>> \o <<>> = <<a, b>>
<1> DEFINE S == {a, b}
<1>0. a \in S /\ b \in S OBVIOUS
<1> HIDE DEF S
<1>1. <<a, b>> \in Seq(S) BY <1>0, SMT
<1> QED BY <1>1, ConcatEmptySeq, Zenon

\* ... with 1.
LEMMA Before1 == ASSUME NEW a, NEW b PROVE <<a>> \o <<b>> = <<a, b>>
<1> DEFINE S == {a, b}
<1>0. a \in S /\ b \in S OBVIOUS
<1> HIDE DEF S
<1>1. <<a>> \in Seq(S) /\ <<b>> \in Seq(S) /\ <<a, b>> \in Seq(S) BY <1>0, SMT
<1>2. <<a>> \o <<b>> \in Seq(S) /\ Len(<<a>> \o <<b>>) = 2 BY <1>1, SMT
<1>3. \A i \in 1..2 : (<<a>> \o <<b>>)[i] = <<a, b>>[i] BY <1>1, SMT
<1>4. Len(<<a, b>>) = 2 BY SMT
<1> QED BY <1>1, <1>2, <1>3, <1>4, SeqEqual

\* ... with 2.
LEMMA Before2 == ASSUME NEW a, NEW b, NEW c PROVE <<a>> \o <<b, c>> = <<a, b, c>>
<1> DEFINE S == {a, b, c}
<1>0. a \in S /\ b \in S /\ c \in S OBVIOUS
<1> HIDE DEF S
<1>1. <<a>> \in Seq(S) /\ <<b, c>> \in Seq(S) /\ <<a, b, c>> \in Seq(S) BY <1>0, SMT
<1>2. <<a>> \o <<b, c>> \in Seq(S) /\ Len(<<a>> \o <<b, c>>) = 3 BY <1>1, SMT
<1>3. \A i \in 1..3 : (<<a>> \o <<b, c>>)[i] = <<a, b, c>>[i] BY <1>1, SMT
<1>4. Len(<<a, b, c>>) = 3 BY SMT
<1> QED BY <1>1, <1>2, <1>3, <1>4, SeqEqual

\* ... with 7.
LEMMA Before7 == ASSUME NEW a, NEW b, NEW c, NEW d, NEW e, NEW f, NEW g, NEW h PROVE <<a>> \o <<b, c, d, e, f, g, h>> = <<a, b, c, d, e, f, g, h>>
<1> DEFINE S == {a, b, c, d, e, f, g, h}
<1>0. a \in S /\ b \in S /\ c \in S /\ d \in S /\ e \in S /\ f \in S /\ g \in S /\ h \in S OBVIOUS
<1> HIDE DEF S
<1>1. <<a>> \in Seq(S) /\ <<b, c, d, e, f, g, h>> \in Seq(S) /\ <<a, b, c, d, e, f, g, h>> \in Seq(S) BY <1>0, SMT
<1>2. <<a>> \o <<b, c, d, e, f, g, h>> \in Seq(S) /\ Len(<<a>> \o <<b, c, d, e, f, g, h>>) = 8 BY <1>1, SMT
<1>3. \A i \in 1..8 : (<<a>> \o <<b, c, d, e, f, g, h>>)[i] = <<a, b, c, d, e, f, g, h>>[i] BY <1>1, SMT
<1>4. Len(<<a, b, c, d, e, f, g, h>>) = 8 BY SMT
<1> QED BY <1>1, <1>2, <1>3, <1>4, SeqEqual

\* The caller goes on after the four steps of StopSandbox ...
LEMMA Append1 == ASSUME NEW a, NEW b, NEW c, NEW d, NEW e PROVE <<a, b, c, d>> \o <<e>> = <<a, b, c, d, e>>
<1> DEFINE S == {a, b, c, d, e}
<1>0. a \in S /\ b \in S /\ c \in S /\ d \in S /\ e \in S OBVIOUS
<1> HIDE DEF S
<1>1. <<a, b, c, d>> \in Seq(S) /\ <<e>> \in Seq(S) /\ <<a, b, c, d, e>> \in Seq(S) BY <1>0, SMT
<1>2. <<a, b, c, d>> \o <<e>> \in Seq(S) /\ Len(<<a, b, c, d>> \o <<e>>) = 5 BY <1>1, SMT
<1>3. \A i \in 1..5 : (<<a, b, c, d>> \o <<e>>)[i] = <<a, b, c, d, e>>[i] BY <1>1, SMT
<1>4. Len(<<a, b, c, d, e>>) = 5 BY SMT
<1> QED BY <1>1, <1>2, <1>3, <1>4, SeqEqual

\* ... with the two of DeleteSandbox.
LEMMA Append2 == ASSUME NEW a, NEW b, NEW c, NEW d, NEW e, NEW f, NEW g PROVE <<a, b, c, d, e>> \o <<f, g>> = <<a, b, c, d, e, f, g>>
<1> DEFINE S == {a, b, c, d, e, f, g}
<1>0. a \in S /\ b \in S /\ c \in S /\ d \in S /\ e \in S /\ f \in S /\ g \in S OBVIOUS
<1> HIDE DEF S
<1>1. <<a, b, c, d, e>> \in Seq(S) /\ <<f, g>> \in Seq(S) /\ <<a, b, c, d, e, f, g>> \in Seq(S) BY <1>0, SMT
<1>2. <<a, b, c, d, e>> \o <<f, g>> \in Seq(S) /\ Len(<<a, b, c, d, e>> \o <<f, g>>) = 7 BY <1>1, SMT
<1>3. \A i \in 1..7 : (<<a, b, c, d, e>> \o <<f, g>>)[i] = <<a, b, c, d, e, f, g>>[i] BY <1>1, SMT
<1>4. Len(<<a, b, c, d, e, f, g>>) = 7 BY SMT
<1> QED BY <1>1, <1>2, <1>3, <1>4, SeqEqual

\* The steps of StopSandbox and DeleteSandbox, as one sequence.
LEMMA StopAndDelete ==
    StopSandboxSteps \o <<"end">> \o DeleteSandboxSteps =
        <<"stopAll", "stopVM", "setStopped", "store", "end", "removeAll", "destroy">>
<1>1. <<"stopAll", "stopVM", "setStopped", "store">> \o <<"end">> =
          <<"stopAll", "stopVM", "setStopped", "store", "end">> BY Append1, Zenon
<1>2. <<"stopAll", "stopVM", "setStopped", "store", "end">> \o <<"removeAll", "destroy">> =
          <<"stopAll", "stopVM", "setStopped", "store", "end", "removeAll", "destroy">>
      BY Append2, SMT
<1> QED BY <1>1, <1>2, Zenon DEF StopSandboxSteps, DeleteSandboxSteps

\* What is left of the four steps from "store" on when the first of them fails.
LEMMA FromEnd ==
    ASSUME NEW a, NEW b, NEW c, NEW d
    PROVE  SubSeq(<<a, b, c, d>>, 2, 4) = <<b, c, d>>
<1> DEFINE S == {a, b, c, d}
<1>0. a \in S /\ b \in S /\ c \in S /\ d \in S OBVIOUS
<1> HIDE DEF S
<1>1. <<b, c, d>> \in Seq(S) /\ <<a, b, c, d>> \in Seq(S) BY <1>0, SMT
<1>2. SubSeq(<<a, b, c, d>>, 2, 4) \in Seq(S) /\ Len(SubSeq(<<a, b, c, d>>, 2, 4)) = 3
      BY <1>1, SMT
<1>3. \A i \in 1..3 : SubSeq(<<a, b, c, d>>, 2, 4)[i] = <<b, c, d>>[i] BY <1>1, SMT
<1>4. Len(<<b, c, d>>) = 3 BY SMT
<1> QED BY <1>1, <1>2, <1>3, <1>4, SeqEqual

-----------------------------------------------------------------------------
(* The inductive invariant.                                                 *)

\* The deferred functions of createSandboxFromConfig, of CreateContainer before
\* the container is there, and after.
UndoSandbox == <<"stopVM", "removeAll", "destroy">>
UndoConfig == <<"unconfig">>
UndoContainer == <<"stop", "remove", "unconfig">>

\* The files, where there are any, say what memory says, but for the entries of
\* the containers S in the configuration; a container only they have is stopped.
StoredBut(S) ==
    disk.file # "none" =>
        /\ disk.file = "whole" /\ mem.config \ S \subseteq disk.config
        /\ \A c \in DOMAIN mem.conts : c \in DOMAIN disk.dirs /\ disk.dirs[c] = mem.conts[c]
        /\ \A c \in DOMAIN disk.dirs \ DOMAIN mem.conts :
               disk.dirs[c] = "stopped" /\ faulted # {}

\* The container of the operation is in memory, with that state.
Made(state) == cur \in DOMAIN mem.conts /\ mem.conts[cur] = state

\* What remains of an operation that has changed nothing the files hold.
StoredPlans ==
    {<<"setRunning", "start", "store">>, <<"start", "store">>, <<"stop", "revert">>, <<"revert">>,
     <<"start", "store", "resize">>, <<"resize">>, <<"stop">>}

\* What remains of one that will store what it has changed, or delete the sandbox.
FreePlans ==
    {<<"startVM", "create", "store">>, <<"store">>, <<"store", "resize">>, <<"save">>,
     <<"save", "store">>, <<"save", "revert">>, <<"pause", "store">>, <<"resume", "store">>,
     <<"stop", "store">>, <<"remove", "store", "unconfig", "store">>,
     <<"store", "unconfig", "store">>, <<"unconfig", "store">>,
     <<"stopVM", "removeAll", "destroy">>, <<"removeAll", "destroy">>,
     <<"save", "removeAll", "destroy">>, <<"destroy">>,
     <<"stopAll", "stopVM", "setStopped", "store", "end", "removeAll", "destroy">>,
     <<"save", "stopAll", "stopVM", "setStopped", "store", "end", "removeAll", "destroy">>,
     <<"stopVM", "setStopped", "store", "end", "removeAll", "destroy">>,
     <<"setStopped", "store", "end", "removeAll", "destroy">>,
     <<"store", "end", "removeAll", "destroy">>, <<"end", "removeAll", "destroy">>}

\* How far memory and files may be apart, for what remains of the operation.
PlanInv ==
    \/ todo = <<>> /\ (mem.state \notin {"", "deleted"} => StoredBut({}))
    \/ todo \in StoredPlans /\ undo = <<>> /\ StoredBut({})
    \/ todo \in FreePlans /\ undo = <<>>
    \/ todo \in {<<"create", "store">>, <<"store">>} /\ undo = UndoSandbox
    \/ /\ todo = <<"config", "create", "resize", "store">> /\ undo = <<>>
       /\ cur # Pod /\ StoredBut({})
    \/ /\ todo = <<"create", "resize", "store">> /\ undo = UndoConfig
       /\ cur # Pod /\ StoredBut({cur})
    \/ todo = <<"unconfig">> /\ undo = <<>> /\ StoredBut({cur})
    \/ todo \in {<<"resize", "store">>, <<"store">>} /\ undo = UndoContainer /\ Made("ready")
    \/ todo = <<"stop", "remove", "unconfig">> /\ undo = <<>> /\ Made("ready") /\ faulted # {}
    \/ todo = <<"save", "remove", "unconfig">> /\ undo = <<>> /\ Made("stopped") /\ faulted # {}
    \/ /\ todo = <<"remove", "unconfig">> /\ undo = <<>> /\ Made("stopped") /\ faulted # {}
       /\ StoredBut({})

\* The part of it for the steps that write the files, which says nothing of them.
WritePlan ==
    \/ /\ undo = <<>>
       /\ todo \in {<<"store">>, <<"store", "resize">>, <<"save">>, <<"save", "store">>,
                   <<"save", "revert">>, <<"store", "unconfig", "store">>,
                   <<"save", "removeAll", "destroy">>, <<"store", "end", "removeAll", "destroy">>,
                   <<"save", "stopAll", "stopVM", "setStopped", "store", "end", "removeAll",
                     "destroy">>}
    \/ todo = <<"store">> /\ undo = UndoSandbox
    \/ todo = <<"store">> /\ undo = UndoContainer /\ Made("ready")
    \/ todo = <<"save", "remove", "unconfig">> /\ undo = <<>> /\ Made("stopped") /\ faulted # {}

\* What a Save under way has written.
SavingInv ==
    saving.on =>
        /\ todo # <<>> /\ Head(todo) \in {"store", "save"}
        /\ disk.file \in {Torn, "whole"}
        /\ saving.left \subseteq DOMAIN mem.conts
        /\ disk.file = Torn => saving.left = DOMAIN mem.conts
        /\ disk.file = "whole" =>
              /\ disk.config = mem.config
              /\ \A c \in DOMAIN mem.conts \ saving.left :
                     c \in DOMAIN disk.dirs /\ disk.dirs[c] = mem.conts[c]

\* Memory, the directory and the progress of a Save are records of their fields.
MemShape(m) == m = [state |-> m.state, config |-> m.config, conts |-> m.conts]
DiskShape(d) == d = [file |-> d.file, state |-> d.state, config |-> d.config, dirs |-> d.dirs]
SavingShape(s) == s = [on |-> s.on, left |-> s.left]
Shape == MemShape(mem) /\ DiskShape(disk) /\ SavingShape(saving)

StoreInv == Shape /\ (shim = "up" => PlanInv /\ SavingInv)

-----------------------------------------------------------------------------
(* Facts about the steps.                                                   *)

\* A sequence of steps by its first one and the others.
Parts(t, first, rest) == t # <<>> /\ Head(t) = first /\ Tail(t) = rest

\* The first step and the others of every sequence of the invariant.
LEMMA PlanParts ==
    /\ Parts(<<"startVM", "create", "store">>, "startVM", <<"create", "store">>)
    /\ Parts(<<"create", "store">>, "create", <<"store">>)
    /\ Parts(<<"store">>, "store", <<>>)
    /\ Parts(<<"setRunning", "start", "store">>, "setRunning", <<"start", "store">>)
    /\ Parts(<<"start", "store">>, "start", <<"store">>)
    /\ Parts(<<"stop", "revert">>, "stop", <<"revert">>)
    /\ Parts(<<"revert">>, "revert", <<>>)
    /\ Parts(<<"config", "create", "resize", "store">>, "config", <<"create", "resize", "store">>)
    /\ Parts(<<"create", "resize", "store">>, "create", <<"resize", "store">>)
    /\ Parts(<<"resize", "store">>, "resize", <<"store">>)
    /\ Parts(<<"start", "store", "resize">>, "start", <<"store", "resize">>)
    /\ Parts(<<"store", "resize">>, "store", <<"resize">>)
    /\ Parts(<<"resize">>, "resize", <<>>)
    /\ Parts(<<"stop">>, "stop", <<>>)
    /\ Parts(<<"save">>, "save", <<>>)
    /\ Parts(<<"save", "store">>, "save", <<"store">>)
    /\ Parts(<<"save", "revert">>, "save", <<"revert">>)
    /\ Parts(<<"pause", "store">>, "pause", <<"store">>)
    /\ Parts(<<"resume", "store">>, "resume", <<"store">>)
    /\ Parts(<<"stop", "store">>, "stop", <<"store">>)
    /\ Parts(<<"remove", "store", "unconfig", "store">>, "remove", <<"store", "unconfig", "store">>)
    /\ Parts(<<"store", "unconfig", "store">>, "store", <<"unconfig", "store">>)
    /\ Parts(<<"unconfig", "store">>, "unconfig", <<"store">>)
    /\ Parts(<<"unconfig">>, "unconfig", <<>>)
    /\ Parts(<<"stop", "remove", "unconfig">>, "stop", <<"remove", "unconfig">>)
    /\ Parts(<<"save", "remove", "unconfig">>, "save", <<"remove", "unconfig">>)
    /\ Parts(<<"remove", "unconfig">>, "remove", <<"unconfig">>)
    /\ Parts(<<"stopVM", "removeAll", "destroy">>, "stopVM", <<"removeAll", "destroy">>)
    /\ Parts(<<"removeAll", "destroy">>, "removeAll", <<"destroy">>)
    /\ Parts(<<"save", "removeAll", "destroy">>, "save", <<"removeAll", "destroy">>)
    /\ Parts(<<"destroy">>, "destroy", <<>>)
    /\ Parts(<<"stopAll", "stopVM", "setStopped", "store", "end", "removeAll", "destroy">>, "stopAll",
             <<"stopVM", "setStopped", "store", "end", "removeAll", "destroy">>)
    /\ Parts(<<"save", "stopAll", "stopVM", "setStopped", "store", "end", "removeAll", "destroy">>, "save",
             <<"stopAll", "stopVM", "setStopped", "store", "end", "removeAll", "destroy">>)
    /\ Parts(<<"stopVM", "setStopped", "store", "end", "removeAll", "destroy">>, "stopVM",
             <<"setStopped", "store", "end", "removeAll", "destroy">>)
    /\ Parts(<<"setStopped", "store", "end", "removeAll", "destroy">>, "setStopped",
             <<"store", "end", "removeAll", "destroy">>)
    /\ Parts(<<"store", "end", "removeAll", "destroy">>, "store", <<"end", "removeAll", "destroy">>)
    /\ Parts(<<"end", "removeAll", "destroy">>, "end", <<"removeAll", "destroy">>)
  BY SMT DEF Parts

\* What remains of an operation, by the step it is at.
LEMMA AtStartVM ==
    ASSUME PlanInv, At("startVM")
    PROVE  undo = <<>> /\ Tail(todo) = <<"create", "store">>
<1>1. todo # <<>> => (Head(todo) = "startVM" =>
          undo = <<>> /\ Tail(todo) = <<"create", "store">>)
  BY PlanParts, ZenonT(90) DEF PlanInv, Parts, StoredPlans, FreePlans
<1> QED BY <1>1, Zenon DEF At

LEMMA AtCreate ==
    ASSUME PlanInv, At("create")
    PROVE  \/ undo = UndoSandbox /\ todo = <<"create", "store">> /\ Tail(todo) = <<"store">>
           \/ /\ undo = UndoConfig /\ cur # Pod /\ StoredBut({cur})
              /\ todo = <<"create", "resize", "store">> /\ Tail(todo) = <<"resize", "store">>
<1>1. todo # <<>> => (Head(todo) = "create" =>
          \/ undo = UndoSandbox /\ todo = <<"create", "store">> /\ Tail(todo) = <<"store">>
          \/ /\ undo = UndoConfig /\ cur # Pod /\ StoredBut({cur})
             /\ todo = <<"create", "resize", "store">> /\ Tail(todo) = <<"resize", "store">>)
  BY PlanParts, ZenonT(90) DEF PlanInv, Parts, StoredPlans, FreePlans
<1> QED BY <1>1, Zenon DEF At

LEMMA AtSetRunning ==
    ASSUME PlanInv, At("setRunning")
    PROVE  undo = <<>> /\ StoredBut({}) /\ Tail(todo) = <<"start", "store">>
<1>1. todo # <<>> => (Head(todo) = "setRunning" =>
          undo = <<>> /\ StoredBut({}) /\ Tail(todo) = <<"start", "store">>)
  BY PlanParts, ZenonT(90) DEF PlanInv, Parts, StoredPlans, FreePlans
<1> QED BY <1>1, Zenon DEF At

LEMMA AtStart ==
    ASSUME PlanInv, At("start")
    PROVE  /\ undo = <<>> /\ StoredBut({})
           /\ \/ todo = <<"start", "store">> /\ Tail(todo) = <<"store">>
              \/ todo = <<"start", "store", "resize">> /\ Tail(todo) = <<"store", "resize">>
<1>1. todo # <<>> => (Head(todo) = "start" =>
          /\ undo = <<>> /\ StoredBut({})
          /\ \/ todo = <<"start", "store">> /\ Tail(todo) = <<"store">>
             \/ todo = <<"start", "store", "resize">> /\ Tail(todo) = <<"store", "resize">>)
  BY PlanParts, ZenonT(90) DEF PlanInv, Parts, StoredPlans, FreePlans
<1> QED BY <1>1, Zenon DEF At

LEMMA AtStop ==
    ASSUME PlanInv, At("stop")
    PROVE  /\ undo = <<>>
           /\ \/ StoredBut({}) /\ Tail(todo) \in {<<"revert">>, <<>>}
              \/ Tail(todo) = <<"store">>
              \/ Made("ready") /\ faulted # {} /\ Tail(todo) = <<"remove", "unconfig">>
<1>1. todo # <<>> => (Head(todo) = "stop" =>
          /\ undo = <<>>
          /\ \/ StoredBut({}) /\ Tail(todo) \in {<<"revert">>, <<>>}
             \/ Tail(todo) = <<"store">>
             \/ Made("ready") /\ faulted # {} /\ Tail(todo) = <<"remove", "unconfig">>)
  BY PlanParts, ZenonT(90) DEF PlanInv, Parts, StoredPlans, FreePlans
<1> QED BY <1>1, Zenon DEF At

LEMMA AtRevert ==
    ASSUME PlanInv, At("revert")
    PROVE  undo = <<>> /\ StoredBut({}) /\ Tail(todo) = <<>>
<1>1. todo # <<>> => (Head(todo) = "revert" =>
          undo = <<>> /\ StoredBut({}) /\ Tail(todo) = <<>>)
  BY PlanParts, ZenonT(90) DEF PlanInv, Parts, StoredPlans, FreePlans
<1> QED BY <1>1, Zenon DEF At

LEMMA AtConfig ==
    ASSUME PlanInv, At("config")
    PROVE  /\ undo = <<>> /\ cur # Pod /\ StoredBut({})
           /\ Tail(todo) = <<"create", "resize", "store">>
<1>1. todo # <<>> => (Head(todo) = "config" =>
          /\ undo = <<>> /\ cur # Pod /\ StoredBut({})
          /\ Tail(todo) = <<"create", "resize", "store">>)
  BY PlanParts, ZenonT(90) DEF PlanInv, Parts, StoredPlans, FreePlans
<1> QED BY <1>1, Zenon DEF At

LEMMA AtUnconfig ==
    ASSUME PlanInv, At("unconfig")
    PROVE  /\ undo = <<>>
           /\ (StoredBut({cur}) /\ Tail(todo) = <<>>) \/ Tail(todo) = <<"store">>
<1>1. todo # <<>> => (Head(todo) = "unconfig" =>
          /\ undo = <<>>
          /\ (StoredBut({cur}) /\ Tail(todo) = <<>>) \/ Tail(todo) = <<"store">>)
  BY PlanParts, ZenonT(90) DEF PlanInv, Parts, StoredPlans, FreePlans
<1> QED BY <1>1, Zenon DEF At

LEMMA AtResize ==
    ASSUME PlanInv, At("resize")
    PROVE  \/ undo = <<>> /\ StoredBut({}) /\ todo = <<"resize">> /\ Tail(todo) = <<>>
           \/ /\ undo = UndoContainer /\ Made("ready")
              /\ todo = <<"resize", "store">> /\ Tail(todo) = <<"store">>
<1>1. todo # <<>> => (Head(todo) = "resize" =>
          \/ undo = <<>> /\ StoredBut({}) /\ todo = <<"resize">> /\ Tail(todo) = <<>>
          \/ /\ undo = UndoContainer /\ Made("ready")
             /\ todo = <<"resize", "store">> /\ Tail(todo) = <<"store">>)
  BY PlanParts, ZenonT(90) DEF PlanInv, Parts, StoredPlans, FreePlans
<1> QED BY <1>1, Zenon DEF At

LEMMA AtPause ==
    ASSUME PlanInv, At("pause") \/ At("resume")
    PROVE  undo = <<>> /\ Tail(todo) = <<"store">>
<1>1. todo # <<>> => (Head(todo) = "pause" \/ Head(todo) = "resume" =>
          undo = <<>> /\ Tail(todo) = <<"store">>)
  BY PlanParts, ZenonT(90) DEF PlanInv, Parts, StoredPlans, FreePlans
<1> QED BY <1>1, Zenon DEF At

LEMMA AtRemove ==
    ASSUME PlanInv, At("remove")
    PROVE  /\ undo = <<>>
           /\ \/ Tail(todo) = <<"store", "unconfig", "store">>
              \/ /\ Made("stopped") /\ faulted # {} /\ StoredBut({})
                 /\ Tail(todo) = <<"unconfig">>
<1>1. todo # <<>> => (Head(todo) = "remove" =>
          /\ undo = <<>>
          /\ \/ Tail(todo) = <<"store", "unconfig", "store">>
             \/ /\ Made("stopped") /\ faulted # {} /\ StoredBut({})
                /\ Tail(todo) = <<"unconfig">>)
  BY PlanParts, ZenonT(90) DEF PlanInv, Parts, StoredPlans, FreePlans
<1> QED BY <1>1, Zenon DEF At

LEMMA AtStopAll ==
    ASSUME PlanInv, At("stopAll")
    PROVE  /\ undo = <<>>
           /\ todo = <<"stopAll", "stopVM", "setStopped", "store", "end", "removeAll", "destroy">>
           /\ Tail(todo) = <<"stopVM", "setStopped", "store", "end", "removeAll", "destroy">>
<1>1. todo # <<>> => (Head(todo) = "stopAll" =>
          /\ undo = <<>>
          /\ todo = <<"stopAll", "stopVM", "setStopped", "store", "end", "removeAll", "destroy">>
          /\ Tail(todo) = <<"stopVM", "setStopped", "store", "end", "removeAll", "destroy">>)
  BY PlanParts, ZenonT(90) DEF PlanInv, Parts, StoredPlans, FreePlans
<1> QED BY <1>1, Zenon DEF At

LEMMA AtStopVM ==
    ASSUME PlanInv, At("stopVM")
    PROVE  /\ undo = <<>>
           /\ Tail(todo) \in {<<"removeAll", "destroy">>,
                              <<"setStopped", "store", "end", "removeAll", "destroy">>}
<1>1. todo # <<>> => (Head(todo) = "stopVM" =>
          /\ undo = <<>>
          /\ Tail(todo) \in {<<"removeAll", "destroy">>,
                             <<"setStopped", "store", "end", "removeAll", "destroy">>})
  BY PlanParts, ZenonT(90) DEF PlanInv, Parts, StoredPlans, FreePlans
<1> QED BY <1>1, Zenon DEF At

LEMMA AtSetStopped ==
    ASSUME PlanInv, At("setStopped")
    PROVE  undo = <<>> /\ Tail(todo) = <<"store", "end", "removeAll", "destroy">>
<1>1. todo # <<>> => (Head(todo) = "setStopped" =>
          undo = <<>> /\ Tail(todo) = <<"store", "end", "removeAll", "destroy">>)
  BY PlanParts, ZenonT(90) DEF PlanInv, Parts, StoredPlans, FreePlans
<1> QED BY <1>1, Zenon DEF At

LEMMA AtEnd ==
    ASSUME PlanInv, At("end")
    PROVE  Tail(todo) = <<"removeAll", "destroy">>
<1>1. todo # <<>> => (Head(todo) = "end" =>
          Tail(todo) = <<"removeAll", "destroy">>)
  BY PlanParts, ZenonT(90) DEF PlanInv, Parts, StoredPlans, FreePlans
<1> QED BY <1>1, Zenon DEF At

LEMMA AtRemoveAll ==
    ASSUME PlanInv, At("removeAll")
    PROVE  undo = <<>> /\ todo = <<"removeAll", "destroy">> /\ Tail(todo) = <<"destroy">>
<1>1. todo # <<>> => (Head(todo) = "removeAll" =>
          undo = <<>> /\ todo = <<"removeAll", "destroy">> /\ Tail(todo) = <<"destroy">>)
  BY PlanParts, ZenonT(90) DEF PlanInv, Parts, StoredPlans, FreePlans
<1> QED BY <1>1, Zenon DEF At

LEMMA AtDestroy ==
    ASSUME PlanInv, At("destroy")
    PROVE  Tail(todo) = <<>>
<1>1. todo # <<>> => (Head(todo) = "destroy" =>
          Tail(todo) = <<>>)
  BY PlanParts, ZenonT(90) DEF PlanInv, Parts, StoredPlans, FreePlans
<1> QED BY <1>1, Zenon DEF At

LEMMA AtWrite ==
    ASSUME PlanInv, todo # <<>> /\ Head(todo) \in {"store", "save"}
    PROVE  WritePlan
  BY PlanParts, ZenonT(90) DEF PlanInv, At, Parts, StoredPlans, FreePlans, WritePlan

\* The steps of the clean-up after a crash are none of the running shim's.
LEMMA AtCleanUp ==
    ASSUME PlanInv
    PROVE  ~At("last") /\ todo # <<"return">>
<1>1. todo # <<>> => Head(todo) \notin {"last", "return"}
  BY PlanParts, ZenonT(90) DEF PlanInv, Parts, StoredPlans, FreePlans
<1>2. <<"return">> # <<>> /\ Head(<<"return">>) = "return" BY SMT
<1> QED BY <1>1, <1>2, Zenon DEF At

\* The steps that write the files are steps of an operation.
LEMMA WritePlanIsPlan == ASSUME WritePlan PROVE PlanInv
  BY Zenon DEF PlanInv, WritePlan, FreePlans

-----------------------------------------------------------------------------
(* Records and functions.                                                   *)

\* An assignment to one field of the sandbox in memory.
LEMMA MemFields ==
    ASSUME MemShape(mem), NEW x
    PROVE  /\ [mem EXCEPT !.state = x].state = x
           /\ [mem EXCEPT !.state = x].config = mem.config
           /\ [mem EXCEPT !.state = x].conts = mem.conts
           /\ [mem EXCEPT !.config = x].state = mem.state
           /\ [mem EXCEPT !.config = x].config = x
           /\ [mem EXCEPT !.config = x].conts = mem.conts
           /\ [mem EXCEPT !.conts = x].state = mem.state
           /\ [mem EXCEPT !.conts = x].config = mem.config
           /\ [mem EXCEPT !.conts = x].conts = x
           /\ MemShape([mem EXCEPT !.state = x]) /\ MemShape([mem EXCEPT !.config = x])
           /\ MemShape([mem EXCEPT !.conts = x])
  BY SMT DEF MemShape

\* An assignment to one field of the directory.
LEMMA DiskFields ==
    ASSUME DiskShape(disk), NEW x
    PROVE  /\ [disk EXCEPT !.file = x].file = x
           /\ [disk EXCEPT !.dirs = x].file = disk.file
           /\ [disk EXCEPT !.dirs = x].config = disk.config
           /\ [disk EXCEPT !.dirs = x].dirs = x
           /\ DiskShape([disk EXCEPT !.file = x]) /\ DiskShape([disk EXCEPT !.dirs = x])
  BY SMT DEF DiskShape

\* Records that are written as a whole.
LEMMA WholeRecords ==
    ASSUME NEW f, NEW s, NEW g, NEW h
    PROVE  /\ MemShape([state |-> s, config |-> g, conts |-> h])
           /\ DiskShape([file |-> f, state |-> s, config |-> g, dirs |-> h])
           /\ SavingShape([on |-> f, left |-> s])
  BY SMT DEF MemShape, DiskShape, SavingShape

\* A container is written.
LEMMA SavingFields ==
    ASSUME SavingShape(saving), NEW x
    PROVE  /\ [saving EXCEPT !.left = x].on = saving.on
           /\ [saving EXCEPT !.left = x].left = x
           /\ SavingShape([saving EXCEPT !.left = x])
  BY SMT DEF SavingShape

\* A container is added to a function, or given a new value there.
LEMMA WithFacts ==
    ASSUME NEW f, NEW x, NEW v
    PROVE  /\ DOMAIN With(f, x, v) = DOMAIN f \cup {x} /\ With(f, x, v)[x] = v
           /\ \A y \in DOMAIN f : y # x => With(f, x, v)[y] = f[y]
  BY SMT DEF With

\* A container is removed.
LEMMA WithoutFacts ==
    ASSUME NEW f, NEW x
    PROVE  /\ DOMAIN Without(f, x) = DOMAIN f \ {x}
           /\ \A y \in DOMAIN f : y # x => Without(f, x)[y] = f[y]
  BY SMT DEF Without, Restrict

-----------------------------------------------------------------------------
(* The shape of the records.                                                *)

LEMMA ShapeInit == Init => Shape
<1>1. MemShape(NoMem) BY WholeRecords, Zenon DEF NoMem
<1>2. DiskShape(NoDisk) BY WholeRecords, Zenon DEF NoDisk
<1>3. SavingShape(NotSaving) BY WholeRecords, Zenon DEF NotSaving
<1> QED BY <1>1, <1>2, <1>3, Zenon DEF Init, Shape

LEMMA ShapeNext == ASSUME Shape, [Next]_vars PROVE Shape'
<1>0. MemShape(mem) /\ DiskShape(disk) /\ SavingShape(saving) BY Zenon DEF Shape
<1>1. MemShape(mem')
  <2>1. \A x : /\ MemShape([mem EXCEPT !.state = x]) /\ MemShape([mem EXCEPT !.config = x])
               /\ MemShape([mem EXCEPT !.conts = x])
    BY <1>0, MemFields, Zenon
  <2>2. CASE UNCHANGED mem BY <1>0, <2>2, Zenon
  <2>3. CASE ~UNCHANGED mem
    <3>1. CASE Calls
      BY <2>3, <3>1, Zenon DEF Calls, CreateSandbox, StartSandbox, StopAndDeleteSandbox,
         CreateContainer, OnContainer, StartContainer, StopContainer, PauseContainer,
         ResumeContainer, DeleteContainer, RemoveBundle, Call
    <3>2. CASE Failures
      BY <2>3, <3>2, WholeRecords, Zenon DEF Failures, CreateFails, ResizeFails, StartFails, StopFails,
         SaveFails, Crash, RestoreFails, StepFails, Do, Write, NoMem
    <3>3. CASE \E c \in Ids : CleanupContainer(c)
      BY <3>3, WholeRecords, ZenonT(40) DEF CleanupContainer, fetchSandbox
    <3>4. CASE Steps
      <4>1. CASE StartVM BY <4>1, WholeRecords, Zenon DEF StartVM, Do
      <4>2. CASE SetRunning \/ SetStopped \/ Revert \/ Destroy
        BY <2>1, <4>2, Zenon DEF SetRunning, SetStopped, Revert, Step, Do, Destroy
      <4>3. CASE Config \/ Unconfig BY <2>1, <4>3, Zenon DEF Config, Unconfig, Step, Do
      <4>4. CASE Create \/ Start \/ Pause \/ Resume
        BY <2>1, <4>4, Zenon DEF Create, Start, Pause, Resume, SetState, Step, Do
      <4>5. CASE Stop \/ StopAll
        BY <2>1, <2>3, <4>5, Zenon DEF Stop, StopAll, StopOf, SetState, Step, Do
      <4>6. CASE Remove \/ RemoveAll
        BY <2>1, <2>3, <4>6, Zenon DEF Remove, RemoveAll, Step, Do
      <4>7. CASE Return BY <4>7, WholeRecords, Zenon DEF Return, NoMem
      <4>8. CASE StopVM \/ End \/ Resize \/ Last
        BY <2>3, <4>8, Zenon DEF StopVM, End, Resize, Last, Step, Do
      <4>9. CASE SaveBegins \/ SaveSandbox \/ SaveEnds \/ \E c \in Ids : SaveContainer(c) \/ SaveRemoves(c)
        BY <2>3, <4>9, Zenon DEF SaveBegins, SaveSandbox, SaveEnds, SaveContainer, SaveRemoves,
           Saves, Write
      <4> QED BY <3>4, <4>1, <4>2, <4>3, <4>4, <4>5, <4>6, <4>7, <4>8, <4>9, Zenon DEF Steps
    <3> QED BY <2>3, <3>1, <3>2, <3>3, <3>4, Zenon DEF Next, vars
  <2> QED BY <2>2, <2>3, Zenon
<1>2. DiskShape(disk') /\ SavingShape(saving')
  <2>1. CASE UNCHANGED <<disk, saving>> BY <1>0, <2>1, Zenon
  <2>2. CASE ~UNCHANGED <<disk, saving>>
    <3>a. \A x : DiskShape([disk EXCEPT !.file = x]) /\ DiskShape([disk EXCEPT !.dirs = x])
      BY <1>0, DiskFields, Zenon
    <3>b. DiskShape(NoDisk) BY WholeRecords, Zenon DEF NoDisk
    <3>c. SavingShape(NotSaving) BY WholeRecords, Zenon DEF NotSaving
    <3>1. CASE Calls
      BY <2>2, <3>1, ZenonT(40) DEF Calls, CreateSandbox, StartSandbox, StopAndDeleteSandbox,
         CreateContainer, OnContainer, StartContainer, StopContainer, PauseContainer,
         ResumeContainer, DeleteContainer, RemoveBundle, Call
    <3>2. CASE CreateFails \/ ResizeFails \/ StartFails \/ StopFails
      BY <2>2, <3>2, Zenon DEF CreateFails, ResizeFails, StartFails, StopFails, StepFails, Do
    <3>3. CASE SaveFails BY <3>b, <3>c, <3>3, Zenon DEF SaveFails, Write
    <3>4. CASE Crash BY <1>0, <3>c, <3>4, Zenon DEF Crash
    <3>5. CASE \E c \in Ids : RestoreFails(c) BY <1>0, <3>b, <3>5, Zenon DEF RestoreFails
    <3>6. CASE \E c \in Ids : CleanupContainer(c) BY <2>2, <3>6, Zenon DEF CleanupContainer
    <3>7. CASE Destroy BY <1>0, <3>b, <3>7, Zenon DEF Destroy
    <3>8. CASE SaveBegins BY <3>a, <3>8, WholeRecords, Zenon DEF SaveBegins, Write
    <3>9. CASE SaveSandbox
      BY <1>0, <3>9, WholeRecords, Zenon DEF SaveSandbox, Saves, Write
    <3>10. CASE SaveEnds BY <1>0, <3>c, <3>10, Zenon DEF SaveEnds, Saves, Write
    <3>11. ASSUME NEW c \in Ids, SaveContainer(c) PROVE DiskShape(disk') /\ SavingShape(saving')
      <4>1. \A x : SavingShape([saving EXCEPT !.left = x]) BY <1>0, SavingFields, Zenon
      <4>2. CASE IsTorn(c) BY <3>a, <3>11, <4>1, <4>2, Zenon DEF SaveContainer, Saves, Write
      <4>3. CASE ~IsTorn(c) BY <1>0, <3>a, <3>11, <4>3, Zenon DEF SaveContainer, Saves, Write
      <4> QED BY <4>2, <4>3, Zenon
    <3>12. ASSUME NEW c \in Ids, SaveRemoves(c) PROVE DiskShape(disk') /\ SavingShape(saving')
      <4>1. disk' = [disk EXCEPT !.dirs = Without(disk.dirs, c)] /\ saving' = saving
        BY <3>12, Zenon DEF SaveRemoves, Saves, Write
      <4> QED BY <1>0, <3>a, <4>1, Zenon
    <3>13. CASE StartVM \/ StopVM \/ SetRunning \/ SetStopped \/ Revert \/ End \/ Config \/ Unconfig
                \/ Create \/ Resize \/ Start \/ Pause \/ Resume \/ Stop \/ StopAll \/ Remove
                \/ RemoveAll \/ Last
      BY <2>2, <3>13, Zenon DEF StartVM, StopVM, SetRunning, SetStopped, Revert, End, Config, Unconfig,
         Create, Resize, Start, Pause, Resume, Stop, StopAll, StopOf, Remove, RemoveAll, Last, Step, Do
    <3>14. CASE Return BY <2>2, <3>14, Zenon DEF Return
    <3> QED BY <2>2, <3>1, <3>2, <3>3, <3>4, <3>5, <3>6, <3>7, <3>8, <3>9, <3>10, <3>11, <3>12, <3>13,
               <3>14, Zenon DEF Next, Steps, Failures, vars
  <2> QED BY <2>1, <2>2, Zenon
<1> QED BY <1>1, <1>2, Zenon DEF Shape

-----------------------------------------------------------------------------
(* The calls of containerd, and the steps in memory.                        *)

LEMMA CallsPlan ==
    ASSUME PlanInv, Calls, shim = "up"
    PROVE  PlanInv'
<1>1. CASE CreateSandbox
  BY <1>1, Zenon DEF CreateSandbox, Call, CreateSandboxSteps, PlanInv, FreePlans
<1>2. ASSUME Idle, mem.state \notin {"", "deleted"}, UNCHANGED <<disk, mem, faulted>>
      PROVE  StoredBut({}) /\ StoredBut({})'
  <2>1. StoredBut({}) BY <1>2, PlanParts, ZenonT(90) DEF PlanInv, Idle, StoredPlans, FreePlans, Parts
  <2> QED BY <1>2, <2>1, Zenon DEF StoredBut
<1>3. mem.state \in {"ready", "running"} => mem.state \notin {"", "deleted"} BY Zenon
<1>4. CASE StartSandbox
  BY <1>2, <1>3, <1>4, Zenon DEF StartSandbox, Call, StartSandboxSteps, PlanInv, StoredPlans
<1>5. CASE StopAndDeleteSandbox
  <2>1. undo' = <<>> /\ todo' = StopSandboxSteps \o <<"end">> \o DeleteSandboxSteps
    BY <1>5, Zenon DEF StopAndDeleteSandbox, Call
  <2> QED BY <2>1, StopAndDelete, Zenon DEF PlanInv, FreePlans
<1>6. ASSUME NEW c \in Ids, CreateContainer(c) PROVE PlanInv'
  <2>1. /\ cur' = c /\ c # Pod /\ undo' = <<>> /\ todo' = <<"config", "create", "resize", "store">>
        /\ Idle /\ mem.state = "running" /\ UNCHANGED <<disk, mem, faulted>>
    BY <1>6, PodAssumption, Zenon DEF CreateContainer, Call, CreateContainerSteps
  <2>2. StoredBut({})' BY <1>2, <1>3, <2>1, Zenon
  <2> QED BY <2>1, <2>2, Zenon DEF PlanInv
<1>7. ASSUME NEW c \in Ids, StartContainer(c) PROVE PlanInv'
  <2>1. /\ undo' = <<>> /\ todo' = <<"start", "store", "resize">>
        /\ Idle /\ mem.state = "running" /\ UNCHANGED <<disk, mem, faulted>>
    BY <1>7, Zenon DEF StartContainer, OnContainer, Call, StartContainerSteps
  <2>2. StoredBut({})' BY <1>2, <1>3, <2>1, Zenon
  <2> QED BY <2>1, <2>2, Zenon DEF PlanInv, StoredPlans
<1>8. ASSUME NEW c \in Ids, StopContainer(c) \/ PauseContainer(c) \/ ResumeContainer(c) \/ DeleteContainer(c)
      PROVE  PlanInv'
  BY <1>8, Zenon DEF StopContainer, PauseContainer, ResumeContainer, DeleteContainer, OnContainer, Call,
     StopContainerSteps, DeleteContainerSteps, PlanInv, FreePlans
<1>9. ASSUME NEW c \in Ids, RemoveBundle(c) PROVE PlanInv'
  <2>1. todo = <<>> /\ todo' = <<>> /\ UNCHANGED <<disk, mem, faulted>> /\ Idle
    BY <1>9, Zenon DEF RemoveBundle, Idle
  <2>2. mem.state \notin {"", "deleted"} => StoredBut({})' BY <1>2, <2>1, Zenon
  <2> QED BY <2>1, <2>2, Zenon DEF PlanInv
<1> QED BY <1>1, <1>4, <1>5, <1>6, <1>7, <1>8, <1>9, Zenon DEF Calls

\* Memory may change its state, and faults may happen, without the files.
LEMMA StoredFrame ==
    ASSUME mem'.config = mem.config, mem'.conts = mem.conts, disk' = disk,
           faulted # {} => faulted' # {}
    PROVE  /\ StoredBut({}) => StoredBut({})'
           /\ cur' = cur /\ StoredBut({cur}) => StoredBut({cur})'
  BY Zenon DEF StoredBut

LEMMA StatePlan ==
    ASSUME Shape, PlanInv, StartVM \/ StopVM \/ SetRunning \/ SetStopped \/ Revert \/ End \/ Resize
    PROVE  PlanInv'
<1>0. \A x : /\ [mem EXCEPT !.state = x].config = mem.config
             /\ [mem EXCEPT !.state = x].conts = mem.conts
  BY MemFields, Zenon DEF Shape
<1>1. CASE StartVM
  BY <1>1, AtStartVM, Zenon DEF StartVM, Do, PlanInv, UndoSandbox
<1>2. CASE StopVM
  <2>1. undo' = <<>> /\ todo' = Tail(todo) BY <1>2, AtStopVM, Zenon DEF StopVM, Do
  <2> QED BY <1>2, <2>1, AtStopVM, Zenon DEF StopVM, Do, PlanInv, FreePlans
<1>3. CASE SetRunning
  <2>1. undo' = <<>> /\ StoredBut({}) /\ todo' = <<"start", "store">>
    BY <1>3, AtSetRunning, Zenon DEF SetRunning, Step, Do
  <2>2. StoredBut({})' BY <1>0, <1>3, <2>1, StoredFrame, Zenon DEF SetRunning, Step, Do
  <2> QED BY <2>1, <2>2, Zenon DEF PlanInv, StoredPlans
<1>4. CASE SetStopped
  BY <1>4, AtSetStopped, Zenon DEF SetStopped, Step, Do, PlanInv, FreePlans
<1>5. CASE Revert
  <2>1. StoredBut({}) /\ todo' = <<>> BY <1>5, AtRevert, Zenon DEF Revert, Step, Do
  <2>2. StoredBut({})' BY <1>0, <1>5, <2>1, StoredFrame, Zenon DEF Revert, Step, Do
  <2> QED BY <2>1, <2>2, Zenon DEF PlanInv
<1>6. CASE End BY <1>6, AtEnd, Zenon DEF End, Do, PlanInv, FreePlans
<1>7. CASE Resize
  <2>1. At("resize") /\ todo' = Tail(todo) /\ UNCHANGED <<mem, disk, undo, cur, faulted>>
    BY <1>7, Zenon DEF Resize, Step, Do
  <2>2. CASE undo = <<>> /\ StoredBut({}) /\ Tail(todo) = <<>>
    <3>1. StoredBut({})' BY <2>1, <2>2, StoredFrame, Zenon
    <3> QED BY <2>1, <2>2, <3>1, Zenon DEF PlanInv
  <2>3. CASE undo = UndoContainer /\ Made("ready") /\ Tail(todo) = <<"store">>
    <3>1. Made("ready")' BY <2>1, <2>3, Zenon DEF Made
    <3> QED BY <2>1, <2>3, <3>1, Zenon DEF PlanInv
  <2> QED BY <2>1, <2>2, <2>3, AtResize, Zenon
<1> QED BY <1>1, <1>2, <1>3, <1>4, <1>5, <1>6, <1>7, Zenon

LEMMA ConfigPlan == ASSUME Shape, PlanInv, Config \/ Unconfig PROVE PlanInv'
<1>0. \A x : /\ [mem EXCEPT !.config = x].config = x
             /\ [mem EXCEPT !.config = x].conts = mem.conts
  BY MemFields, Zenon DEF Shape
<1>1. CASE Config
  <2>1. /\ At("config") /\ todo' = Tail(todo) /\ undo' = <<"unconfig">>
        /\ mem'.config = mem.config \cup {cur} /\ mem'.conts = mem.conts
        /\ UNCHANGED <<disk, cur, faulted>>
    BY <1>0, <1>1, Zenon DEF Config, Do
  <2>2. cur # Pod /\ StoredBut({}) /\ Tail(todo) = <<"create", "resize", "store">>
    BY <2>1, AtConfig, Zenon
  <2>3. StoredBut({cur})' BY <2>1, <2>2, Zenon DEF StoredBut
  <2> QED BY <2>1, <2>2, <2>3, Zenon DEF PlanInv, UndoConfig
<1>2. CASE Unconfig
  <2>1. /\ At("unconfig") /\ todo' = Tail(todo)
        /\ mem'.config = mem.config \ {cur} /\ mem'.conts = mem.conts
        /\ UNCHANGED <<disk, cur, faulted, undo>>
    BY <1>0, <1>2, Zenon DEF Unconfig, Step, Do
  <2>2. CASE StoredBut({cur}) /\ Tail(todo) = <<>>
    <3>1. StoredBut({})' BY <2>1, <2>2, Zenon DEF StoredBut
    <3> QED BY <2>1, <2>2, <3>1, Zenon DEF PlanInv
  <2>3. CASE Tail(todo) = <<"store">> BY <2>1, <2>3, AtUnconfig, Zenon DEF PlanInv, FreePlans
  <2> QED BY <2>1, <2>2, <2>3, AtUnconfig, Zenon
<1> QED BY <1>1, <1>2, Zenon

LEMMA ContainerPlan ==
    ASSUME Shape, PlanInv, Create \/ Start \/ Pause \/ Resume \/ Remove
    PROVE  PlanInv'
<1>0. \A x : /\ [mem EXCEPT !.conts = x].config = mem.config
             /\ [mem EXCEPT !.conts = x].conts = x
  BY MemFields, Zenon DEF Shape
<1>1. CASE Create
  <2>1. /\ At("create") /\ todo' = Tail(todo) /\ mem'.conts = With(mem.conts, cur, "ready")
        /\ undo' = IF cur = Pod THEN undo ELSE UndoContainer
        /\ cur' = cur
    BY <1>0, <1>1, Zenon DEF Create, Do, SetState, UndoContainer
  <2>2. Made("ready")'
    <3>1. DOMAIN With(mem.conts, cur, "ready") = DOMAIN mem.conts \cup {cur} BY WithFacts, Zenon
    <3>2. With(mem.conts, cur, "ready")[cur] = "ready" BY SMT DEF With
    <3> QED BY <2>1, <3>1, <3>2, Zenon DEF Made
  <2>3. CASE undo = UndoSandbox /\ Tail(todo) = <<"store">>
    BY <2>1, <2>2, <2>3, Zenon DEF PlanInv
  <2>4. CASE cur # Pod /\ Tail(todo) = <<"resize", "store">>
    BY <2>1, <2>2, <2>4, Zenon DEF PlanInv
  <2> QED BY <2>1, <2>3, <2>4, AtCreate, Zenon
<1>2. CASE Start
  <2>1. At("start") /\ todo' = Tail(todo) /\ undo' = undo BY <1>2, Zenon DEF Start, Step, Do
  <2> QED BY <2>1, AtStart, Zenon DEF PlanInv, FreePlans
<1>3. CASE Pause \/ Resume
  BY <1>3, AtPause, Zenon DEF Pause, Resume, Step, Do, PlanInv, FreePlans
<1>4. CASE Remove
  <2>1. /\ At("remove") /\ todo' = Tail(todo)
        /\ mem'.config = mem.config /\ mem'.conts = Without(mem.conts, cur)
        /\ UNCHANGED <<disk, cur, faulted, undo>>
    BY <1>0, <1>4, Zenon DEF Remove, Step, Do
  <2>2. CASE undo = <<>> /\ Tail(todo) = <<"store", "unconfig", "store">>
    BY <2>1, <2>2, Zenon DEF PlanInv, FreePlans
  <2>3. CASE /\ undo = <<>> /\ Made("stopped") /\ faulted # {} /\ StoredBut({})
             /\ Tail(todo) = <<"unconfig">>
    <3>1. /\ DOMAIN mem'.conts = DOMAIN mem.conts \ {cur}
          /\ \A y \in DOMAIN mem.conts : y # cur => mem'.conts[y] = mem.conts[y]
      <4>1. /\ DOMAIN Without(mem.conts, cur) = DOMAIN mem.conts \ {cur}
            /\ \A y \in DOMAIN mem.conts : y # cur => Without(mem.conts, cur)[y] = mem.conts[y]
        BY WithoutFacts, Zenon
      <4> QED BY <2>1, <4>1, Zenon
    <3> SUFFICES ASSUME disk.file # "none" PROVE StoredBut({cur})'
      BY <2>1, <2>3, Zenon DEF PlanInv, StoredBut
    <3>2. disk.file = "whole" /\ mem'.config \ {cur'} \subseteq disk.config
      BY <2>1, <2>3, Zenon DEF StoredBut
    <3>3. \A c \in DOMAIN mem'.conts : c \in DOMAIN disk.dirs /\ disk.dirs[c] = mem'.conts[c]
      BY <2>3, <3>1, Zenon DEF StoredBut
    <3>4. \A c \in DOMAIN disk.dirs \ DOMAIN mem'.conts : disk.dirs[c] = "stopped" /\ faulted # {}
      BY <2>3, <3>1, Zenon DEF StoredBut, Made
    <3> QED BY <2>1, <3>2, <3>3, <3>4, Zenon DEF StoredBut
  <2> QED BY <2>1, <2>2, <2>3, AtRemove, Zenon
<1> QED BY <1>1, <1>2, <1>3, <1>4, Zenon

LEMMA StopPlan == ASSUME Shape, PlanInv, Stop PROVE PlanInv'
<1>0. \A x : [mem EXCEPT !.conts = x].conts = x BY MemFields, Zenon DEF Shape
<1>1. At("stop") /\ UNCHANGED <<disk, cur, undo, faulted>> BY Zenon DEF Stop, StopOf, Do
<1>2. undo = <<>> BY <1>1, AtStop, Zenon
<1>3. CASE mem.conts[cur] = "stopped"
  <2>1. todo' = Tail(todo) /\ mem' = mem BY <1>3, Zenon DEF Stop, StopOf, Do
  <2>2. CASE StoredBut({}) /\ Tail(todo) \in {<<"revert">>, <<>>}
    <3>1. StoredBut({})' BY <1>1, <2>1, <2>2, StoredFrame, Zenon
    <3> QED BY <1>1, <1>2, <2>1, <2>2, <3>1, Zenon DEF PlanInv, StoredPlans
  <2>3. CASE Tail(todo) = <<"store">> BY <1>1, <1>2, <2>1, <2>3, Zenon DEF PlanInv, FreePlans
  <2>4. ~Made("ready") BY <1>3, Zenon DEF Made
  <2> QED BY <1>1, <2>2, <2>3, <2>4, AtStop, Zenon
<1>4. CASE mem.conts[cur] # "stopped"
  <2>1. todo' = <<"save">> \o Tail(todo) /\ mem'.conts = With(mem.conts, cur, "stopped")
    BY <1>0, <1>4, Zenon DEF Stop, StopOf, Do, SetState
  <2>2. CASE Tail(todo) \in {<<"revert">>, <<>>, <<"store">>}
    <3>1. /\ <<"save">> \o <<"revert">> = <<"save", "revert">> /\ <<"save">> \o <<>> = <<"save">>
          /\ <<"save">> \o <<"store">> = <<"save", "store">>
      BY Before0, Before1, Zenon
    <3> QED BY <1>1, <1>2, <2>1, <2>2, <3>1, Zenon DEF PlanInv, FreePlans
  <2>3. CASE faulted # {} /\ Tail(todo) = <<"remove", "unconfig">>
    <3>1. <<"save">> \o <<"remove", "unconfig">> = <<"save", "remove", "unconfig">>
      BY Before2, Zenon
    <3>2. DOMAIN With(mem.conts, cur, "stopped") = DOMAIN mem.conts \cup {cur} BY WithFacts, Zenon
    <3>3. With(mem.conts, cur, "stopped")[cur] = "stopped" BY SMT DEF With
    <3>4. Made("stopped")' BY <1>1, <2>1, <3>2, <3>3, Zenon DEF Made
    <3> QED BY <1>1, <1>2, <2>1, <2>3, <3>1, <3>4, Zenon DEF PlanInv
  <2> QED BY <1>1, <2>2, <2>3, AtStop, Zenon
<1> QED BY <1>3, <1>4, Zenon

LEMMA AllPlan == ASSUME PlanInv, StopAll \/ RemoveAll \/ Destroy PROVE PlanInv'
<1>1. CASE StopAll
  <2>1. At("stopAll") /\ undo' = undo /\ (todo' = Tail(todo) \/ todo' = <<"save">> \o todo)
    BY <1>1, Zenon DEF StopAll, StopOf, Step, Do
  <2>2. <<"save">> \o <<"stopAll", "stopVM", "setStopped", "store", "end", "removeAll", "destroy">> =
        <<"save", "stopAll", "stopVM", "setStopped", "store", "end", "removeAll", "destroy">>
    BY Before7, SMT
  <2> QED BY <2>1, <2>2, AtStopAll, Zenon DEF PlanInv, FreePlans
<1>2. CASE RemoveAll
  <2>1. At("removeAll") /\ undo' = undo /\ (todo' = Tail(todo) \/ todo' = <<"save">> \o todo)
    BY <1>2, Zenon DEF RemoveAll, Step, Do
  <2>2. <<"save">> \o <<"removeAll", "destroy">> = <<"save", "removeAll", "destroy">>
    BY Before2, Zenon
  <2> QED BY <2>1, <2>2, AtRemoveAll, Zenon DEF PlanInv, FreePlans
<1>3. CASE Destroy
  <2>1. todo' = <<>> /\ disk' = NoDisk BY <1>3, AtDestroy, Zenon DEF Destroy
  <2>2. NoDisk.file = "none" BY Zenon DEF NoDisk
  <2> QED BY <2>1, <2>2, Zenon DEF PlanInv, StoredBut
<1> QED BY <1>1, <1>2, <1>3, Zenon

-----------------------------------------------------------------------------
(* Steps that fail.                                                         *)

\* The deferred functions are sequences, to which nothing is appended.
LEMMA UndoIsWhole ==
    /\ <<>> \o <<>> = <<>> /\ UndoSandbox \o <<>> = UndoSandbox
    /\ UndoConfig \o <<>> = UndoConfig /\ UndoContainer \o <<>> = UndoContainer
    /\ <<>> \o UndoSandbox = UndoSandbox /\ <<>> \o UndoConfig = UndoConfig
    /\ <<>> \o UndoContainer = UndoContainer
<1>1. ASSUME NEW a, NEW b, NEW c
      PROVE  /\ <<>> \o <<>> = <<>> /\ <<a>> \o <<>> = <<a>> /\ <<>> \o <<a>> = <<a>>
             /\ <<a, b, c>> \o <<>> = <<a, b, c>> /\ <<>> \o <<a, b, c>> = <<a, b, c>>
  <2> DEFINE S == {a, b, c}
  <2>0. a \in S /\ b \in S /\ c \in S OBVIOUS
  <2> HIDE DEF S
  <2>1. <<>> \in Seq(S) /\ <<a>> \in Seq(S) /\ <<a, b, c>> \in Seq(S) BY <2>0, SMT
  <2> QED BY <2>1, ConcatEmptySeq, Zenon
<1> QED BY <1>1, Zenon DEF UndoSandbox, UndoConfig, UndoContainer

\* A failed step leaves the deferred functions, and the caller's steps if it has any.
LEMMA ErrorPlan ==
    /\ todo = <<"create", "store">> /\ undo = UndoSandbox => AfterError = UndoSandbox
    /\ todo = <<"store">> /\ undo = UndoSandbox => AfterError = UndoSandbox
    /\ todo = <<"create", "resize", "store">> /\ undo = UndoConfig => AfterError = UndoConfig
    /\ todo \in {<<"resize", "store">>, <<"store">>} /\ undo = UndoContainer =>
          AfterError = UndoContainer
    /\ undo = <<>> /\ todo \in {<<"resize">>, <<"start", "store">>, <<"start", "store", "resize">>,
                                <<"stop", "store">>, <<"store">>, <<"store", "resize">>,
                                <<"store", "unconfig", "store">>} =>
          AfterError = <<>>
    /\ todo = <<"store", "end", "removeAll", "destroy">> /\ undo = <<>> =>
          AfterError = <<"end", "removeAll", "destroy">>
<1> DEFINE ends == {i \in DOMAIN todo : todo[i] = "end"}
<1>1. ends = {} => AfterError = undo \o <<>> BY Zenon DEF AfterError
<1>2. todo \in {<<"create", "store">>, <<"store">>, <<"resize", "store">>, <<"resize">>,
                <<"start", "store">>, <<"stop", "store">>, <<"store", "resize">>} => ends = {}
  BY SMT
<1>3. todo \in {<<"create", "resize", "store">>, <<"start", "store", "resize">>,
                <<"store", "unconfig", "store">>} => ends = {}
  BY SMT
<1>4. ASSUME todo = <<"store", "end", "removeAll", "destroy">>, undo = <<>>
      PROVE  AfterError = <<"end", "removeAll", "destroy">>
  <2>1. ends = {2} /\ Len(todo) = 4 BY <1>4, SMT
  <2>2. Min({2}) = 2
    <3>1. \E x \in {2} : \A y \in {2} : x <= y BY SMT
    <3> QED BY <3>1, SMT DEF Min
  <2>3. SubSeq(todo, 2, 4) = <<"end", "removeAll", "destroy">>
    <3>1. SubSeq(<<"store", "end", "removeAll", "destroy">>, 2, 4) = <<"end", "removeAll", "destroy">>
      BY FromEnd, ZenonT(40)
    <3> QED BY <1>4, <3>1, Zenon
  <2>4. <<>> \o <<"end", "removeAll", "destroy">> = <<"end", "removeAll", "destroy">>
    <3>1. ASSUME NEW a, NEW b, NEW c PROVE <<>> \o <<a, b, c>> = <<a, b, c>>
      <4> DEFINE S == {a, b, c}
      <4>0. a \in S /\ b \in S /\ c \in S OBVIOUS
      <4> HIDE DEF S
      <4>1. <<a, b, c>> \in Seq(S) BY <4>0, SMT
      <4> QED BY <4>1, ConcatEmptySeq, Zenon
    <3> QED BY <3>1, Zenon
  <2>5. ends # {} BY <2>1, Zenon
  <2>6. AfterError = undo \o SubSeq(todo, Min(ends), Len(todo)) BY <2>5, Zenon DEF AfterError
  <2>7. Min(ends) = 2 BY <2>1, <2>2, Zenon
  <2> QED BY <1>4, <2>1, <2>3, <2>4, <2>6, <2>7, Zenon
<1> HIDE DEF ends
<1>5. todo \in {<<"create", "store">>, <<"store">>} /\ undo = UndoSandbox => AfterError = UndoSandbox
  BY <1>1, <1>2, UndoIsWhole, Zenon
<1>6. todo = <<"create", "resize", "store">> /\ undo = UndoConfig => AfterError = UndoConfig
  BY <1>1, <1>3, UndoIsWhole, Zenon
<1>7. todo \in {<<"resize", "store">>, <<"store">>} /\ undo = UndoContainer =>
          AfterError = UndoContainer
  BY <1>1, <1>2, UndoIsWhole, Zenon
<1>8. ends = {} /\ undo = <<>> => AfterError = <<>> BY <1>1, UndoIsWhole, Zenon
<1>9. undo = <<>> /\ todo \in {<<"resize">>, <<"start", "store">>, <<"start", "store", "resize">>,
                               <<"stop", "store">>, <<"store">>, <<"store", "resize">>,
                               <<"store", "unconfig", "store">>} =>
          AfterError = <<>>
  BY <1>2, <1>3, <1>8, Zenon
<1> QED BY <1>4, <1>5, <1>6, <1>7, <1>9, Zenon

LEMMA FailurePlan ==
    ASSUME PlanInv, CreateFails \/ ResizeFails \/ StartFails \/ StopFails
    PROVE  PlanInv'
<1>0. mem' = mem /\ disk' = disk /\ cur' = cur /\ undo' = <<>> /\ faulted' # {}
  BY Zenon DEF CreateFails, ResizeFails, StartFails, StopFails, StepFails, Do, Fails
<1>1. /\ StoredBut({}) => StoredBut({})'
      /\ StoredBut({cur}) => StoredBut({cur})'
      /\ Made("ready") => Made("ready")'
  BY <1>0, StoredFrame, Zenon DEF Made
<1>2. CASE CreateFails
  <2>1. At("create") /\ todo' = <<>> \o AfterError BY <1>2, Zenon DEF CreateFails, StepFails, Do
  <2>2. CASE undo = UndoSandbox /\ todo = <<"create", "store">>
    <3>1. todo' = UndoSandbox BY <2>1, <2>2, ErrorPlan, UndoIsWhole, Zenon
    <3> QED BY <1>0, <3>1, Zenon DEF PlanInv, FreePlans, UndoSandbox
  <2>3. CASE undo = UndoConfig /\ StoredBut({cur}) /\ todo = <<"create", "resize", "store">>
    <3>1. todo' = UndoConfig BY <2>1, <2>3, ErrorPlan, UndoIsWhole, Zenon
    <3> QED BY <1>0, <1>1, <2>3, <3>1, Zenon DEF PlanInv, UndoConfig
  <2> QED BY <2>1, <2>2, <2>3, AtCreate, Zenon
<1>3. CASE ResizeFails
  <2>1. At("resize") /\ todo' = <<>> \o AfterError BY <1>3, Zenon DEF ResizeFails, StepFails, Do
  <2>2. CASE undo = <<>> /\ StoredBut({}) /\ todo = <<"resize">>
    <3>1. todo' = <<>> BY <2>1, <2>2, ErrorPlan, UndoIsWhole, Zenon
    <3> QED BY <1>0, <1>1, <2>2, <3>1, Zenon DEF PlanInv
  <2>3. CASE undo = UndoContainer /\ Made("ready") /\ todo = <<"resize", "store">>
    <3>1. todo' = UndoContainer BY <2>1, <2>3, ErrorPlan, UndoIsWhole, Zenon
    <3> QED BY <1>0, <1>1, <2>3, <3>1, Zenon DEF PlanInv, UndoContainer
  <2> QED BY <2>1, <2>2, <2>3, AtResize, Zenon
<1>4. CASE StartFails
  <2>1. /\ At("start")
        /\ \/ todo' = <<"stop", "revert">> \o AfterError
           \/ todo' = <<"stop">> \o AfterError
    BY <1>4, Zenon DEF StartFails, StepFails, Do
  <2>2. StoredBut({}) /\ AfterError = <<>> BY <2>1, AtStart, ErrorPlan, Zenon
  <2>3. <<"stop">> \o <<>> = <<"stop">> BY Before0, Zenon
  <2>4. <<"stop", "revert">> \o <<>> = <<"stop", "revert">> BY Before0Two, Zenon
  <2> QED BY <1>0, <1>1, <2>1, <2>2, <2>3, <2>4, Zenon DEF PlanInv, StoredPlans
<1>5. CASE StopFails
  <2>1. todo = <<"stop", "store">> /\ todo' = <<"save">> \o AfterError /\ At("stop")
    BY <1>5, Zenon DEF StopFails, StepFails, Do, StopContainerSteps
  <2>2. AfterError = <<>> BY <2>1, AtStop, ErrorPlan, Zenon
  <2>3. todo' = <<"save">> BY <2>1, <2>2, Before0, Zenon
  <2> QED BY <1>0, <2>3, Zenon DEF PlanInv, FreePlans
<1> QED BY <1>2, <1>3, <1>4, <1>5, Zenon

-----------------------------------------------------------------------------
(* A Save.                                                                  *)

\* While a Save writes, the operation is where it was.
LEMMA WritingPlan ==
    ASSUME PlanInv, todo # <<>>, Head(todo) \in {"store", "save"},
           UNCHANGED <<todo, undo, cur, mem, faulted>>
    PROVE  PlanInv'
<1>1. WritePlan BY AtWrite, Zenon
<1>2. WritePlan' BY <1>1, Zenon DEF WritePlan, Made
<1> QED BY <1>2, Zenon DEF PlanInv, WritePlan, FreePlans

LEMMA BeginsSaving ==
    ASSUME Shape, PlanInv, SaveBegins
    PROVE  PlanInv' /\ SavingInv'
<1>1. /\ todo # <<>> /\ Head(todo) \in {"store", "save"}
      /\ UNCHANGED <<todo, undo, cur, mem, faulted>>
      /\ disk' = [disk EXCEPT !.file = Torn] /\ saving' = [on |-> TRUE, left |-> DOMAIN mem.conts]
  BY Zenon DEF SaveBegins, At, Write
<1>2. PlanInv' BY <1>1, WritingPlan, Zenon
<1>3. disk'.file = Torn BY <1>1, DiskFields, Zenon DEF Shape
<1>4. [on |-> TRUE, left |-> DOMAIN mem.conts].left = DOMAIN mem.conts BY Zenon
<1>5. saving'.left = DOMAIN mem.conts BY <1>1, <1>4, Zenon
<1>6. Torn # "whole" BY Zenon DEF Torn
<1> QED BY <1>1, <1>2, <1>3, <1>5, <1>6, Zenon DEF SavingInv

LEMMA SandboxSaved ==
    ASSUME PlanInv, SavingInv, SaveSandbox
    PROVE  PlanInv' /\ SavingInv'
<1>1. /\ saving.on /\ disk.file = Torn /\ UNCHANGED <<todo, undo, cur, mem, faulted, saving>>
      /\ disk' = [file |-> "whole", state |-> mem.state, config |-> mem.config, dirs |-> disk.dirs]
  BY Zenon DEF SaveSandbox, Saves, Write
<1>2. PlanInv' BY <1>1, WritingPlan, Zenon DEF SavingInv
<1>3. ASSUME NEW s, NEW g, NEW h, NEW d, d = [file |-> "whole", state |-> s, config |-> g, dirs |-> h]
      PROVE  d.file = "whole" /\ d.config = g
  BY <1>3, Zenon
<1>4. disk'.file = "whole" /\ disk'.config = mem.config BY <1>1, <1>3, Zenon
<1>5. Torn # "whole" BY Zenon DEF Torn
<1>6. saving.left = DOMAIN mem.conts BY <1>1, Zenon DEF SavingInv
<1> QED BY <1>1, <1>2, <1>4, <1>5, <1>6, Zenon DEF SavingInv

LEMMA ContainerSaved ==
    ASSUME Shape, PlanInv, SavingInv, NEW c, SaveContainer(c) \/ SaveRemoves(c)
    PROVE  PlanInv' /\ SavingInv'
<1>1. /\ saving.on /\ disk.file = "whole" /\ UNCHANGED <<todo, undo, cur, mem, faulted>>
  BY Zenon DEF SaveContainer, SaveRemoves, Saves, Write
<1>2. PlanInv' BY <1>1, WritingPlan, Zenon DEF SavingInv
<1>3. \A x : /\ [disk EXCEPT !.dirs = x].file = disk.file /\ [disk EXCEPT !.dirs = x].dirs = x
             /\ [disk EXCEPT !.dirs = x].config = disk.config
  BY DiskFields, Zenon DEF Shape
<1>4. \A x : [saving EXCEPT !.left = x].on = saving.on /\ [saving EXCEPT !.left = x].left = x
  BY SavingFields, Zenon DEF Shape
<1>5. /\ disk.config = mem.config /\ saving.left \subseteq DOMAIN mem.conts
      /\ \A d \in DOMAIN mem.conts \ saving.left :
             d \in DOMAIN disk.dirs /\ disk.dirs[d] = mem.conts[d]
  BY <1>1, Zenon DEF SavingInv
<1>6. ASSUME NEW v
      PROVE  /\ DOMAIN With(disk.dirs, c, v) = DOMAIN disk.dirs \cup {c}
             /\ With(disk.dirs, c, v)[c] = v
             /\ \A y \in DOMAIN disk.dirs : y # c => With(disk.dirs, c, v)[y] = disk.dirs[y]
  BY SMT DEF With
<1>7. Torn # "whole" BY Zenon DEF Torn
<1>8. SUFFICES /\ saving'.left \subseteq saving.left /\ disk'.file = disk.file
               /\ disk'.config = disk.config
               /\ \A d \in DOMAIN mem.conts \ saving'.left :
                      d \in DOMAIN disk'.dirs /\ disk'.dirs[d] = mem.conts[d]
  BY <1>1, <1>2, <1>5, <1>7, Zenon DEF SavingInv
<1>9. CASE SaveContainer(c) /\ IsTorn(c)
  <2>1. c \in saving.left /\ disk' = [disk EXCEPT !.dirs = With(disk.dirs, c, mem.conts[c])]
        /\ saving' = [saving EXCEPT !.left = saving.left \ {c}]
    BY <1>9, Zenon DEF SaveContainer, Saves, Write
  <2>2. disk'.file = disk.file /\ disk'.config = disk.config
        /\ disk'.dirs = With(disk.dirs, c, mem.conts[c]) /\ saving'.left = saving.left \ {c}
    BY <1>3, <1>4, <2>1, Zenon
  <2>b. /\ DOMAIN disk'.dirs = DOMAIN disk.dirs \cup {c} /\ disk'.dirs[c] = mem.conts[c]
        /\ \A y \in DOMAIN disk.dirs : y # c => disk'.dirs[y] = disk.dirs[y]
    BY <1>6, <2>2, SMT
  <2>3. ASSUME NEW d \in DOMAIN mem.conts \ saving'.left
        PROVE  d \in DOMAIN disk'.dirs /\ disk'.dirs[d] = mem.conts[d]
    <3>1. CASE d = c BY <2>b, <3>1, Zenon
    <3>2. CASE d # c BY <1>5, <2>b, <2>2, <2>3, <3>2, Zenon
    <3> QED BY <3>1, <3>2, Zenon
  <2> QED BY <2>2, <2>3, Zenon
<1>10. CASE SaveContainer(c) /\ ~IsTorn(c)
  <2>1. c \in saving.left /\ disk' = [disk EXCEPT !.dirs = With(disk.dirs, c, Torn)]
        /\ saving' = saving
    BY <1>10, Zenon DEF SaveContainer, Saves, Write
  <2>2. disk'.file = disk.file /\ disk'.config = disk.config
        /\ disk'.dirs = With(disk.dirs, c, Torn)
    BY <1>3, <2>1, Zenon
  <2>b. /\ DOMAIN disk'.dirs = DOMAIN disk.dirs \cup {c}
        /\ \A y \in DOMAIN disk.dirs : y # c => disk'.dirs[y] = disk.dirs[y]
    BY <1>6, <2>2, SMT
  <2>3. ASSUME NEW d \in DOMAIN mem.conts \ saving'.left
        PROVE  d \in DOMAIN disk'.dirs /\ disk'.dirs[d] = mem.conts[d]
    <3>1. d # c BY <2>1, <2>3, Zenon
    <3> QED BY <1>5, <2>b, <2>1, <2>3, <3>1, Zenon
  <2> QED BY <2>1, <2>2, <2>3, Zenon
<1>11. CASE SaveRemoves(c)
  <2>1. c \notin DOMAIN mem.conts /\ disk' = [disk EXCEPT !.dirs = Without(disk.dirs, c)]
        /\ saving' = saving
    BY <1>11, Zenon DEF SaveRemoves, Saves, Write
  <2>2. disk'.file = disk.file /\ disk'.config = disk.config
        /\ disk'.dirs = Without(disk.dirs, c)
    BY <1>3, <2>1, Zenon
  <2>3. /\ DOMAIN Without(disk.dirs, c) = DOMAIN disk.dirs \ {c}
        /\ \A y \in DOMAIN disk.dirs : y # c => Without(disk.dirs, c)[y] = disk.dirs[y]
    BY WithoutFacts, Zenon
  <2>4. ASSUME NEW d \in DOMAIN mem.conts \ saving'.left
        PROVE  d \in DOMAIN disk'.dirs /\ disk'.dirs[d] = mem.conts[d]
    <3>1. d # c BY <2>1, <2>4, Zenon
    <3> QED BY <1>5, <2>1, <2>2, <2>3, <2>4, <3>1, Zenon
  <2> QED BY <2>1, <2>2, <2>4, Zenon
<1> QED BY <1>9, <1>10, <1>11, Zenon

\* A Save that has written everything brings memory and files together.
LEMMA EndsSaving ==
    ASSUME PlanInv, SavingInv, SaveEnds
    PROVE  PlanInv' /\ SavingInv'
<1>1. /\ saving.on /\ disk.file = "whole" /\ saving.left = {} /\ DOMAIN disk.dirs \subseteq DOMAIN mem.conts
      /\ UNCHANGED <<disk, undo, cur, mem, faulted>> /\ saving' = NotSaving /\ todo' = Tail(todo)
  BY Zenon DEF SaveEnds, Saves, Write
<1>2. StoredBut({})'
  <2>1. disk.config = mem.config BY <1>1, Zenon DEF SavingInv
  <2>2. \A c \in DOMAIN mem.conts : c \in DOMAIN disk.dirs /\ disk.dirs[c] = mem.conts[c]
    BY <1>1, Zenon DEF SavingInv
  <2>3. StoredBut({}) BY <1>1, <2>1, <2>2, Zenon DEF StoredBut
  <2> QED BY <1>1, <2>3, StoredFrame, Zenon
<1>3. \A s : Made(s) => Made(s)' BY <1>1, Zenon DEF Made
<1>4. ~saving'.on BY <1>1, Zenon DEF NotSaving
<1>5. WritePlan BY <1>1, AtWrite, Zenon DEF SavingInv
<1>6. CASE undo = <<>> /\ todo \in {<<"store">>, <<"save">>, <<"store", "resize">>, <<"save", "revert">>}
  <2>1. todo' \in {<<>>, <<"resize">>, <<"revert">>} BY <1>1, <1>6, PlanParts, ZenonT(90) DEF Parts
  <2> QED BY <1>1, <1>2, <1>4, <1>6, <2>1, ZenonT(90) DEF PlanInv, SavingInv, StoredPlans
<1>7. CASE undo = <<>> /\ todo \in {<<"save", "store">>, <<"store", "unconfig", "store">>,
              <<"save", "removeAll", "destroy">>, <<"store", "end", "removeAll", "destroy">>,
              <<"save", "stopAll", "stopVM", "setStopped", "store", "end", "removeAll", "destroy">>}
  <2>1. todo' \in {<<"store">>, <<"unconfig", "store">>, <<"removeAll", "destroy">>,
                   <<"end", "removeAll", "destroy">>,
                   <<"stopAll", "stopVM", "setStopped", "store", "end", "removeAll", "destroy">>}
    BY <1>1, <1>7, PlanParts, ZenonT(90) DEF Parts
  <2> QED BY <1>1, <1>4, <1>7, <2>1, ZenonT(90) DEF PlanInv, SavingInv, FreePlans
<1>8. CASE todo = <<"store">>
  <2>1. todo' = <<>> BY <1>1, <1>8, PlanParts, ZenonT(90) DEF Parts
  <2> QED BY <1>2, <1>4, <2>1, Zenon DEF PlanInv, SavingInv
<1>9. CASE todo = <<"save", "remove", "unconfig">> /\ undo = <<>> /\ Made("stopped") /\ faulted # {}
  <2>1. todo' = <<"remove", "unconfig">> BY <1>1, <1>9, PlanParts, ZenonT(90) DEF Parts
  <2> QED BY <1>1, <1>2, <1>3, <1>4, <1>9, <2>1, Zenon DEF PlanInv, SavingInv
<1> QED BY <1>5, <1>6, <1>7, <1>8, <1>9, Zenon DEF WritePlan

\* One that fails removes the files.
LEMMA FailsSaving ==
    ASSUME PlanInv, SavingInv, SaveFails
    PROVE  PlanInv' /\ SavingInv'
<1>1. /\ saving.on /\ disk' = NoDisk /\ saving' = NotSaving /\ UNCHANGED <<cur, mem>> /\ faulted' # {}
      /\ IF Head(todo) = "store" THEN todo' = AfterError /\ undo' = <<>>
                                 ELSE todo' = Tail(todo) /\ undo' = undo
  BY Zenon DEF SaveFails, Write, Fails
<1>2. NoDisk.file = "none" BY Zenon DEF NoDisk
<1>3. StoredBut({})' BY <1>1, <1>2, Zenon DEF StoredBut
<1>4. ~saving'.on BY <1>1, Zenon DEF NotSaving
<1>5. \A s : Made(s) => Made(s)' BY <1>1, Zenon DEF Made
<1>6. WritePlan BY <1>1, AtWrite, Zenon DEF SavingInv
<1>7. CASE undo = <<>> /\ todo \in {<<"store">>, <<"store", "resize">>, <<"store", "unconfig", "store">>}
  <2>1. Head(todo) = "store" BY <1>7, PlanParts, ZenonT(90) DEF Parts
  <2>2. todo' = <<>> BY <1>1, <1>7, <2>1, ErrorPlan, Zenon
  <2> QED BY <1>3, <1>4, <2>2, Zenon DEF PlanInv, SavingInv
<1>8. CASE undo = <<>> /\ todo = <<"store", "end", "removeAll", "destroy">>
  <2>1. Head(todo) = "store" BY <1>8, PlanParts, ZenonT(90) DEF Parts
  <2>2. todo' = <<"end", "removeAll", "destroy">> /\ undo' = <<>> BY <1>1, <1>8, <2>1, ErrorPlan, Zenon
  <2> QED BY <1>4, <2>2, Zenon DEF PlanInv, SavingInv, FreePlans
<1>9. CASE todo = <<"store">> /\ undo = UndoSandbox
  <2>1. Head(todo) = "store" BY <1>9, PlanParts, ZenonT(90) DEF Parts
  <2>2. todo' = UndoSandbox /\ undo' = <<>> BY <1>1, <1>9, <2>1, ErrorPlan, Zenon
  <2> QED BY <1>4, <2>2, Zenon DEF PlanInv, SavingInv, FreePlans, UndoSandbox
<1>10. CASE todo = <<"store">> /\ undo = UndoContainer /\ Made("ready")
  <2>1. Head(todo) = "store" BY <1>10, PlanParts, ZenonT(90) DEF Parts
  <2>2. todo' = UndoContainer /\ undo' = <<>> BY <1>1, <1>10, <2>1, ErrorPlan, Zenon
  <2> QED BY <1>1, <1>4, <1>5, <1>10, <2>2, Zenon DEF PlanInv, SavingInv, UndoContainer
<1>11. CASE undo = <<>> /\ todo \in {<<"save">>, <<"save", "revert">>}
  <2>1. Head(todo) # "store" /\ Tail(todo) \in {<<>>, <<"revert">>}
    BY <1>11, PlanParts, ZenonT(90) DEF Parts
  <2> QED BY <1>1, <1>3, <1>4, <1>11, <2>1, Zenon DEF PlanInv, SavingInv, StoredPlans
<1>12. CASE undo = <<>> /\ todo \in {<<"save", "store">>, <<"save", "removeAll", "destroy">>,
              <<"save", "stopAll", "stopVM", "setStopped", "store", "end", "removeAll", "destroy">>}
  <2>1. /\ Head(todo) # "store"
        /\ Tail(todo) \in {<<"store">>, <<"removeAll", "destroy">>,
               <<"stopAll", "stopVM", "setStopped", "store", "end", "removeAll", "destroy">>}
    BY <1>12, PlanParts, ZenonT(90) DEF Parts
  <2> QED BY <1>1, <1>4, <1>12, <2>1, Zenon DEF PlanInv, SavingInv, FreePlans
<1>13. CASE todo = <<"save", "remove", "unconfig">> /\ undo = <<>> /\ Made("stopped") /\ faulted # {}
  <2>1. Head(todo) # "store" /\ Tail(todo) = <<"remove", "unconfig">>
    BY <1>13, PlanParts, ZenonT(90) DEF Parts
  <2> QED BY <1>1, <1>3, <1>4, <1>5, <1>13, <2>1, Zenon DEF PlanInv, SavingInv
<1> QED BY <1>6, <1>7, <1>8, <1>9, <1>10, <1>11, <1>12, <1>13, Zenon DEF WritePlan

-----------------------------------------------------------------------------
(* The theorem.                                                             *)

\* A step of a shim that is up keeps the invariant.
LEMMA UpNext ==
    ASSUME Shape, PlanInv, SavingInv, shim = "up", shim' = "up", Next
    PROVE  PlanInv' /\ SavingInv'
<1>0. SavingInv' \/ saving'.on BY Zenon DEF SavingInv
<1>1. CASE Calls
  <2>1. saving' = saving /\ ~saving.on
    BY <1>1, Zenon DEF Calls, CreateSandbox, StartSandbox, StopAndDeleteSandbox, CreateContainer,
       OnContainer, StartContainer, StopContainer, PauseContainer, ResumeContainer, DeleteContainer,
       RemoveBundle, Call, Idle
  <2> QED BY <1>0, <1>1, <2>1, CallsPlan, Zenon
<1>2. CASE StartVM \/ StopVM \/ SetRunning \/ SetStopped \/ Revert \/ End \/ Resize
  <2>1. saving' = saving /\ ~saving.on
    BY <1>2, Zenon DEF StartVM, StopVM, SetRunning, SetStopped, Revert, End, Resize, Step, Do, At
  <2> QED BY <1>0, <1>2, <2>1, StatePlan, Zenon
<1>3. CASE Config \/ Unconfig
  <2>1. saving' = saving /\ ~saving.on BY <1>3, Zenon DEF Config, Unconfig, Step, Do, At
  <2> QED BY <1>0, <1>3, <2>1, ConfigPlan, Zenon
<1>4. CASE Create \/ Start \/ Pause \/ Resume \/ Remove
  <2>1. saving' = saving /\ ~saving.on
    BY <1>4, Zenon DEF Create, Start, Pause, Resume, Remove, Step, Do, At
  <2> QED BY <1>0, <1>4, <2>1, ContainerPlan, Zenon
<1>5. CASE Stop
  <2>1. saving' = saving /\ ~saving.on BY <1>5, Zenon DEF Stop, StopOf, Do, At
  <2> QED BY <1>0, <1>5, <2>1, StopPlan, Zenon
<1>6. CASE StopAll \/ RemoveAll \/ Destroy
  <2>1. saving' = saving /\ ~saving.on
    BY <1>6, Zenon DEF StopAll, RemoveAll, Destroy, StopOf, Step, Do, At
  <2> QED BY <1>0, <1>6, <2>1, AllPlan, Zenon
<1>7. CASE CreateFails \/ ResizeFails \/ StartFails \/ StopFails
  <2>1. saving' = saving /\ ~saving.on
    BY <1>7, Zenon DEF CreateFails, ResizeFails, StartFails, StopFails, StepFails, Do, At
  <2> QED BY <1>0, <1>7, <2>1, FailurePlan, Zenon
<1>8. CASE SaveBegins BY <1>8, BeginsSaving, Zenon
<1>9. CASE SaveSandbox BY <1>9, SandboxSaved, Zenon
<1>10. CASE SaveEnds BY <1>10, EndsSaving, Zenon
<1>11. CASE \E c \in Ids : SaveContainer(c) \/ SaveRemoves(c) BY <1>11, ContainerSaved, Zenon
<1>12. CASE SaveFails BY <1>12, FailsSaving, Zenon
<1>13. ~Crash /\ \A c \in Ids : ~RestoreFails(c) /\ ~CleanupContainer(c)
  BY Zenon DEF Crash, RestoreFails, CleanupContainer
<1>14. ~Last /\ ~Return BY AtCleanUp, Zenon DEF Last, Do, Return
<1> QED BY <1>1, <1>2, <1>3, <1>4, <1>5, <1>6, <1>7, <1>8, <1>9, <1>10, <1>11, <1>12, <1>13, <1>14,
           Zenon DEF Next, Steps, Failures

\* A shim that has died does not come back.
LEMMA UpStaysUp == ASSUME Next, shim' = "up" PROVE shim = "up"
<1>1. CASE Calls
  BY <1>1, Zenon DEF Calls, CreateSandbox, StartSandbox, StopAndDeleteSandbox, CreateContainer,
     OnContainer, StartContainer, StopContainer, PauseContainer, ResumeContainer, DeleteContainer,
     RemoveBundle, Call
<1>2. CASE Steps
  BY <1>2, Zenon DEF Steps, StartVM, StopVM, SetRunning, SetStopped, Revert, End, Config, Unconfig,
     Create, Resize, Start, Pause, Resume, Stop, StopAll, StopOf, Remove, RemoveAll, SaveBegins,
     SaveSandbox, SaveEnds, Destroy, Last, Return, SaveContainer, SaveRemoves, Saves, Write, Step, Do
<1>3. CASE Failures
  BY <1>3, Zenon DEF Failures, CreateFails, ResizeFails, StartFails, StopFails, SaveFails, Crash,
     RestoreFails, StepFails, Do, Write
<1>4. CASE \E c \in Ids : CleanupContainer(c) BY <1>4, Zenon DEF CleanupContainer
<1> QED BY <1>1, <1>2, <1>3, <1>4, Zenon DEF Next

LEMMA StoreNext == ASSUME StoreInv, [Next]_vars PROVE StoreInv'
<1>1. Shape' BY ShapeNext, Zenon DEF StoreInv
<1>2. CASE UNCHANGED vars
  <2>1. UNCHANGED <<shim, disk, mem, todo, undo, cur, saving, faulted>> BY <1>2, Zenon DEF vars
  <2> QED BY <1>1, <2>1, Zenon DEF StoreInv, PlanInv, SavingInv, StoredBut, Made
<1>3. CASE Next /\ shim' = "up"
  <2>1. shim = "up" BY <1>3, UpStaysUp, Zenon
  <2> QED BY <1>1, <1>3, <2>1, UpNext, Zenon DEF StoreInv
<1> QED BY <1>1, <1>2, <1>3, Zenon DEF StoreInv

\* Between two operations the files say what the shim knows: every container of
\* the sandbox is there with its state, and any other one there is the stopped
\* rest of a creation that failed (Save after every operation, and the deferred
\* functions of those that fail).
THEOREM IdleSandboxIsStored == Spec => []IdleIsStored
<1>1. Init => StoreInv
  <2> SUFFICES ASSUME Init PROVE StoreInv OBVIOUS
  <2>1. Shape BY ShapeInit, Zenon
  <2>2. NoMem.state = "" /\ ~NotSaving.on BY Zenon DEF NoMem, NotSaving
  <2>3. todo = <<>> /\ mem = NoMem /\ saving = NotSaving BY Zenon DEF Init
  <2> QED BY <2>1, <2>2, <2>3, Zenon DEF StoreInv, PlanInv, SavingInv
<1>2. StoreInv /\ [Next]_vars => StoreInv' BY StoreNext, Zenon
<1>3. StoreInv => IdleIsStored
  <2> SUFFICES ASSUME StoreInv, shim = "up", Idle, mem.state \notin {"", "deleted"}
               PROVE  IdleIsStored
    BY Zenon DEF IdleIsStored
  <2>1. StoredBut({})
    BY PlanParts, ZenonT(90) DEF StoreInv, PlanInv, Idle, StoredPlans, FreePlans, Parts
  <2> QED BY <2>1, Zenon DEF IdleIsStored, StoredBut
<1> QED BY <1>1, <1>2, <1>3, PTL DEF Spec

=============================================================================
