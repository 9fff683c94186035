----------------------------- MODULE QMPSerial -----------------------------
(***************************************************************************)
(* What the command queue of govmm promises to the goroutines that call    *)
(* the Execute methods of QMP: the commands are accepted in some order and *)
(* issued to QEMU one at a time in that order, and a caller that is given  *)
(* an answer is given the one to its own command, after it was issued.  A  *)
(* caller whose context is over may leave; once QEMU is gone nothing more  *)
(* is issued and what is known is dropped, oldest first.                   *)
(***************************************************************************)
EXTENDS Integers, Sequences

CONSTANTS
  Calls,                \* the calls of Execute methods
  NoCall                \* none of them

VARIABLES
  waiting,              \* accepted and not issued, oldest first
  issued,               \* the command QEMU works on, or NoCall
  closed,               \* QEMU is gone, or the connection to it
  over,                 \* calls whose context is done
  outcome               \* what the call returned, "none" before it returns

vars == <<waiting, issued, closed, over, outcome>>

Init ==
  /\ waiting = << >> /\ issued = NoCall /\ closed = FALSE /\ over = {}
  /\ outcome = [c \in Calls |-> "none"]

Known(c) == c = issued \/ \E i \in 1..Len(waiting) : waiting[i] = c

Returns(c, r) ==
  /\ outcome[c] = "none"
  /\ outcome' = [outcome EXCEPT ![c] = r]

Accept(c) ==
  /\ ~Known(c) /\ outcome[c] = "none"
  /\ \/ waiting' = Append(waiting, c) /\ UNCHANGED issued
     \/ ~closed /\ issued = NoCall /\ waiting = << >> /\ issued' = c /\ UNCHANGED waiting
  /\ UNCHANGED <<closed, over, outcome>>

(* The answer to the command at work goes to its caller, or to nobody when *)
(* the caller's context is done; the queue moves on.                       *)
Answer ==
  /\ issued # NoCall
  /\ \/ issued' = NoCall /\ UNCHANGED waiting
     \/ ~closed /\ waiting # << >> /\ issued' = Head(waiting) /\ waiting' = Tail(waiting)
  /\ \/ \E r \in {"return", "error"} : Returns(issued, r)
     \/ issued \in over /\ UNCHANGED outcome
  /\ UNCHANGED <<closed, over>>

ContextDone(c) ==
  /\ over' = over \cup {c}
  /\ UNCHANGED <<waiting, issued, closed, outcome>>

GiveUp(c) ==
  /\ c \in over
  /\ Returns(c, "cancelled")
  /\ UNCHANGED <<waiting, issued, closed, over>>

Lose ==
  /\ closed' = TRUE
  /\ UNCHANGED <<waiting, issued, over, outcome>>

Drop ==
  LET c == IF issued # NoCall THEN issued ELSE Head(waiting) IN
  /\ closed
  /\ \/ issued # NoCall /\ issued' = NoCall /\ UNCHANGED waiting
     \/ issued = NoCall /\ waiting # << >> /\ waiting' = Tail(waiting) /\ UNCHANGED issued
  /\ \/ Returns(c, "lost")
     \/ c \in over /\ UNCHANGED outcome
  /\ UNCHANGED <<closed, over>>

Refuse(c) ==
  /\ closed /\ ~Known(c)
  /\ Returns(c, "lost")
  /\ UNCHANGED <<waiting, issued, closed, over>>

Next ==
  \/ \E c \in Calls : Accept(c) \/ ContextDone(c) \/ GiveUp(c) \/ Refuse(c)
  \/ Answer \/ Lose \/ Drop

Spec == Init /\ [][Next]_vars
=============================================================================
