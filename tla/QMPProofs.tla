----------------------------- MODULE QMPProofs -----------------------------
(***************************************************************************)
(* The command queue of the QMP client implements the serial executor of   *)
(* QMPSerial, and a device is gone when its device_del succeeds, for any   *)
(* number of calls, contexts that are cancelled and events.                *)
(*                                                                         *)
(* First the invariant, and that mainLoop keeps it when it accepts a       *)
(* command, reads a line or sees a context done, each time with a step of  *)
(* the serial executor; then the other steps, and the theorems.            *)
(***************************************************************************)
EXTENDS QMP, TLAPS

OrNone == Calls \cup {NoCall}
Results == {"none", "lost", "cancelled", "return", "error"} \X OrNone
Lines == {<<"greeting">>} \cup ({"return", "error", "event"} \X OrNone)

QType ==
  /\ call \in [Calls -> {"idle", "sending", "waiting", "returned"}]
  /\ result \in [Calls -> Results]
  /\ received \in [Calls -> OrNone]
  /\ pending \in [to : OrNone, res : Results, unwritten : BOOLEAN]
  /\ queue \in Seq(Calls) /\ toQemu \in Seq(Calls) /\ fromQemu \in Seq(Lines)
  /\ cancelled \subseteq Calls /\ written \subseteq Calls /\ filter \subseteq Calls
  /\ unplugging \subseteq Calls /\ conn \in {"open", "closed"}

\* mainLoop has not begun to return.
Live == loop \in {"select", "connect", "send"}
IsAnswer(line) == line[1] \in {"return", "error"}
InQueue(c) == \E i \in 1 .. Len(queue) : queue[i] = c

\* The command at the front was written and mainLoop has not seen its answer.
Awaiting(c) ==
  /\ queue # << >> /\ c = Head(queue) /\ c \in written
  /\ received[c] = NoCall /\ loop # "send"

\* A call that was not accepted is nowhere, and one that did not return has no result.
CallInv ==
  /\ \A c \in Calls : call[c] # "returned" => result[c] = Nothing
  /\ \A c \in Calls : call[c] \in {"idle", "sending"} =>
        c \notin written /\ ~InQueue(c) /\ pending.to # c
  /\ \A c \in Calls : call[c] # "idle" => ready
  /\ start = "up" => ready

\* Only the front of the queue was written, and nothing while an answer is handed over.
QueueInv ==
  /\ \A i, j \in 1 .. Len(queue) : queue[i] = queue[j] => i = j
  /\ \A i \in 1 .. Len(queue) : queue[i] \in written => i = 1 /\ ~Answering
  /\ loop \in {"select", "connect"} => cmdDone = Front(queue)
  /\ loop # "send" => pending = NoSend
  /\ conn = "open" <=> Live
  /\ disconnected => ~Live

SendInv ==
  /\ loop = "send" /\ pending.unwritten =>
        /\ qemu = "dead" /\ queue # << >> /\ Head(queue) = pending.to
        /\ pending.to \notin written /\ pending.res = <<"lost", pending.to>>
  /\ Answering => /\ pending.to \in written
                  /\ pending.res \in {<<"return", pending.to>>, <<"error", pending.to>>}

\* At most one answer is outstanding, the one to the command at the front.
WireInv ==
  /\ reader = "send" => fromQemu # << >>
  /\ \A c \in Calls : received[c] # NoCall => received[c] = c /\ c \in written
  /\ Live =>
     /\ toQemu # << >> => toQemu = <<Head(toQemu)>> /\ Awaiting(Head(toQemu))
     /\ \A i \in 1 .. Len(fromQemu) : IsAnswer(fromQemu[i]) =>
          /\ Awaiting(fromQemu[i][2]) /\ toQemu = << >>
          /\ \A j \in 1 .. Len(fromQemu) : IsAnswer(fromQemu[j]) => j = i

\* An event filter goes because the device is gone, or the context of the call.
DeleteInv ==
  /\ Deletes \ filter \subseteq deleted \cup cancelled
  /\ \A i \in 1 .. Len(fromQemu) :
       fromQemu[i][1] = "event" /\ fromQemu[i][2] \in Calls => fromQemu[i][2] \in deleted
  /\ Answering /\ pending.res[1] = "return" /\ pending.to \in Deletes => pending.to \in deleted
  /\ DeletedBeforeReturn

QInv == QType /\ CallInv /\ QueueInv /\ SendInv /\ WireInv /\ DeleteInv

-----------------------------------------------------------------------------
(* Sequences.                                                               *)

LEMMA SeqElement ==
  ASSUME NEW S, NEW q \in Seq(S)
  PROVE  \A i \in 1 .. Len(q) : q[i] \in S
OBVIOUS

LEMMA TailFacts ==
  ASSUME NEW S, NEW q \in Seq(S), q # << >>
  PROVE  /\ Tail(q) \in Seq(S) /\ Head(q) \in S
         /\ Len(Tail(q)) = Len(q) - 1 /\ Len(q) \in Nat /\ Len(q) > 0 /\ q[1] = Head(q)
         /\ \A i \in 1 .. Len(Tail(q)) : i + 1 \in 1 .. Len(q) /\ Tail(q)[i] = q[i + 1]
OBVIOUS

LEMMA AppendFacts ==
  ASSUME NEW S, NEW q \in Seq(S), NEW x \in S
  PROVE  /\ Append(q, x) \in Seq(S) /\ Append(q, x) # << >>
         /\ Len(Append(q, x)) = Len(q) + 1 /\ Len(q) \in Nat
         /\ \A i \in 1 .. Len(q) : Append(q, x)[i] = q[i]
         /\ Append(q, x)[Len(q) + 1] = x
         /\ q # << >> => Head(Append(q, x)) = Head(q) /\ Tail(Append(q, x)) = Append(Tail(q), x)
         /\ q = << >> => Append(q, x) = <<x>> /\ Head(<<x>>) = x /\ Tail(<<x>>) = << >>
<1>1. Append(q, x) \in Seq(S) /\ Len(Append(q, x)) = Len(q) + 1 /\ Len(q) \in Nat OBVIOUS
<1>2. Append(q, x) # << >> BY <1>1
<1>3. \A i \in 1 .. Len(q) : Append(q, x)[i] = q[i] OBVIOUS
<1>4. Append(q, x)[Len(q) + 1] = x OBVIOUS
<1>5. Head(<<x>>) = x /\ Tail(<<x>>) = << >> OBVIOUS
<1>6. q # << >> => Head(Append(q, x)) = Head(q) OBVIOUS
<1>7. q # << >> => Tail(Append(q, x)) = Append(Tail(q), x) OBVIOUS
<1>8. q = << >> => Append(q, x) = <<x>>
  <2>1. q = << >> => Len(Append(q, x)) = 1 /\ Append(q, x)[1] = x BY <1>1, <1>4
  <2> QED BY <1>1, <2>1
<1> QED BY Zenon, <1>1, <1>2, <1>3, <1>4, <1>5, <1>6, <1>7, <1>8

\* An index of two sequences put together is one of the first or one of the second.
LEMMA IndexParts ==
    \A a, b \in Nat : \A k \in 1 .. a + b :
        (k \in 1 .. a /\ k <= a) \/ (k > a /\ ~(k <= a) /\ k - a \in 1 .. b)
<1> SUFFICES ASSUME NEW a \in Nat, NEW b \in Nat, NEW k \in 1 .. a + b
             PROVE  (k \in 1 .. a /\ k <= a) \/ (k > a /\ ~(k <= a) /\ k - a \in 1 .. b)
  BY Zenon
<1>1. k \in Int /\ 1 <= k /\ k <= a + b OBVIOUS
<1>2. CASE k <= a BY <1>1, <1>2
<1>3. CASE ~(k <= a)
  <2>1. k > a /\ k - a \in Int /\ 1 <= k - a /\ k - a <= b BY <1>1, <1>3
  <2> QED BY <1>3, <2>1
<1> QED BY Zenon, <1>2, <1>3

LEMMA ConcatFacts ==
  ASSUME NEW S, NEW q \in Seq(S), NEW r \in Seq(S)
  PROVE  /\ q \o r \in Seq(S) /\ Len(q) \in Nat /\ Len(r) \in Nat
         /\ Len(q \o r) = Len(q) + Len(r)
         /\ \A i \in 1 .. Len(q \o r) : (q \o r)[i] = IF i <= Len(q) THEN q[i] ELSE r[i - Len(q)]
OBVIOUS

LEMMA FrontFacts ==
  ASSUME QType
  PROVE  /\ queue = << >> => Front(queue) = NoCall
         /\ queue # << >> => Front(queue) = Head(queue) /\ Head(queue) \in Calls
         /\ NoCall \notin Calls /\ NoCall \notin written /\ NoCall \notin cancelled
         /\ NoCall \notin filter
BY Zenon, CallsAssumption, TailFacts DEF QType, Front

-----------------------------------------------------------------------------
(* mainLoop goes on with the queue q: it writes the first command, finds    *)
(* that QEMU is gone, or has none.                                          *)

PendingType == [to : OrNone, res : Results, unwritten : BOOLEAN]

\* Commands that are all different and not written.
Unwritten(q) ==
  /\ q \in Seq(Calls)
  /\ \A i, j \in 1 .. Len(q) : q[i] = q[j] => i = j
  /\ \A i \in 1 .. Len(q) : q[i] \notin written

\* What the serial executor then works on and what waits.
MapNext(q) ==
  \/ Issued' = NoCall /\ Waiting' = q
  \/ ~Closed /\ q # << >> /\ Issued' = Head(q) /\ Waiting' = Tail(q)

GoesOn(q) ==
  /\ queue' = q /\ toQemu' \in Seq(Calls) /\ written' \subseteq Calls /\ pending' \in PendingType
  /\ QueueInv' /\ SendInv' /\ Live' /\ ~Answering'
  /\ toQemu' # << >> => toQemu' = <<Head(toQemu')>> /\ Awaiting(Head(toQemu))'
  /\ written \subseteq written'
  /\ \A c \in written' : c \in written \/ (q # << >> /\ c = Head(q))
  /\ pending'.to = NoCall \/ (q # << >> /\ pending'.to = Head(q))
  /\ MapNext(q)

LEMMA NoSendFacts == NoSend \in PendingType /\ NoSend.to = NoCall /\ ~NoSend.unwritten
BY Zenon DEF NoSend, PendingType, Nothing, Results, OrNone

LEMMA WriteNextGoesOn ==
  ASSUME QType, NEW q, Unwritten(q), WriteUnlessEmpty(q), toQemu = << >>,
         conn = "open", UNCHANGED <<qemu, conn, disconnected, received>>, ~disconnected,
         \A c \in Calls : received[c] # NoCall => c \in written
  PROVE  GoesOn(q)
<1>0. q \in Seq(Calls) /\ NoCall \notin Calls /\ written \subseteq Calls
  BY Zenon, CallsAssumption DEF QType, Unwritten
<1>1. CASE q = << >>
  <2>1. /\ queue' = << >> /\ loop' = "select" /\ pending' = NoSend /\ cmdDone' = NoCall
        /\ toQemu' = << >> /\ written' = written
    BY Zenon, <1>1 DEF WriteUnlessEmpty, wire
  <2>2. ~Answering' /\ Live' BY Zenon, <2>1 DEF Answering, Live
  <2>3. Front(queue') = NoCall BY Zenon, <2>1 DEF Front
  <2>4. ~FrontIsIssued' BY Zenon, <1>0, <2>1, <2>3 DEF FrontIsIssued
  <2>5. MapNext(q) BY Zenon, <1>1, <2>1, <2>2, <2>4 DEF MapNext, Issued, Waiting
  <2>6. QueueInv' BY <2>1, <2>2, <2>3 DEF QueueInv
  <2>7. SendInv' BY Zenon, <2>1, <2>2 DEF SendInv
  <2> QED BY Zenon, <1>0, <1>1, <2>1, <2>2, <2>5, <2>6, <2>7, NoSendFacts DEF GoesOn
<1>2. CASE q # << >> /\ qemu # "dead"
  <2>1. /\ queue' = q /\ loop' = "select" /\ pending' = NoSend /\ cmdDone' = Head(q)
        /\ toQemu' = Append(toQemu, Head(q)) /\ written' = written \cup {Head(q)}
    BY Zenon, <1>2 DEF WriteUnlessEmpty, WriteNext
  <2>2. ~Answering' /\ Live' BY Zenon, <2>1 DEF Answering, Live
  <2>3. Front(queue') = Head(q) BY Zenon, <1>2, <2>1 DEF Front
  <2>4. Head(q) \in Calls /\ q[1] = Head(q) /\ Len(q) \in Nat /\ Len(q) > 0
    BY Zenon, <1>0, <1>2, TailFacts
  <2>5. toQemu' = <<Head(q)>> /\ Head(<<Head(q)>>) = Head(q) BY <2>1, <2>4
  <2>6. MapNext(q)
    BY Zenon, <1>2, <2>1, <2>2, <2>3 DEF MapNext, Issued, Waiting, FrontIsIssued, Closed
  <2>7. QueueInv' BY <2>1, <2>2, <2>3, <2>4 DEF QueueInv, Unwritten
  <2>8. SendInv' BY Zenon, <2>1, <2>2 DEF SendInv
  <2>9. Awaiting(Head(toQemu))'
    <3>1. Head(q) \notin written BY <2>4 DEF Unwritten
    <3>2. received[Head(q)] = NoCall BY Zenon, <2>4, <3>1
    <3> QED BY Zenon, <1>2, <2>1, <2>5, <3>2 DEF Awaiting
  <2>10. toQemu' \in Seq(Calls) BY <2>4, <2>5
  <2>11. /\ written' \subseteq Calls /\ written \subseteq written'
         /\ \A c \in written' : c \in written \/ (q # << >> /\ c = Head(q))
    BY Zenon, <1>0, <1>2, <2>1, <2>4
  <2>12. pending' \in PendingType /\ pending'.to = NoCall BY Zenon, <2>1, NoSendFacts
  <2> QED BY Zenon, <2>1, <2>2, <2>5, <2>6, <2>7, <2>8, <2>9, <2>10, <2>11, <2>12 DEF GoesOn
<1>3. CASE q # << >> /\ qemu = "dead"
  <2>1. /\ queue' = q /\ loop' = "send"
        /\ pending' = [to |-> Head(q), res |-> <<"lost", Head(q)>>, unwritten |-> TRUE]
        /\ toQemu' = << >> /\ written' = written
    BY Zenon, <1>3 DEF WriteUnlessEmpty, WriteNext, wire
  <2>2. ~Answering' /\ Live' BY Zenon, <2>1 DEF Answering, Live
  <2>3. Front(queue') = Head(q) BY Zenon, <1>3, <2>1 DEF Front
  <2>4. Head(q) \in Calls /\ q[1] = Head(q) /\ Len(q) \in Nat /\ Len(q) > 0
    BY Zenon, <1>0, <1>3, TailFacts
  <2>5. Head(q) \notin written BY <2>4 DEF Unwritten
  <2>6. MapNext(q)
    BY Zenon, <2>1, <2>2, <2>3, <2>5 DEF MapNext, Issued, Waiting, FrontIsIssued
  <2>7. QueueInv' BY Zenon, <2>1, <2>2 DEF QueueInv, Unwritten
  <2>8. SendInv' BY Zenon, <1>3, <2>1, <2>2, <2>5 DEF SendInv
  <2>9. pending' \in PendingType /\ pending'.to = Head(q)
    BY Zenon, <2>1, <2>4 DEF PendingType, Results, OrNone
  <2> QED BY <1>0, <1>3, <2>1, <2>2, <2>6, <2>7, <2>8, <2>9 DEF GoesOn
<1> QED BY Zenon, <1>1, <1>2, <1>3

\* No answer is on its way, and an event for a call tells that its device is gone.
NoAnswers == \A i \in 1 .. Len(fromQemu) : ~IsAnswer(fromQemu[i])
EventsAreTrue ==
  \A i \in 1 .. Len(fromQemu) :
    fromQemu[i][1] = "event" /\ fromQemu[i][2] \in Calls => fromQemu[i][2] \in deleted

SerialStep == [Serial!Next]_(Serial!vars)

\* The commands behind the front are not written and their calls were accepted.
LEMMA TailIsUnwritten ==
  ASSUME QType, QueueInv, CallInv, queue # << >>
  PROVE  /\ Unwritten(Tail(queue))
         /\ \A i \in 1 .. Len(Tail(queue)) :
              call[Tail(queue)[i]] \notin {"idle", "sending"} /\ Tail(queue)[i] \in Calls
         /\ Head(queue) \in Calls /\ call[Head(queue)] \notin {"idle", "sending"}
<1>0. queue \in Seq(Calls) BY Zenon DEF QType
<1>1. /\ Tail(queue) \in Seq(Calls) /\ Len(queue) \in Nat /\ Len(queue) > 0 /\ queue[1] = Head(queue)
      /\ Len(Tail(queue)) = Len(queue) - 1 /\ Head(queue) \in Calls
      /\ \A i \in 1 .. Len(Tail(queue)) : i + 1 \in 1 .. Len(queue) /\ Tail(queue)[i] = queue[i + 1]
  BY Zenon, <1>0, TailFacts
<1>2. \A i, j \in 1 .. Len(Tail(queue)) : Tail(queue)[i] = Tail(queue)[j] => i = j
  <2> SUFFICES ASSUME NEW i \in 1 .. Len(Tail(queue)), NEW j \in 1 .. Len(Tail(queue)),
                      Tail(queue)[i] = Tail(queue)[j]
               PROVE  i = j
    BY Zenon
  <2>1. i + 1 = j + 1 BY <1>1 DEF QueueInv
  <2> QED BY <1>1, <2>1
<1>3. \A i \in 1 .. Len(Tail(queue)) : Tail(queue)[i] \notin written BY <1>1 DEF QueueInv
<1>4. \A i \in 1 .. Len(queue) : queue[i] \in Calls BY Zenon, <1>0, SeqElement
<1>5. \A i \in 1 .. Len(queue) : call[queue[i]] \notin {"idle", "sending"}
  BY Zenon, <1>4 DEF CallInv, InQueue
<1>6. 1 \in 1 .. Len(queue) BY <1>1
<1> QED BY Zenon, <1>1, <1>2, <1>3, <1>4, <1>5, <1>6 DEF Unwritten

\* mainLoop goes on with commands whose calls were accepted: calls that were not
\* accepted are still nowhere.
LEMMA GoesOnCalls ==
  ASSUME QType, CallInv, NEW q \in Seq(Calls), GoesOn(q), UNCHANGED <<start, ready>>,
         call' \in [Calls -> {"idle", "sending", "waiting", "returned"}],
         \A c \in Calls : call'[c] \in {"idle", "sending"} => call[c] = call'[c],
         \A c \in Calls : call'[c] # "idle" => call[c] # "idle",
         \A i \in 1 .. Len(q) : call'[q[i]] \notin {"idle", "sending"},
         \A c \in Calls : call'[c] # "returned" => result'[c] = Nothing
  PROVE  CallInv'
<1>1. q # << >> => Len(q) \in Nat /\ Len(q) > 0 /\ q[1] = Head(q) BY Zenon, TailFacts
<1>2. q # << >> => call'[Head(q)] \notin {"idle", "sending"}
  <2>1. q # << >> => 1 \in 1 .. Len(q) BY <1>1
  <2> QED BY Zenon, <1>1, <2>1
<1>3. ASSUME NEW c \in Calls, call'[c] \in {"idle", "sending"}
      PROVE  c \notin written' /\ ~InQueue(c)' /\ pending'.to # c
  <2>1. c \notin written BY Zenon, <1>3 DEF CallInv
  <2>2. c \notin written' BY Zenon, <1>2, <1>3, <2>1 DEF GoesOn
  <2>3. pending'.to # c BY <1>2, <1>3, CallsAssumption DEF GoesOn
  <2>4. ~InQueue(c)' BY Zenon, <1>3 DEF GoesOn, InQueue
  <2> QED BY Zenon, <2>2, <2>3, <2>4
<1>4. \A c \in Calls : call'[c] # "idle" => ready' BY Zenon DEF CallInv
<1>5. start' = "up" => ready' BY Zenon DEF CallInv
<1> QED BY Zenon, <1>3, <1>4, <1>5 DEF CallInv

-----------------------------------------------------------------------------
(* finaliseCommandWithResponse.                                             *)

\* Once the command at the front is answered nothing is on its way.
LEMMA FinaliseStep ==
  ASSUME QInv, loop = "select", queue # << >>, Head(queue) \in written, toQemu = << >>,
         NEW res \in {<<"return", Head(queue)>>, <<"error", Head(queue)>>}, Finalise(res),
         res[1] = "return" /\ Head(queue) \in Deletes \ cancelled => Head(queue) \in deleted,
         UNCHANGED <<callVars, ready, received, disconnected, conn, qemuVars>>,
         filter' \subseteq Calls, Deletes \ filter' \subseteq deleted \cup cancelled,
         fromQemu' \in Seq(Lines), NoAnswers', EventsAreTrue', reader' = "send" => fromQemu' # << >>
  PROVE  QInv' /\ SerialStep
<1> DEFINE c == Head(queue)
           q == Tail(queue)
<1>0. QType /\ CallInv /\ QueueInv /\ SendInv /\ WireInv /\ DeleteInv BY Zenon DEF QInv
<1>1. /\ UNCHANGED <<start, call, result, cancelled, cmdCh>>
      /\ UNCHANGED <<qemu, unplugging, deleted, events>>
  BY Zenon DEF callVars, qemuVars
<1>2. /\ Unwritten(q) /\ c \in Calls /\ call[c] \notin {"idle", "sending"}
      /\ \A i \in 1 .. Len(q) : call[q[i]] \notin {"idle", "sending"}
  BY Zenon, <1>0, TailIsUnwritten
<1>3. /\ Live /\ conn = "open" /\ ~disconnected /\ ~Answering /\ pending = NoSend
  BY Zenon, <1>0 DEF Live, QueueInv, Answering
<1>4. Front(queue) = c BY Zenon DEF Front
<1>5. FrontIsIssued /\ Issued = c /\ Waiting = q
  BY Zenon, <1>3, <1>4 DEF FrontIsIssued, Issued, Waiting
<1>6. q \in Seq(Calls) BY Zenon, <1>2 DEF Unwritten
<1>7. \A d \in Calls : received[d] # NoCall => received[d] = d /\ d \in written BY Zenon, <1>0 DEF WireInv
<1>8. Outcome' = Outcome /\ cancelled' = cancelled /\ Closed' = Closed
  BY Zenon, <1>1 DEF Outcome, Closed
<1>9. CASE c \in cancelled
  <2>1. WriteUnlessEmpty(q) BY Zenon, <1>9 DEF Finalise
  <2>2. GoesOn(q) BY Zenon, <1>0, <1>1, <1>2, <1>3, <1>7, <2>1, WriteNextGoesOn
  <2>3. QType' BY Zenon, <1>0, <1>1, <1>6, <2>2 DEF QType, GoesOn, PendingType
  <2>4. CallInv'
    <3>1. call' \in [Calls -> {"idle", "sending", "waiting", "returned"}] BY Zenon, <2>3 DEF QType
    <3>2. \A d \in Calls : call'[d] # "returned" => result'[d] = Nothing BY Zenon, <1>0, <1>1 DEF CallInv
    <3> QED BY Zenon, <1>0, <1>1, <1>2, <1>6, <2>2, <3>1, <3>2, GoesOnCalls
  <2>5. WireInv' BY Zenon, <1>7, <2>2 DEF WireInv, GoesOn, NoAnswers
  <2>6. DeletedBeforeReturn' BY Zenon, <1>0, <1>1 DEF DeleteInv, DeletedBeforeReturn
  <2>7. DeleteInv' BY Zenon, <1>1, <2>2, <2>6 DEF DeleteInv, GoesOn, EventsAreTrue
  <2>8. Serial!Answer
    BY Zenon, <1>2, <1>5, <1>8, <1>9, <2>2, CallsAssumption DEF Serial!Answer, GoesOn, MapNext
  <2> QED BY Zenon, <2>2, <2>3, <2>4, <2>5, <2>7, <2>8 DEF QInv, GoesOn, SerialStep, Serial!Next
<1>10. CASE c \notin cancelled
  <2>1. /\ pending' = [to |-> c, res |-> res, unwritten |-> FALSE]
        /\ queue' = q /\ loop' = "send" /\ UNCHANGED <<cmdDone, toQemu, written>>
    BY Zenon, <1>10 DEF Finalise, wire
  <2>2. Answering' /\ Live' BY Zenon, <2>1 DEF Answering, Live
  <2>3. pending' \in PendingType BY <1>2, <2>1 DEF PendingType, Results, OrNone
  <2>4. QType' BY Zenon, <1>0, <1>1, <1>6, <2>1, <2>3 DEF QType, PendingType
  <2>5. CallInv'
    <3>1. ASSUME NEW d \in Calls, call[d] \in {"idle", "sending"}
          PROVE  d \notin written' /\ ~InQueue(d)' /\ pending'.to # d
      BY Zenon, <1>0, <1>2, <2>1, <3>1 DEF CallInv, InQueue
    <3> QED BY Zenon, <1>0, <1>1, <3>1 DEF CallInv
  <2>6. QueueInv' BY Zenon, <1>2, <1>3, <2>1, <2>2 DEF QueueInv, Unwritten
  <2>7. SendInv' BY Zenon, <2>1 DEF SendInv, Answering
  <2>8. WireInv' BY Zenon, <1>7, <2>1 DEF WireInv, NoAnswers
  <2>9. DeletedBeforeReturn' BY Zenon, <1>0, <1>1 DEF DeleteInv, DeletedBeforeReturn
  <2>10. DeleteInv' BY Zenon, <1>1, <1>10, <2>1, <2>9 DEF DeleteInv, EventsAreTrue
  <2>11. Issued' = Issued /\ Waiting' = Waiting
    BY Zenon, <1>5, <2>1, <2>2 DEF Issued, Waiting, FrontIsIssued
  <2>12. SerialStep BY Zenon, <1>8, <2>11 DEF SerialStep, Serial!vars
  <2> QED BY Zenon, <2>4, <2>5, <2>6, <2>7, <2>8, <2>10, <2>12 DEF QInv
<1> QED BY Zenon, <1>9, <1>10

-----------------------------------------------------------------------------
(* The cases of the select that read a line or see a context done.          *)

\* A step of mainLoop that leaves the queue and what is written alone.
LEMMA KeepStep ==
  ASSUME QInv, loop = "select", loop' \in {"select", "connect"},
         cmdDone' = Front(queue), UNCHANGED <<queue, wire, pending>>,
         UNCHANGED <<callVars, ready, disconnected, conn, qemuVars>>,
         filter' \subseteq Calls, Deletes \ filter' \subseteq deleted \cup cancelled,
         received' \in [Calls -> OrNone], fromQemu' \in Seq(Lines), EventsAreTrue', WireInv'
  PROVE  QInv' /\ SerialStep
<1>0. QType /\ CallInv /\ QueueInv /\ SendInv /\ WireInv /\ DeleteInv BY Zenon DEF QInv
<1>1. /\ UNCHANGED <<start, call, result, cancelled, cmdCh>>
      /\ UNCHANGED <<qemu, unplugging, deleted, events>> /\ UNCHANGED <<toQemu, written>>
  BY Zenon DEF callVars, qemuVars, wire
<1>2. Live /\ Live' /\ ~Answering /\ ~Answering' BY Zenon DEF Live, Answering
<1>3. QType' BY Zenon, <1>0, <1>1 DEF QType
<1>4. CallInv' BY Zenon, <1>0, <1>1 DEF CallInv, InQueue
<1>5. Front(queue') = Front(queue) BY Zenon DEF Front
<1>6. QueueInv' BY Zenon, <1>0, <1>1, <1>2, <1>5 DEF QueueInv
<1>7. SendInv' BY Zenon, <1>2 DEF SendInv
<1>8. DeletedBeforeReturn' BY Zenon, <1>0, <1>1 DEF DeleteInv, DeletedBeforeReturn
<1>9. DeleteInv' BY Zenon, <1>1, <1>2, <1>8 DEF DeleteInv, EventsAreTrue
<1>10. FrontIsIssued' = FrontIsIssued BY Zenon, <1>1, <1>2, <1>5 DEF FrontIsIssued
<1>11. UNCHANGED <<Waiting, Issued>> BY ZenonT(60), <1>2, <1>10 DEF Waiting, Issued
<1>12. UNCHANGED <<Closed, cancelled, Outcome>> BY Zenon, <1>1 DEF Closed, Outcome
<1>13. SerialStep BY Zenon, <1>11, <1>12 DEF SerialStep, Serial!vars
<1> QED BY Zenon, <1>3, <1>4, <1>6, <1>7, <1>9, <1>13 DEF QInv

\* readLoop hands over the first line.
LEMMA LineRead ==
  ASSUME QInv, reader = "send", fromQemu' = Tail(fromQemu), UNCHANGED deleted
  PROVE  /\ Head(fromQemu) \in Lines /\ fromQemu' \in Seq(Lines) /\ EventsAreTrue'
         /\ Head(fromQemu)[1] = "event" /\ Head(fromQemu)[2] \in Calls =>
              Head(fromQemu)[2] \in deleted
         /\ Live /\ IsAnswer(Head(fromQemu)) =>
              NoAnswers' /\ Awaiting(Head(fromQemu)[2]) /\ toQemu = << >>
         /\ Live => \A i \in 1 .. Len(fromQemu') : IsAnswer(fromQemu'[i]) =>
              /\ Awaiting(fromQemu'[i][2]) /\ toQemu = << >>
              /\ \A j \in 1 .. Len(fromQemu') : IsAnswer(fromQemu'[j]) => j = i
<1> DEFINE f == fromQemu
<1>0. WireInv /\ DeleteInv /\ f \in Seq(Lines) /\ f # << >> BY Zenon DEF QInv, QType, WireInv
<1>1. /\ Tail(f) \in Seq(Lines) /\ Head(f) \in Lines /\ Len(f) \in Nat /\ Len(f) > 0
      /\ f[1] = Head(f) /\ Len(Tail(f)) = Len(f) - 1
      /\ \A i \in 1 .. Len(Tail(f)) : i + 1 \in 1 .. Len(f) /\ Tail(f)[i] = f[i + 1]
  BY Zenon, <1>0, TailFacts
<1>2. 1 \in 1 .. Len(f) BY <1>1
<1>3. EventsAreTrue' BY Zenon, <1>0, <1>1 DEF DeleteInv, EventsAreTrue
<1>4. Head(f)[1] = "event" /\ Head(f)[2] \in Calls => Head(f)[2] \in deleted
  BY Zenon, <1>0, <1>1, <1>2 DEF DeleteInv
<1>5. ASSUME Live, IsAnswer(Head(f)) PROVE NoAnswers' /\ Awaiting(Head(f)[2]) /\ toQemu = << >>
  <2>1. Awaiting(f[1][2]) /\ toQemu = << >> /\ \A j \in 1 .. Len(f) : IsAnswer(f[j]) => j = 1
    BY Zenon, <1>0, <1>1, <1>2, <1>5 DEF WireInv
  <2>2. \A i \in 1 .. Len(Tail(f)) : i + 1 # 1 BY <1>1
  <2>3. NoAnswers' BY Zenon, <1>1, <2>1, <2>2 DEF NoAnswers
  <2> QED BY Zenon, <1>1, <2>1, <2>3
<1>6. ASSUME Live, NEW i \in 1 .. Len(Tail(f)), IsAnswer(Tail(f)[i])
      PROVE  /\ Awaiting(Tail(f)[i][2]) /\ toQemu = << >>
             /\ \A j \in 1 .. Len(Tail(f)) : IsAnswer(Tail(f)[j]) => j = i
  <2>1. /\ Awaiting(f[i + 1][2]) /\ toQemu = << >>
        /\ \A j \in 1 .. Len(f) : IsAnswer(f[j]) => j = i + 1
    BY Zenon, <1>0, <1>1, <1>6 DEF WireInv
  <2>2. ASSUME NEW j \in 1 .. Len(Tail(f)), IsAnswer(Tail(f)[j]) PROVE j = i
    <3>1. j + 1 = i + 1 BY Zenon, <1>1, <2>1, <2>2
    <3> QED BY <1>1, <3>1
  <2> QED BY Zenon, <1>1, <2>1, <2>2
<1> QED BY Zenon, <1>1, <1>3, <1>4, <1>5, <1>6

LEMMA EventStep ==
  ASSUME QInv, Input, ready, NEW d \in OrNone, Head(fromQemu) = <<"event", d>>, ProcessEvent(d)
  PROVE  QInv' /\ SerialStep
<1> DEFINE c == Front(queue)
<1>0. QType /\ CallInv /\ QueueInv /\ SendInv /\ WireInv /\ DeleteInv BY Zenon DEF QInv
<1>1. /\ loop = "select" /\ reader = "send" /\ reader' = "scan" /\ fromQemu' = Tail(fromQemu)
      /\ UNCHANGED <<callVars, ready, disconnected, conn, qemuVars>> /\ received' = received
  BY Zenon DEF Input, ProcessEvent
<1>2. Live /\ deleted' = deleted /\ cancelled' = cancelled BY Zenon, <1>1 DEF Live, qemuVars, callVars
<1>3. /\ fromQemu' \in Seq(Lines) /\ EventsAreTrue' /\ (d \in Calls => d \in deleted)
      /\ \A i \in 1 .. Len(fromQemu') : IsAnswer(fromQemu'[i]) =>
              /\ Awaiting(fromQemu'[i][2]) /\ toQemu = << >>
              /\ \A j \in 1 .. Len(fromQemu') : IsAnswer(fromQemu'[j]) => j = i
  <2>1. Head(fromQemu)[1] = "event" /\ Head(fromQemu)[2] = d BY SMT
  <2> QED BY Zenon, <1>1, <1>2, <2>1, LineRead
<1>4. filter \subseteq Calls /\ Deletes \ filter \subseteq deleted \cup cancelled
      /\ received \in [Calls -> OrNone]
  BY Zenon, <1>0 DEF QType, DeleteInv
<1>5. CASE c \in filter /\ c = d /\ received[c] # NoCall
  <2>1. queue # << >> /\ c = Head(queue) /\ c \in Calls BY Zenon, <1>0, <1>4, <1>5, FrontFacts
  <2>2. received[c] = c /\ c \in written BY Zenon, <1>0, <1>5, <2>1 DEF WireInv
  <2>3. toQemu = << >> BY Zenon, <1>0, <1>2, <1>5, <2>1 DEF WireInv, Awaiting
  <2>4. NoAnswers' BY Zenon, <1>3, <1>5, <2>1 DEF NoAnswers, Awaiting
  <2>5. Finalise(<<"return", c>>) /\ filter' = filter BY Zenon, <1>5, <2>2 DEF ProcessEvent
  <2>6. c \in deleted BY Zenon, <1>3, <1>5, <2>1
  <2> QED BY Zenon, <1>1, <1>3, <1>4, <2>1, <2>2, <2>3, <2>4, <2>5, <2>6, FinaliseStep
<1>6. CASE ~(c \in filter /\ c = d /\ received[c] # NoCall)
  <2>1. Keep /\ filter' \subseteq filter /\ (filter' = filter \/ (filter' = filter \ {d} /\ d \in filter))
    BY Zenon, <1>6 DEF ProcessEvent
  <2>2. cmdDone' = Front(queue) /\ UNCHANGED <<queue, wire, loop, pending>> BY Zenon, <2>1 DEF Keep
  <2>3. filter' \subseteq Calls /\ Deletes \ filter' \subseteq deleted \cup cancelled
    BY Zenon, <1>3, <1>4, <2>1
  <2>4. \A x : Awaiting(x)' <=> Awaiting(x) BY Zenon, <1>1, <2>2 DEF Awaiting, wire
  <2>5. WireInv' BY Zenon, <1>0, <1>1, <1>2, <1>3, <2>2, <2>4 DEF WireInv, wire
  <2> QED BY Zenon, <1>1, <1>3, <1>4, <2>2, <2>3, <2>5, KeepStep
<1> QED BY Zenon, <1>5, <1>6

LEMMA AnswerStep ==
  ASSUME QInv, Input, ready, NEW kind \in {"return", "error"}, NEW d \in OrNone,
         Head(fromQemu) = <<kind, d>>, ProcessAnswer(kind, d)
  PROVE  QInv' /\ SerialStep
<1> DEFINE c == Front(queue)
<1>0. QType /\ CallInv /\ QueueInv /\ SendInv /\ WireInv /\ DeleteInv BY Zenon DEF QInv
<1>1. /\ loop = "select" /\ reader = "send" /\ reader' = "scan" /\ fromQemu' = Tail(fromQemu)
      /\ UNCHANGED <<callVars, ready, disconnected, conn, qemuVars>> /\ filter' = filter
  BY Zenon DEF Input, ProcessAnswer
<1>2. Live /\ deleted' = deleted BY Zenon, <1>1 DEF Live, qemuVars
<1>3. IsAnswer(Head(fromQemu)) /\ Head(fromQemu)[2] = d BY DEF IsAnswer
<1>4. fromQemu' \in Seq(Lines) /\ EventsAreTrue' /\ NoAnswers' /\ Awaiting(d) /\ toQemu = << >>
  BY Zenon, <1>1, <1>2, <1>3, LineRead
<1>5. queue # << >> /\ d = Head(queue) /\ d = c /\ d \in written /\ c \in Calls /\ c # NoCall
  BY Zenon, <1>0, <1>4, FrontFacts DEF Awaiting
<1>6. filter \subseteq Calls /\ Deletes \ filter \subseteq deleted \cup cancelled
      /\ received \in [Calls -> OrNone]
  BY Zenon, <1>0 DEF QType, DeleteInv
<1>7. CASE kind = "error" \/ c \notin filter
  <2>1. Finalise(<<kind, d>>) /\ received' = received BY Zenon, <1>5, <1>7 DEF ProcessAnswer
  <2>2. <<kind, d>>[1] = "return" /\ d \in Deletes \ cancelled => d \in deleted
    BY Zenon, <1>5, <1>6, <1>7
  <2>3. <<kind, d>> \in {<<"return", d>>, <<"error", d>>} BY Zenon
  <2> QED BY Zenon, <1>1, <1>4, <1>5, <1>6, <2>1, <2>2, <2>3, FinaliseStep
<1>8. CASE ~(kind = "error" \/ c \notin filter)
  <2>1. Keep /\ received' = [received EXCEPT ![c] = d] BY Zenon, <1>5, <1>8 DEF ProcessAnswer
  <2>2. cmdDone' = Front(queue) /\ UNCHANGED <<queue, wire, loop, pending>> BY Zenon, <2>1 DEF Keep
  <2>3. received' \in [Calls -> OrNone] BY Zenon, <1>5, <1>6, <2>1 DEF OrNone
  <2>4. \A x \in Calls : received'[x] # NoCall => received'[x] = x /\ x \in written
    BY Zenon, <1>0, <1>5, <1>6, <2>1 DEF WireInv
  <2>5. toQemu' = << >> /\ written' = written BY Zenon, <1>4, <2>2 DEF wire
  <2>6. WireInv' BY Zenon, <1>1, <1>4, <2>4, <2>5 DEF WireInv, NoAnswers
  <2> QED BY Zenon, <1>1, <1>4, <1>6, <2>2, <2>3, <2>6, KeepStep
<1> QED BY Zenon, <1>7, <1>8

LEMMA InputStep == QInv /\ Input => QInv' /\ SerialStep
<1> SUFFICES ASSUME QInv, Input PROVE QInv' /\ SerialStep
  BY Zenon
<1>0. QType /\ CallInv /\ QueueInv /\ SendInv /\ WireInv /\ DeleteInv BY Zenon DEF QInv
<1>1. /\ loop = "select" /\ reader = "send" /\ reader' = "scan" /\ fromQemu' = Tail(fromQemu)
      /\ UNCHANGED <<callVars, ready, disconnected, conn, qemuVars>>
  BY Zenon DEF Input
<1>2. Live /\ deleted' = deleted BY Zenon, <1>1 DEF Live, qemuVars
<1>3. Head(fromQemu) \in Lines /\ fromQemu' \in Seq(Lines) /\ EventsAreTrue'
  BY Zenon, <1>1, <1>2, LineRead
<1>4. CASE ~ready
  <2>1. loop' \in {"select", "connect"} /\ UNCHANGED <<queue, wire, pending, cmdDone, filter, received>>
    BY Zenon, <1>4 DEF Input
  <2>2. cmdDone' = Front(queue) BY Zenon, <1>0, <1>1, <2>1 DEF QueueInv
  <2>3. filter' \subseteq Calls /\ Deletes \ filter' \subseteq deleted \cup cancelled
        /\ received' \in [Calls -> OrNone]
    BY Zenon, <1>0, <2>1 DEF QType, DeleteInv
  <2>4. \A x : Awaiting(x)' <=> Awaiting(x) BY Zenon, <1>1, <2>1 DEF Awaiting, wire
  <2>5. \A i \in 1 .. Len(fromQemu') : IsAnswer(fromQemu'[i]) =>
              /\ Awaiting(fromQemu'[i][2]) /\ toQemu = << >>
              /\ \A j \in 1 .. Len(fromQemu') : IsAnswer(fromQemu'[j]) => j = i
    BY Zenon, <1>1, <1>2, LineRead
  <2>6. WireInv' BY Zenon, <1>0, <1>1, <1>2, <2>1, <2>4, <2>5 DEF WireInv, wire
  <2> QED BY Zenon, <1>1, <1>3, <2>1, <2>2, <2>3, <2>6, KeepStep
<1>5. CASE ready
  <2>1. \/ Head(fromQemu)[1] = "event" /\ ProcessEvent(Head(fromQemu)[2])
        \/ Head(fromQemu)[1] \in {"return", "error"}
           /\ ProcessAnswer(Head(fromQemu)[1], Head(fromQemu)[2])
    BY Zenon, <1>5 DEF Input
  <2>2. Head(fromQemu)[1] # "greeting" => \E k \in {"return", "error", "event"}, d \in OrNone :
            Head(fromQemu) = <<k, d>>
    BY <1>3 DEF Lines
  <2>3. PICK k \in {"return", "error", "event"}, d \in OrNone : Head(fromQemu) = <<k, d>>
    BY Zenon, <2>1, <2>2
  <2>4. CASE k = "event" BY <1>5, <2>1, <2>3, <2>4, EventStep
  <2>5. CASE k \in {"return", "error"} BY <1>5, <2>1, <2>3, <2>5, AnswerStep
  <2> QED BY Zenon, <2>4, <2>5
<1> QED BY Zenon, <1>4, <1>5

\* cancelCurrentCommand.
LEMMA CancelStep == QInv /\ CancelCurrent => QInv' /\ SerialStep
<1> SUFFICES ASSUME QInv, CancelCurrent PROVE QInv' /\ SerialStep
  BY Zenon
<1> DEFINE c == Head(queue)
<1>0. QType /\ CallInv /\ QueueInv /\ SendInv /\ WireInv /\ DeleteInv BY Zenon DEF QInv
<1>1. /\ loop = "select" /\ cmdDone \in cancelled
      /\ UNCHANGED <<callVars, ready, received, disconnected, conn, reader, qemuVars, fromQemu>>
  BY Zenon DEF CancelCurrent
<1>2. cmdDone = Front(queue) BY Zenon, <1>0, <1>1 DEF QueueInv
<1>3. queue # << >> /\ Front(queue) = c /\ c \in Calls /\ c \in cancelled
  BY Zenon, <1>0, <1>1, <1>2, FrontFacts
<1>4. /\ filter \subseteq Calls /\ Deletes \ filter \subseteq deleted \cup cancelled
      /\ received \in [Calls -> OrNone] /\ fromQemu \in Seq(Lines) /\ EventsAreTrue
      /\ reader = "send" => fromQemu # << >>
  BY Zenon, <1>0 DEF QType, DeleteInv, WireInv, EventsAreTrue
<1>5. deleted' = deleted /\ EventsAreTrue' BY Zenon, <1>1, <1>4 DEF qemuVars, EventsAreTrue
<1>6. Live BY Zenon, <1>1 DEF Live
<1>7. CASE received[c] # NoCall
  <2>1. Finalise(<<"error", c>>) /\ filter' = filter BY Zenon, <1>7 DEF CancelCurrent
  <2>2. c \in written BY Zenon, <1>0, <1>3, <1>7 DEF WireInv
  <2>3. toQemu = << >> BY Zenon, <1>0, <1>6, <1>7 DEF WireInv, Awaiting
  <2>4. NoAnswers' BY Zenon, <1>0, <1>1, <1>6, <1>7 DEF WireInv, Awaiting, NoAnswers
  <2>5. <<"error", c>>[1] # "return" BY Zenon
  <2> QED BY Zenon, <1>1, <1>3, <1>4, <1>5, <2>1, <2>2, <2>3, <2>4, <2>5, FinaliseStep
<1>8. CASE received[c] = NoCall
  <2>1. Keep /\ filter' = filter \ {c} BY Zenon, <1>8 DEF CancelCurrent
  <2>2. cmdDone' = Front(queue) /\ UNCHANGED <<queue, wire, loop, pending>> BY Zenon, <2>1 DEF Keep
  <2>3. filter' \subseteq Calls /\ Deletes \ filter' \subseteq deleted \cup cancelled
    BY Zenon, <1>3, <1>4, <2>1
  <2>4. \A x : Awaiting(x)' <=> Awaiting(x) BY Zenon, <1>1, <2>2 DEF Awaiting, wire
  <2>5. WireInv' BY Zenon, <1>0, <1>1, <1>6, <2>2, <2>4 DEF WireInv, wire
  <2> QED BY Zenon, <1>1, <1>4, <1>5, <2>2, <2>3, <2>5, KeepStep
<1> QED BY Zenon, <1>7, <1>8

-----------------------------------------------------------------------------
(* Calls that come, are answered, or fail.                                  *)

LEMMA NotKnown ==
  ASSUME QInv, NEW c \in Calls, call[c] \in {"idle", "sending"}
  PROVE  ~Serial!Known(c) /\ c \notin written /\ ~InQueue(c)
<1>0. QType /\ CallInv /\ c \notin written /\ ~InQueue(c) /\ pending.to # c /\ NoCall \notin Calls
  BY Zenon, CallsAssumption DEF QInv, CallInv
<1>1. queue # << >> => Head(queue) # c
  <2>1. queue # << >> => Len(queue) \in Nat /\ Len(queue) > 0 /\ queue[1] = Head(queue)
    BY Zenon, <1>0, TailFacts DEF QType
  <2>2. queue # << >> => 1 \in 1 .. Len(queue) BY <2>1
  <2> QED BY Zenon, <1>0, <2>1, <2>2 DEF InQueue
<1>2. FrontIsIssued => queue # << >> BY Zenon, <1>0, FrontFacts DEF FrontIsIssued
<1>3. c # Issued BY Zenon, <1>0, <1>1, <1>2 DEF Issued
<1>4. ASSUME NEW i \in 1 .. Len(Waiting) PROVE Waiting[i] # c
  <2>1. CASE FrontIsIssued
    <3>1. Waiting = Tail(queue) BY Zenon, <2>1 DEF Waiting
    <3>2. i + 1 \in 1 .. Len(queue) /\ Tail(queue)[i] = queue[i + 1]
      BY ZenonT(40), <1>0, <1>2, <1>4, <2>1, <3>1, TailFacts DEF QType
    <3> QED BY Zenon, <1>0, <3>1, <3>2 DEF InQueue
  <2>2. CASE ~FrontIsIssued
    <3>1. Waiting = queue BY Zenon, <2>2 DEF Waiting
    <3> QED BY Zenon, <1>0, <1>4, <3>1 DEF InQueue
  <2> QED BY Zenon, <2>1, <2>2
<1> QED BY Zenon, <1>0, <1>3, <1>4 DEF Serial!Known

\* A call has no outcome until it returns, and then the one it was given.
LEMMA NoOutcome ==
  ASSUME QInv, NEW c \in Calls, call[c] # "returned"
  PROVE  Outcome[c] = "none"
<1>1. result[c] = <<"none", NoCall>> BY Zenon DEF QInv, CallInv, Nothing
<1> QED BY <1>1 DEF Outcome

LEMMA ReturnOutcome ==
  ASSUME QInv, NEW c \in Calls, call[c] # "returned", NEW r \in Results, r[2] = c, Return(c, r)
  PROVE  /\ Serial!Returns(c, r[1])
         /\ call' \in [Calls -> {"idle", "sending", "waiting", "returned"}]
         /\ result' \in [Calls -> Results]
         /\ \A d \in Calls : call'[d] \in {"idle", "sending"} => call[d] = call'[d]
         /\ \A d \in Calls : call'[d] # "idle" => call[d] # "idle" \/ d = c
         /\ \A d \in Calls : call'[d] # "returned" => result'[d] = Nothing
         /\ \A d \in Calls : d # c => result'[d] = result[d] /\ call'[d] = call[d]
         /\ result'[c] = r /\ call'[c] = "returned"
<1>0. /\ call \in [Calls -> {"idle", "sending", "waiting", "returned"}]
      /\ result \in [Calls -> Results]
      /\ \A d \in Calls : call[d] # "returned" => result[d] = Nothing
  BY Zenon DEF QInv, QType, CallInv
<1>1. call' = [call EXCEPT ![c] = "returned"] /\ result' = [result EXCEPT ![c] = r]
  BY Zenon DEF Return
<1>2. /\ result' \in [Calls -> Results] /\ result'[c] = r
      /\ \A d \in Calls : d # c => result'[d] = result[d]
  BY Zenon, <1>0, <1>1
<1>3. Outcome' = [Outcome EXCEPT ![c] = r[1]] BY Zenon, <1>2 DEF Outcome
<1>4. Outcome[c] = "none" BY Zenon, NoOutcome
<1>5. Serial!Returns(c, r[1]) BY Zenon, <1>3, <1>4 DEF Serial!Returns
<1>6. /\ call' \in [Calls -> {"idle", "sending", "waiting", "returned"}] /\ call'[c] = "returned"
      /\ \A d \in Calls : d # c => call'[d] = call[d]
  BY Zenon, <1>0, <1>1
<1> QED BY Zenon, <1>0, <1>2, <1>5, <1>6

\* A command is accepted: written if it is alone, else queued.
LEMMA AcceptStep ==
  ASSUME QInv, NEW c \in Calls, Accept(c)
  PROVE  QInv' /\ SerialStep
<1>0. QType /\ CallInv /\ QueueInv /\ SendInv /\ WireInv /\ DeleteInv BY Zenon DEF QInv
<1>1. /\ loop = "select" /\ call[c] = "sending" /\ call' = [call EXCEPT ![c] = "waiting"]
      /\ UNCHANGED <<start, result, cancelled, ready, filter, received, disconnected, conn, reader>>
      /\ UNCHANGED <<qemu, unplugging, deleted>> /\ fromQemu' = fromQemu
  BY Zenon DEF Accept, qemuVars
<1>2. ready /\ Live /\ conn = "open" /\ ~disconnected /\ ~Answering
  BY Zenon, <1>0, <1>1 DEF CallInv, Live, QueueInv, Answering
<1>3. ~Serial!Known(c) /\ c \notin written /\ ~InQueue(c) BY Zenon, <1>1, NotKnown
<1>4. Outcome[c] = "none" BY Zenon, <1>1, NoOutcome
<1>5. Outcome' = Outcome /\ Closed' = Closed BY Zenon, <1>1 DEF Outcome, Closed
<1>6. /\ call' \in [Calls -> {"idle", "sending", "waiting", "returned"}]
      /\ call'[c] = "waiting" /\ \A d \in Calls : d # c => call'[d] = call[d]
  BY Zenon, <1>0, <1>1 DEF QType
<1>7. \A d \in Calls : call'[d] # "returned" => result'[d] = Nothing BY Zenon, <1>0, <1>1, <1>6 DEF CallInv
<1>8. DeletedBeforeReturn' BY Zenon, <1>0, <1>1 DEF DeleteInv, DeletedBeforeReturn
<1>9. CASE queue = << >>
  <2> DEFINE q == <<c>>
  <2>1. q # << >> /\ q \in Seq(Calls) /\ Len(q) = 1 /\ q[1] = c /\ Head(q) = c /\ Tail(q) = << >>
    OBVIOUS
  <2>2. Unwritten(q) BY <1>3, <2>1 DEF Unwritten
  <2>3. WriteUnlessEmpty(q) BY Zenon, <1>2, <1>9, <2>1 DEF Accept, WriteUnlessEmpty
  <2>4. toQemu = << >> BY Zenon, <1>0, <1>2, <1>9 DEF WireInv, Awaiting
  <2>5. \A d \in Calls : received[d] # NoCall => received[d] = d /\ d \in written
    BY Zenon, <1>0 DEF WireInv
  <2>6. GoesOn(q) BY Zenon, <1>0, <1>1, <1>2, <2>2, <2>3, <2>4, <2>5, WriteNextGoesOn
  <2>7. QType' BY Zenon, <1>0, <1>1, <1>6, <2>1, <2>6 DEF QType, GoesOn, PendingType
  <2>8. CallInv'
    <3>1. \A d \in Calls : call'[d] \in {"idle", "sending"} => call[d] = call'[d] BY Zenon, <1>6
    <3>2. \A d \in Calls : call'[d] # "idle" => call[d] # "idle" BY Zenon, <1>1, <1>6
    <3>3. \A i \in 1 .. Len(q) : call'[q[i]] \notin {"idle", "sending"} BY <1>6, <2>1
    <3> QED BY Zenon, <1>0, <1>1, <1>6, <1>7, <2>1, <2>6, <3>1, <3>2, <3>3, GoesOnCalls
  <2>9. NoAnswers BY Zenon, <1>0, <1>2, <1>9 DEF WireInv, Awaiting, NoAnswers
  <2>10. WireInv' BY Zenon, <1>0, <1>1, <2>5, <2>6, <2>9 DEF WireInv, GoesOn, NoAnswers
  <2>11. DeleteInv' BY Zenon, <1>0, <1>1, <1>8, <2>6 DEF DeleteInv, GoesOn
  <2>12. Issued = NoCall /\ Waiting = << >>
    BY Zenon, <1>0, <1>2, <1>9, FrontFacts DEF Issued, Waiting, FrontIsIssued
  <2>13. Append(<< >>, c) = q OBVIOUS
  <2>14. Serial!Accept(c)
    BY Zenon, <1>1, <1>3, <1>4, <1>5, <2>1, <2>6, <2>12, <2>13 DEF Serial!Accept, GoesOn, MapNext
  <2> QED BY Zenon, <2>6, <2>7, <2>8, <2>10, <2>11, <2>14 DEF QInv, GoesOn, SerialStep, Serial!Next
<1>10. CASE queue # << >>
  <2>1. queue' = Append(queue, c) /\ UNCHANGED <<toQemu, written, loop, pending, cmdDone>>
    BY Zenon, <1>10 DEF Accept, wire
  <2>2. queue \in Seq(Calls) BY Zenon, <1>0 DEF QType
  <2>3. /\ queue' \in Seq(Calls) /\ queue' # << >> /\ Len(queue') = Len(queue) + 1 /\ Len(queue) \in Nat
        /\ \A i \in 1 .. Len(queue) : queue'[i] = queue[i]
        /\ queue'[Len(queue) + 1] = c /\ Head(queue') = Head(queue)
        /\ Tail(queue') = Append(Tail(queue), c)
    BY <1>10, <2>1, <2>2, AppendFacts
  <2>4. Front(queue') = Front(queue) /\ Front(queue) = Head(queue) BY Zenon, <1>10, <2>3 DEF Front
  <2>5. ~Answering' /\ Live' BY Zenon, <1>1, <2>1 DEF Answering, Live
  <2>6. QType' BY Zenon, <1>0, <1>1, <1>6, <2>1, <2>3 DEF QType
  <2>7. \A i \in 1 .. Len(queue') : i \in 1 .. Len(queue) \/ i = Len(queue) + 1 BY <2>3
  <2>8. CallInv'
    <3>1. ASSUME NEW d \in Calls, call'[d] \in {"idle", "sending"}
          PROVE  d \notin written' /\ ~InQueue(d)' /\ pending'.to # d
      <4>1. d # c /\ call[d] \in {"idle", "sending"} BY Zenon, <1>6, <3>1
      <4>2. ~InQueue(d) /\ d \notin written /\ pending.to # d BY Zenon, <1>0, <4>1 DEF CallInv
      <4> QED BY Zenon, <2>1, <2>3, <2>7, <4>1, <4>2 DEF InQueue
    <3> QED BY Zenon, <1>0, <1>1, <1>2, <1>7, <3>1 DEF CallInv
  <2>9. QueueInv'
    <3>1. \A i \in 1 .. Len(queue) : queue[i] # c BY Zenon, <1>3 DEF InQueue
    <3>2. \A i, j \in 1 .. Len(queue') : queue'[i] = queue'[j] => i = j
      BY Zenon, <1>0, <2>3, <2>7, <3>1 DEF QueueInv
    <3>3. \A i \in 1 .. Len(queue') : queue'[i] \in written' => i = 1
      BY ZenonT(40), <1>0, <1>3, <2>1, <2>3, <2>7 DEF QueueInv
    <3> QED BY Zenon, <1>0, <1>1, <1>2, <2>1, <2>4, <2>5, <3>2, <3>3 DEF QueueInv
  <2>10. SendInv' BY Zenon, <1>1, <2>1 DEF SendInv, Answering
  <2>11. \A x : Awaiting(x) => Awaiting(x)' BY Zenon, <1>1, <2>1, <2>3 DEF Awaiting
  <2>12. WireInv' BY Zenon, <1>0, <1>1, <1>2, <2>1, <2>11 DEF WireInv
  <2>13. DeleteInv' BY Zenon, <1>0, <1>1, <1>8, <2>5 DEF DeleteInv
  <2>14. FrontIsIssued' = FrontIsIssued BY Zenon, <1>2, <2>1, <2>4, <2>5 DEF FrontIsIssued
  <2>15. Issued' = Issued BY Zenon, <1>2, <2>3, <2>5, <2>14 DEF Issued
  <2>16. Waiting' = Append(Waiting, c) BY Zenon, <2>1, <2>3, <2>14 DEF Waiting
  <2>17. Serial!Accept(c) BY Zenon, <1>1, <1>3, <1>4, <1>5, <2>15, <2>16 DEF Serial!Accept
  <2> QED BY Zenon, <2>6, <2>8, <2>9, <2>10, <2>12, <2>13, <2>17 DEF QInv, SerialStep, Serial!Next
<1> QED BY Zenon, <1>9, <1>10

-----------------------------------------------------------------------------
(* The steps that hand over results, and those of QEMU and of the reader.   *)

\* The caller is handed its result.
LEMMA DeliverStep == QInv /\ Deliver => QInv' /\ SerialStep
<1> SUFFICES ASSUME QInv, Deliver PROVE QInv' /\ SerialStep
  BY Zenon
<1> DEFINE c == pending.to
<1>0. QType /\ CallInv /\ QueueInv /\ SendInv /\ WireInv /\ DeleteInv BY Zenon DEF QInv
<1>1. /\ loop = "send" /\ call[c] = "waiting" /\ Return(c, pending.res)
      /\ UNCHANGED <<start, cancelled, ready, filter, received, disconnected, conn, reader>>
      /\ UNCHANGED <<qemu, unplugging, deleted>> /\ fromQemu' = fromQemu
  BY Zenon DEF Deliver, qemuVars
<1>2. Live /\ conn = "open" /\ ~disconnected BY Zenon, <1>0, <1>1 DEF Live, QueueInv
<1>3. queue \in Seq(Calls) /\ written \subseteq Calls /\ pending.res \in Results
  BY Zenon, <1>0 DEF QType
<1>4. toQemu = << >> /\ NoAnswers BY Zenon, <1>0, <1>1, <1>2 DEF WireInv, Awaiting, NoAnswers
<1>5. \A d \in Calls : received[d] # NoCall => received[d] = d /\ d \in written BY Zenon, <1>0 DEF WireInv
<1>6. c \in Calls /\ pending.res[2] = c
  <2>1. CASE pending.unwritten
    <3>1. queue # << >> /\ Head(queue) = c /\ pending.res = <<"lost", c>> BY Zenon, <1>0, <1>1, <2>1 DEF SendInv
    <3> QED BY <1>3, <3>1, TailFacts
  <2>2. CASE ~pending.unwritten
    BY <1>0, <1>1, <1>3, <2>2 DEF SendInv, Answering
  <2> QED BY Zenon, <2>1, <2>2
<1>7. /\ Serial!Returns(c, pending.res[1])
      /\ call' \in [Calls -> {"idle", "sending", "waiting", "returned"}]
      /\ result' \in [Calls -> Results]
      /\ \A d \in Calls : call'[d] \in {"idle", "sending"} => call[d] = call'[d]
      /\ \A d \in Calls : call'[d] # "idle" => call[d] # "idle" \/ d = c
      /\ \A d \in Calls : call'[d] # "returned" => result'[d] = Nothing
      /\ \A d \in Calls : d # c => result'[d] = result[d] /\ call'[d] = call[d]
      /\ result'[c] = pending.res /\ call'[c] = "returned"
  BY Zenon, <1>1, <1>3, <1>6, ReturnOutcome
<1>8. Closed' = Closed BY Zenon, <1>1 DEF Closed
<1>9. \A d \in Calls : call'[d] # "idle" => call[d] # "idle" BY Zenon, <1>1, <1>7
<1>10. CASE pending.unwritten
  <2> DEFINE q == Tail(queue)
  <2>1. /\ queue # << >> /\ Head(queue) = c /\ qemu = "dead" /\ c \notin written
        /\ pending.res = <<"lost", c>>
    BY Zenon, <1>0, <1>1, <1>10 DEF SendInv
  <2>2. /\ queue' = q /\ cmdDone' = Front(q) /\ loop' = "select" /\ pending' = NoSend
        /\ UNCHANGED <<toQemu, written>>
    BY Zenon, <1>10 DEF Deliver, wire
  <2>3. /\ Unwritten(q) /\ \A i \in 1 .. Len(q) : call[q[i]] \notin {"idle", "sending"}
        /\ \A i \in 1 .. Len(q) : q[i] \in Calls
    BY Zenon, <1>0, <2>1, TailIsUnwritten
  <2>4. q \in Seq(Calls) BY Zenon, <2>3 DEF Unwritten
  <2>5. ~Answering /\ ~Answering' /\ Live' BY Zenon, <1>10, <2>2 DEF Answering, Live
  <2>6. QType' BY Zenon, <1>0, <1>1, <1>7, <2>2, <2>4, NoSendFacts DEF QType, PendingType
  <2>7. CallInv'
    <3>1. ASSUME NEW d \in Calls, call'[d] \in {"idle", "sending"}
          PROVE  d \notin written' /\ ~InQueue(d)' /\ pending'.to # d
      <4>1. call[d] \in {"idle", "sending"} /\ d \notin written BY Zenon, <1>0, <1>7, <3>1 DEF CallInv
      <4>2. ~InQueue(d)' BY Zenon, <2>2, <2>3, <4>1 DEF InQueue
      <4> QED BY Zenon, <2>2, <4>1, <4>2, NoSendFacts, CallsAssumption
    <3> QED BY Zenon, <1>0, <1>1, <1>7, <1>9, <3>1 DEF CallInv
  <2>8. QueueInv' BY Zenon, <1>1, <1>2, <2>2, <2>3, <2>5 DEF QueueInv, Unwritten, Front
  <2>9. SendInv' BY Zenon, <2>2, <2>5 DEF SendInv
  <2>10. WireInv' BY Zenon, <1>0, <1>1, <1>4, <1>5, <2>2 DEF WireInv, NoAnswers
  <2>11. DeletedBeforeReturn'
    <3>1. result'[c] = <<"lost", c>> /\ <<"lost", c>>[1] = "lost" /\ "lost" # "return" BY SMT, <1>7, <2>1
    <3>2. result'[c][1] # "return" BY Zenon, <3>1
    <3>3. \A d \in Calls : d # c => result'[d] = result[d] BY Zenon, <1>7
    <3>4. deleted' = deleted /\ DeletedBeforeReturn BY Zenon, <1>0, <1>1 DEF DeleteInv
    <3> QED BY Zenon, <3>2, <3>3, <3>4, CallsAssumption DEF DeletedBeforeReturn
  <2>12. DeleteInv' BY Zenon, <1>0, <1>1, <2>5, <2>11 DEF DeleteInv
  <2>13. Front(queue) = c /\ ~FrontIsIssued BY Zenon, <2>1 DEF Front, FrontIsIssued
  <2>14. Issued = NoCall /\ Waiting = queue BY Zenon, <2>5, <2>13 DEF Issued, Waiting
  <2>15. ~FrontIsIssued'
    <3>1. q = << >> => Front(q) = NoCall BY Zenon DEF Front
    <3>2. q # << >> => Front(q) = Head(q) /\ Head(q) \notin written
      <4>1. q # << >> => Len(q) \in Nat /\ Len(q) > 0 /\ q[1] = Head(q) BY Zenon, <2>4, TailFacts
      <4>2. q # << >> => 1 \in 1 .. Len(q) BY <4>1
      <4> QED BY Zenon, <2>3, <4>1, <4>2 DEF Front, Unwritten
    <3> QED BY Zenon, <1>3, <2>2, <3>1, <3>2, CallsAssumption DEF FrontIsIssued
  <2>16. Issued' = NoCall /\ Waiting' = q BY Zenon, <2>2, <2>5, <2>15 DEF Issued, Waiting
  <2>17. Closed /\ pending.res[1] = "lost" BY <2>1 DEF Closed
  <2>18. Serial!Drop BY Zenon, <1>1, <1>7, <1>8, <2>1, <2>14, <2>16, <2>17 DEF Serial!Drop
  <2> QED BY Zenon, <2>6, <2>7, <2>8, <2>9, <2>10, <2>12, <2>18 DEF QInv, SerialStep, Serial!Next
<1>11. CASE ~pending.unwritten
  <2>1. Answering BY Zenon, <1>1, <1>11 DEF Answering
  <2>2. c \in written /\ pending.res \in {<<"return", c>>, <<"error", c>>} BY Zenon, <1>0, <2>1 DEF SendInv
  <2>3. Unwritten(queue) BY Zenon, <1>0, <1>3, <2>1 DEF QueueInv, Unwritten
  <2>4. WriteUnlessEmpty(queue) BY Zenon, <1>11 DEF Deliver
  <2>5. GoesOn(queue) BY Zenon, <1>0, <1>1, <1>2, <1>4, <1>5, <2>3, <2>4, WriteNextGoesOn
  <2>6. QType' BY Zenon, <1>0, <1>1, <1>7, <2>5 DEF QType, GoesOn, PendingType
  <2>7. CallInv'
    <3>1. \A i \in 1 .. Len(queue) : queue[i] \in Calls BY Zenon, <1>3, SeqElement
    <3>2. \A i \in 1 .. Len(queue) : call[queue[i]] \notin {"idle", "sending"}
      BY Zenon, <1>0, <3>1 DEF CallInv, InQueue
    <3>3. \A i \in 1 .. Len(queue) : call'[queue[i]] \notin {"idle", "sending"} BY Zenon, <1>7, <3>1, <3>2
    <3> QED BY Zenon, <1>0, <1>1, <1>3, <1>7, <1>9, <2>5, <3>3, GoesOnCalls
  <2>8. WireInv' BY Zenon, <1>0, <1>1, <1>4, <1>5, <2>5 DEF WireInv, GoesOn, NoAnswers
  <2>9. c \in Deletes /\ pending.res[1] = "return" => c \in deleted BY Zenon, <1>0, <2>1 DEF DeleteInv
  <2>10. DeletedBeforeReturn'
    BY ZenonT(60), <1>0, <1>1, <1>7, <2>9, CallsAssumption DEF DeleteInv, DeletedBeforeReturn
  <2>11. DeleteInv' BY Zenon, <1>0, <1>1, <2>5, <2>10 DEF DeleteInv, GoesOn
  <2>12. Issued = c /\ Waiting = queue BY Zenon, <2>1 DEF Issued, Waiting, FrontIsIssued
  <2>13. \E r \in {"return", "error"} : Serial!Returns(c, r)
    <3>1. pending.res[1] \in {"return", "error"} BY <2>2
    <3> QED BY Zenon, <1>7, <3>1
  <2>14. Serial!Answer
    BY Zenon, <1>1, <1>6, <1>8, <2>5, <2>12, <2>13, CallsAssumption DEF Serial!Answer, GoesOn, MapNext
  <2> QED BY Zenon, <2>5, <2>6, <2>7, <2>8, <2>11, <2>14 DEF QInv, GoesOn, SerialStep, Serial!Next
<1> QED BY Zenon, <1>10, <1>11

LEMMA MapSame ==
  ASSUME UNCHANGED <<queue, written, pending>>, Answering' <=> Answering
  PROVE  UNCHANGED <<Waiting, Issued>>
<1>1. FrontIsIssued' <=> FrontIsIssued BY Zenon DEF FrontIsIssued, Front
<1> QED BY Zenon, <1>1 DEF Waiting, Issued

\* The commands left when mainLoop returns fail, oldest first.
LEMMA FailStep == QInv /\ FailOutstanding => QInv' /\ SerialStep
<1> SUFFICES ASSUME QInv, FailOutstanding PROVE QInv' /\ SerialStep
  BY Zenon
<1> DEFINE c == Head(queue)
           q == Tail(queue)
<1>0. QType /\ CallInv /\ QueueInv /\ SendInv /\ WireInv /\ DeleteInv BY Zenon DEF QInv
<1>1. /\ loop = "fail" /\ queue # << >> /\ queue' = q
      /\ UNCHANGED <<start, cancelled, loop, ready, cmdDone, pending, filter, received,
                     disconnected, conn, reader>>
      /\ UNCHANGED <<qemu, unplugging, deleted>> /\ UNCHANGED <<toQemu, written, fromQemu>>
  BY Zenon DEF FailOutstanding, qemuVars, wire
<1>2. ~Live /\ ~Live' /\ ~Answering /\ ~Answering' BY Zenon, <1>1 DEF Live, Answering
<1>3. /\ Unwritten(q) /\ \A i \in 1 .. Len(q) : call[q[i]] \notin {"idle", "sending"}
      /\ \A i \in 1 .. Len(q) : q[i] \in Calls /\ c \in Calls
      /\ c \in Calls /\ call[c] \notin {"idle", "sending"}
  BY Zenon, <1>0, <1>1, TailIsUnwritten
<1>4. q \in Seq(Calls) BY Zenon, <1>3 DEF Unwritten
<1>5. /\ call' \in [Calls -> {"idle", "sending", "waiting", "returned"}]
      /\ result' \in [Calls -> Results]
      /\ \A d \in Calls : call'[d] \in {"idle", "sending"} => call[d] = call'[d]
      /\ \A d \in Calls : call'[d] # "idle" => call[d] # "idle"
      /\ \A d \in Calls : call'[d] # "returned" => result'[d] = Nothing
      /\ \A d \in Calls : result'[d][1] = "return" => result'[d] = result[d]
      /\ Serial!Returns(c, "lost") \/ (c \in cancelled /\ Outcome' = Outcome)
  <2>1. CASE call[c] = "waiting" /\ Return(c, <<"lost", c>>)
    <3>1. <<"lost", c>> \in Results /\ <<"lost", c>>[2] = c /\ <<"lost", c>>[1] = "lost"
      BY Zenon, <1>3 DEF Results, OrNone
    <3> DEFINE r == <<"lost", c>>
    <3> HIDE DEF r
    <3>2. r \in Results /\ r[2] = c /\ r[1] = "lost" /\ Return(c, r) BY Zenon, <2>1, <3>1 DEF r
    <3> QED BY <1>3, <2>1, <3>2, ReturnOutcome
  <2>2. CASE c \in cancelled /\ UNCHANGED <<call, result>>
    BY Zenon, <1>0, <2>2 DEF QType, CallInv, Outcome
  <2> QED BY Zenon, <2>1, <2>2 DEF FailOutstanding
<1>6. QType' BY Zenon, <1>0, <1>1, <1>4, <1>5 DEF QType
<1>7. CallInv'
  <2>1. ASSUME NEW d \in Calls, call'[d] \in {"idle", "sending"}
        PROVE  d \notin written' /\ ~InQueue(d)' /\ pending'.to # d
    <3>1. call[d] \in {"idle", "sending"} /\ d \notin written /\ pending.to # d
      BY Zenon, <1>0, <1>5, <2>1 DEF CallInv
    <3>2. ~InQueue(d)' BY Zenon, <1>1, <1>3, <3>1 DEF InQueue
    <3> QED BY Zenon, <1>1, <3>1, <3>2
  <2> QED BY Zenon, <1>0, <1>1, <1>5, <2>1 DEF CallInv
<1>8. QueueInv' BY Zenon, <1>0, <1>1, <1>2, <1>3 DEF QueueInv, Unwritten
<1>9. SendInv' /\ WireInv' BY Zenon, <1>0, <1>1, <1>2 DEF SendInv, WireInv
<1>10. DeletedBeforeReturn' BY Zenon, <1>0, <1>1, <1>5, CallsAssumption DEF DeleteInv, DeletedBeforeReturn
<1>11. DeleteInv' BY Zenon, <1>0, <1>1, <1>2, <1>10 DEF DeleteInv
<1>12. Closed /\ Closed' = Closed BY Zenon, <1>0, <1>1, <1>2 DEF Closed, QueueInv, QType
<1>13. ~FrontIsIssued'
  <2>1. q = << >> => Front(q) = NoCall BY Zenon DEF Front
  <2>2. q # << >> => Front(q) = Head(q) /\ Head(q) \notin written
    <3>1. q # << >> => Len(q) \in Nat /\ Len(q) > 0 /\ q[1] = Head(q) BY Zenon, <1>4, TailFacts
    <3>2. q # << >> => 1 \in 1 .. Len(q) BY <3>1
    <3> QED BY Zenon, <1>3, <3>1, <3>2 DEF Front, Unwritten
  <2>3. NoCall \notin written BY Zenon, <1>0, FrontFacts
  <2> QED BY Zenon, <1>1, <2>1, <2>2, <2>3 DEF FrontIsIssued
<1>14. Issued' = NoCall /\ Waiting' = q BY Zenon, <1>1, <1>2, <1>13 DEF Issued, Waiting
<1>15. Front(queue) = c BY Zenon, <1>1 DEF Front
<1>16. \/ Issued = c /\ Waiting = q
       \/ Issued = NoCall /\ Waiting = queue
  BY Zenon, <1>1, <1>2 DEF Issued, Waiting, FrontIsIssued
<1>17. Serial!Drop
  <2>1. c # NoCall /\ queue # << >> /\ c = Head(queue) /\ q = Tail(queue)
    BY Zenon, <1>1, <1>3, CallsAssumption
  <2>2. CASE Issued = c /\ Waiting = q
    <3>1. (IF Issued # NoCall THEN Issued ELSE Head(Waiting)) = c BY Zenon, <2>1, <2>2
    <3>2. Issued # NoCall /\ Issued' = NoCall /\ Waiting' = Waiting BY Zenon, <1>14, <2>1, <2>2
    <3> QED BY Zenon, <1>1, <1>5, <1>12, <3>1, <3>2 DEF Serial!Drop
  <2>3. CASE Issued = NoCall /\ Waiting = queue
    <3>1. (IF Issued # NoCall THEN Issued ELSE Head(Waiting)) = c BY Zenon, <2>1, <2>3
    <3>2. Issued = NoCall /\ Waiting # << >> /\ Waiting' = Tail(Waiting) /\ Issued' = Issued
      BY Zenon, <1>14, <2>1, <2>3
    <3> QED BY Zenon, <1>1, <1>5, <1>12, <3>1, <3>2 DEF Serial!Drop
  <2> QED BY Zenon, <1>16, <2>2, <2>3
<1> QED BY Zenon, <1>6, <1>7, <1>8, <1>9, <1>11, <1>17 DEF QInv, SerialStep, Serial!Next

\* A call returns without mainLoop: its context is done, or mainLoop has returned.
LEMMA CallReturns ==
  ASSUME QInv, NEW c \in Calls, call[c] \in {"sending", "waiting"},
         NEW k \in {"lost", "cancelled"}, Return(c, <<k, c>>),
         UNCHANGED <<start, cancelled, loopVars, reader, qemuVars, wire, fromQemu>>
  PROVE  QInv' /\ Serial!Returns(c, k) /\ UNCHANGED <<Waiting, Issued, Closed, cancelled>>
<1> DEFINE r == <<k, c>>
<1>0. QType /\ CallInv /\ QueueInv /\ SendInv /\ WireInv /\ DeleteInv BY Zenon DEF QInv
<1>1. /\ UNCHANGED <<start, cancelled, reader, qemu, unplugging, deleted, toQemu, written, fromQemu>>
      /\ UNCHANGED <<loop, ready, queue, cmdDone, pending, filter, received, disconnected, conn>>
  BY Zenon DEF loopVars, qemuVars, wire
<1>2. r \in Results /\ r[2] = c /\ r[1] = k BY Zenon DEF Results, OrNone
<1> HIDE DEF r
<1>3. Return(c, r) BY Zenon DEF r
<1>4. /\ Serial!Returns(c, k)
      /\ call' \in [Calls -> {"idle", "sending", "waiting", "returned"}]
      /\ result' \in [Calls -> Results]
      /\ \A d \in Calls : call'[d] \in {"idle", "sending"} => call[d] = call'[d]
      /\ \A d \in Calls : call'[d] # "idle" => call[d] # "idle" \/ d = c
      /\ \A d \in Calls : call'[d] # "returned" => result'[d] = Nothing
      /\ \A d \in Calls : d # c => result'[d] = result[d] /\ call'[d] = call[d]
      /\ result'[c] = r
  BY ZenonT(60), <1>2, <1>3, ReturnOutcome
<1>5. QType' BY Zenon, <1>0, <1>1, <1>4 DEF QType
<1>6. CallInv' BY ZenonT(40), <1>0, <1>1, <1>4 DEF CallInv, InQueue
<1>7. Answering' <=> Answering BY Zenon, <1>1 DEF Answering
<1>8. QueueInv' BY Zenon, <1>0, <1>1, <1>7 DEF QueueInv, Live, Front
<1>9. SendInv' BY Zenon, <1>0, <1>1, <1>7 DEF SendInv
<1>10. WireInv' BY Zenon, <1>0, <1>1 DEF WireInv, Live, Awaiting
<1>11. DeletedBeforeReturn'
  BY Zenon, <1>0, <1>1, <1>2, <1>4, CallsAssumption DEF DeleteInv, DeletedBeforeReturn
<1>12. DeleteInv' BY Zenon, <1>0, <1>1, <1>7, <1>11 DEF DeleteInv
<1>13. UNCHANGED <<Waiting, Issued>> BY Zenon, <1>1, <1>7, MapSame
<1>14. Closed' = Closed BY Zenon, <1>1 DEF Closed
<1> QED BY Zenon, <1>1, <1>4, <1>5, <1>6, <1>8, <1>9, <1>10, <1>12, <1>13, <1>14 DEF QInv

LEMMA CallSteps ==
  ASSUME QInv, NEW c \in Calls, CallStep(c)
  PROVE  QInv' /\ SerialStep
<1>1. CASE ExecuteDisconnected(c)
  <2>1. /\ call[c] = "sending" /\ disconnected /\ Return(c, <<"lost", c>>)
        /\ UNCHANGED <<start, cancelled, loopVars, reader, qemuVars, wire, fromQemu>>
    BY Zenon, <1>1 DEF ExecuteDisconnected
  <2>2. QInv' /\ Serial!Returns(c, "lost") /\ UNCHANGED <<Waiting, Issued, Closed, cancelled>>
    BY Zenon, <2>1, CallReturns
  <2>3. Closed BY Zenon, <2>1 DEF QInv, QType, QueueInv, Closed
  <2>4. ~Serial!Known(c) BY Zenon, <2>1, NotKnown
  <2>5. Serial!Refuse(c) BY Zenon, <2>2, <2>3, <2>4 DEF Serial!Refuse
  <2> QED BY Zenon, <2>2, <2>5 DEF SerialStep, Serial!Next
<1>2. CASE ExecuteCancelled(c)
  <2>1. /\ call[c] = "waiting" /\ c \in cancelled /\ Return(c, <<"cancelled", c>>)
        /\ UNCHANGED <<start, cancelled, loopVars, reader, qemuVars, wire, fromQemu>>
    BY Zenon, <1>2 DEF ExecuteCancelled
  <2>2. QInv' /\ Serial!Returns(c, "cancelled") /\ UNCHANGED <<Waiting, Issued, Closed, cancelled>>
    BY Zenon, <2>1, CallReturns
  <2>3. Serial!GiveUp(c) BY Zenon, <2>1, <2>2 DEF Serial!GiveUp
  <2> QED BY Zenon, <2>2, <2>3 DEF SerialStep, Serial!Next
<1> QED BY Zenon, <1>1, <1>2 DEF CallStep

\* Steps that touch neither the queue nor the wire: a call begins, a context is
\* done, QMPStart gives up, Shutdown is called, the version is handed over.
Quiet ==
  /\ call' \in [Calls -> {"idle", "sending", "waiting", "returned"}]
  /\ \A c \in Calls : call'[c] # call[c] => call[c] = "idle" /\ call'[c] = "sending" /\ ready
  /\ cancelled \subseteq cancelled' /\ cancelled' \subseteq Calls
  /\ (ready => ready') /\ (start' = "up" => ready')
  /\ loop' = loop \/ (loop = "connect" /\ loop' = "select")
  /\ UNCHANGED <<result, queue, cmdDone, pending, filter, received, disconnected, conn,
                 reader, qemuVars, wire, fromQemu>>

LEMMA QuietStep ==
  ASSUME QInv, Quiet
  PROVE  QInv' /\ UNCHANGED <<Waiting, Issued, Closed, Outcome>>
<1>0. QType /\ CallInv /\ QueueInv /\ SendInv /\ WireInv /\ DeleteInv BY Zenon DEF QInv
<1>1. /\ UNCHANGED <<qemu, unplugging, deleted, toQemu, written>>
      /\ UNCHANGED <<result, queue, cmdDone, pending, filter, received, disconnected, conn,
                     reader, fromQemu>>
      /\ loop' = loop \/ (loop = "connect" /\ loop' = "select")
      /\ cancelled \subseteq cancelled'
  BY Zenon DEF Quiet, qemuVars, wire
<1>2. (Answering' <=> Answering) /\ (Live' <=> Live) BY Zenon, <1>1 DEF Answering, Live
<1>3. QType' BY Zenon, <1>0, <1>1 DEF QType, Quiet
<1>4. CallInv'
  <2>1. \A c \in Calls : call[c] = call'[c] \/ (call[c] = "idle" /\ call'[c] = "sending" /\ ready)
    BY Zenon DEF Quiet
  <2>2. (ready => ready') /\ (start' = "up" => ready') BY Zenon DEF Quiet
  <2> QED BY Zenon, <1>0, <1>1, <2>1, <2>2 DEF CallInv, InQueue
<1>5. QueueInv' BY Zenon, <1>0, <1>1, <1>2 DEF QueueInv, Front
<1>6. SendInv' BY Zenon, <1>0, <1>1, <1>2 DEF SendInv, Answering
<1>7. \A d : Awaiting(d)' <=> Awaiting(d) BY Zenon, <1>1 DEF Awaiting
<1>8. WireInv' BY Zenon, <1>0, <1>1, <1>2, <1>7 DEF WireInv
<1>9. DeletedBeforeReturn' BY Zenon, <1>0, <1>1 DEF DeleteInv, DeletedBeforeReturn
<1>10. DeleteInv' BY Zenon, <1>0, <1>1, <1>2, <1>9 DEF DeleteInv
<1>11. UNCHANGED <<Waiting, Issued>> BY Zenon, <1>1, <1>2, MapSame
<1>12. UNCHANGED <<Closed, Outcome>> BY Zenon, <1>1 DEF Closed, Outcome
<1> QED BY Zenon, <1>3, <1>4, <1>5, <1>6, <1>8, <1>10, <1>11, <1>12 DEF QInv

LEMMA StartSteps ==
  ASSUME QInv,
         \/ \E c \in Calls : Execute(c) \/ Cancel(c)
         \/ StartCancelled \/ StartDisconnected \/ Shutdown \/ Connect
  PROVE  QInv' /\ SerialStep
<1>0. call \in [Calls -> {"idle", "sending", "waiting", "returned"}] /\ cancelled \subseteq Calls
  BY Zenon DEF QInv, QType
<1>1. start = "up" => ready BY Zenon DEF QInv, CallInv
<1>2. ASSUME NEW c \in Calls, Execute(c) PROVE QInv' /\ SerialStep
  <2>1. /\ call[c] = "idle" /\ start = "up" /\ call' = [call EXCEPT ![c] = "sending"]
        /\ UNCHANGED <<start, cancelled, ready, loop>>
        /\ UNCHANGED <<result, queue, cmdDone, pending, filter, received, disconnected, conn,
                       reader, qemuVars, wire, fromQemu>>
    BY Zenon, <1>2 DEF Execute, loopVars
  <2>2. Quiet BY Zenon, <1>0, <1>1, <2>1 DEF Quiet
  <2>3. QInv' /\ UNCHANGED <<Waiting, Issued, Closed, Outcome>> BY Zenon, <2>2, QuietStep
  <2> QED BY Zenon, <2>1, <2>3 DEF SerialStep, Serial!vars
<1>3. ASSUME NEW c \in Calls, Cancel(c) PROVE QInv' /\ SerialStep
  <2>1. /\ cancelled' = cancelled \cup {c} /\ UNCHANGED <<call, start, ready, loop>>
        /\ UNCHANGED <<result, queue, cmdDone, pending, filter, received, disconnected, conn,
                       reader, qemuVars, wire, fromQemu>>
    BY Zenon, <1>3 DEF Cancel, loopVars
  <2>2. Quiet BY Zenon, <1>0, <1>1, <2>1 DEF Quiet
  <2>3. QInv' /\ UNCHANGED <<Waiting, Issued, Closed, Outcome>> BY Zenon, <2>2, QuietStep
  <2>4. Serial!ContextDone(c) BY Zenon, <2>1, <2>3 DEF Serial!ContextDone
  <2> QED BY Zenon, <2>3, <2>4 DEF SerialStep, Serial!Next
<1>4. CASE StartCancelled \/ StartDisconnected \/ Shutdown
  <2>1. /\ UNCHANGED <<call, cancelled, ready, loop>> /\ (start' = start \/ start' # "up")
        /\ UNCHANGED <<result, queue, cmdDone, pending, filter, received, disconnected, conn,
                       reader, qemuVars, wire, fromQemu>>
    BY Zenon, <1>4 DEF StartCancelled, StartDisconnected, Shutdown, loopVars
  <2>2. Quiet BY Zenon, <1>0, <1>1, <2>1 DEF Quiet
  <2>3. QInv' /\ UNCHANGED <<Waiting, Issued, Closed, Outcome>> BY Zenon, <2>2, QuietStep
  <2> QED BY Zenon, <2>1, <2>3 DEF SerialStep, Serial!vars
<1>5. CASE Connect
  <2>1. /\ UNCHANGED <<call, cancelled>> /\ ready' /\ loop = "connect" /\ loop' = "select"
        /\ UNCHANGED <<result, queue, cmdDone, pending, filter, received, disconnected, conn,
                       reader, qemuVars, wire, fromQemu>>
    BY Zenon, <1>5 DEF Connect
  <2>2. Quiet BY Zenon, <1>0, <2>1 DEF Quiet
  <2>3. QInv' /\ UNCHANGED <<Waiting, Issued, Closed, Outcome>> BY Zenon, <2>2, QuietStep
  <2> QED BY Zenon, <2>1, <2>3 DEF SerialStep, Serial!vars
<1> QED BY Zenon, <1>2, <1>3, <1>4, <1>5

\* mainLoop returns.
Ends ==
  /\ loop # "send" /\ loop' \in {"drain", "fail", "exited"} /\ conn' = "closed"
  /\ UNCHANGED <<callVars, ready, queue, cmdDone, pending, filter, received, qemuVars, wire>>
  /\ fromQemu' \in Seq(Lines) /\ EventsAreTrue' /\ (reader' = "send" => fromQemu' # << >>)

LEMMA LoopEnds ==
  ASSUME QInv, Ends
  PROVE  QInv' /\ UNCHANGED <<Waiting, Issued, cancelled, Outcome>> /\ Closed'
<1>0. QType /\ CallInv /\ QueueInv /\ SendInv /\ WireInv /\ DeleteInv BY Zenon DEF QInv
<1>1. /\ UNCHANGED <<start, call, result, cancelled, qemu, unplugging, deleted, toQemu, written>>
      /\ UNCHANGED <<ready, queue, cmdDone, pending, filter, received>>
      /\ loop # "send" /\ loop' \in {"drain", "fail", "exited"} /\ conn' = "closed"
      /\ fromQemu' \in Seq(Lines) /\ EventsAreTrue' /\ (reader' = "send" => fromQemu' # << >>)
  BY Zenon DEF Ends, callVars, qemuVars, wire
<1>2. ~Answering /\ ~Answering' /\ ~Live' BY Zenon, <1>1 DEF Answering, Live
<1>3. QType' BY Zenon, <1>0, <1>1 DEF QType
<1>4. CallInv' BY Zenon, <1>0, <1>1 DEF CallInv, InQueue
<1>5. QueueInv' BY Zenon, <1>0, <1>1, <1>2 DEF QueueInv
<1>6. SendInv' /\ WireInv' BY Zenon, <1>0, <1>1, <1>2 DEF SendInv, WireInv
<1>7. DeletedBeforeReturn' BY Zenon, <1>0, <1>1 DEF DeleteInv, DeletedBeforeReturn
<1>8. DeleteInv' BY Zenon, <1>0, <1>1, <1>2, <1>7 DEF DeleteInv, EventsAreTrue
<1>9. UNCHANGED <<Waiting, Issued>> BY Zenon, <1>1, <1>2, MapSame
<1>10. Closed' /\ Outcome' = Outcome BY Zenon, <1>1 DEF Closed, Outcome
<1> QED BY Zenon, <1>1, <1>3, <1>4, <1>5, <1>6, <1>8, <1>9, <1>10 DEF QInv

LEMMA EndSteps ==
  ASSUME QInv, Leave \/ Drain \/ Exit
  PROVE  QInv' /\ SerialStep
<1>0. fromQemu \in Seq(Lines) /\ EventsAreTrue /\ (reader = "send" => fromQemu # << >>)
  BY Zenon DEF QInv, QType, DeleteInv, WireInv, EventsAreTrue
<1>1. CASE Leave
  <2>1. /\ loop = "select" /\ loop' = "drain" /\ conn' = "closed"
        /\ UNCHANGED <<callVars, ready, queue, cmdDone, pending, filter, received, qemuVars, wire>>
        /\ UNCHANGED <<reader, fromQemu, deleted>>
    BY Zenon, <1>1 DEF Leave, qemuVars
  <2>2. EventsAreTrue' BY Zenon, <1>0, <2>1 DEF EventsAreTrue
  <2>3. QInv' /\ UNCHANGED <<Waiting, Issued, cancelled, Outcome>> /\ Closed'
    BY Zenon, <1>0, <2>1, <2>2, LoopEnds DEF Ends
  <2>4. Serial!Lose BY Zenon, <2>3 DEF Serial!Lose, Closed
  <2> QED BY Zenon, <2>3, <2>4 DEF SerialStep, Serial!Next
<1>2. CASE Drain
  <2>1. /\ loop = "drain" /\ loop' = "fail" /\ conn' = conn
        /\ UNCHANGED <<callVars, ready, queue, cmdDone, pending, filter, received, qemuVars, wire>>
        /\ UNCHANGED deleted
        /\ \/ reader = "send" /\ reader' = "scan" /\ fromQemu' = Tail(fromQemu)
           \/ reader = "closed" /\ UNCHANGED <<reader, fromQemu>>
    BY Zenon, <1>2 DEF Drain, qemuVars
  <2>2. conn = "closed" BY Zenon, <2>1 DEF QInv, QType, QueueInv, Live
  <2>3. fromQemu' \in Seq(Lines) /\ EventsAreTrue' /\ reader' # "send"
    <3>1. CASE reader = "send" /\ reader' = "scan" /\ fromQemu' = Tail(fromQemu)
      BY Zenon, <2>1, <3>1, LineRead
    <3>2. CASE reader = "closed" /\ UNCHANGED <<reader, fromQemu>>
      BY Zenon, <1>0, <2>1, <3>2 DEF EventsAreTrue
    <3> QED BY Zenon, <2>1, <3>1, <3>2
  <2>4. QInv' /\ UNCHANGED <<Waiting, Issued, cancelled, Outcome>> /\ Closed'
    BY Zenon, <2>1, <2>2, <2>3, LoopEnds DEF Ends
  <2>5. Closed' = Closed BY Zenon, <2>1 DEF Closed, qemuVars
  <2> QED BY Zenon, <2>4, <2>5 DEF SerialStep, Serial!vars
<1>3. CASE Exit
  <2>1. /\ loop = "fail" /\ loop' = "exited" /\ conn' = conn
        /\ UNCHANGED <<callVars, ready, queue, cmdDone, pending, filter, received, qemuVars, wire>>
        /\ UNCHANGED <<reader, fromQemu, deleted>>
    BY Zenon, <1>3 DEF Exit, qemuVars
  <2>2. conn = "closed" BY Zenon, <2>1 DEF QInv, QType, QueueInv, Live
  <2>3. EventsAreTrue' BY Zenon, <1>0, <2>1 DEF EventsAreTrue
  <2>4. QInv' /\ UNCHANGED <<Waiting, Issued, cancelled, Outcome>> /\ Closed'
    BY Zenon, <1>0, <2>1, <2>2, <2>3, LoopEnds DEF Ends
  <2>5. Closed' = Closed BY Zenon, <2>1 DEF Closed, qemuVars
  <2> QED BY Zenon, <2>4, <2>5 DEF SerialStep, Serial!vars
<1> QED BY Zenon, <1>1, <1>2, <1>3

-----------------------------------------------------------------------------
(* readLoop and QEMU.                                                       *)

LEMMA ScanStep == QInv /\ Scan => QInv' /\ SerialStep
<1> SUFFICES ASSUME QInv, Scan PROVE QInv' /\ SerialStep
  BY Zenon
<1>0. QType /\ CallInv /\ QueueInv /\ SendInv /\ WireInv /\ DeleteInv BY Zenon DEF QInv
<1>1. /\ reader' = "send" => fromQemu # << >>
      /\ UNCHANGED <<start, call, result, cancelled, qemu, unplugging, deleted, toQemu, written>>
      /\ UNCHANGED <<loop, ready, queue, cmdDone, pending, filter, received, disconnected, conn>>
      /\ fromQemu' = fromQemu
  BY Zenon DEF Scan, callVars, loopVars, qemuVars, wire
<1>2. (Answering' <=> Answering) /\ (Live' <=> Live) BY Zenon, <1>1 DEF Answering, Live
<1>3. QType' /\ CallInv' BY Zenon, <1>0, <1>1 DEF QType, CallInv, InQueue
<1>4. QueueInv' /\ SendInv' BY Zenon, <1>0, <1>1, <1>2 DEF QueueInv, SendInv, Front
<1>5. WireInv' BY Zenon, <1>0, <1>1, <1>2 DEF WireInv, Awaiting
<1>6. DeleteInv' BY Zenon, <1>0, <1>1, <1>2 DEF DeleteInv, DeletedBeforeReturn
<1>7. UNCHANGED <<Waiting, Issued>> BY Zenon, <1>1, <1>2, MapSame
<1>8. UNCHANGED <<Closed, cancelled, Outcome>> BY Zenon, <1>1 DEF Closed, Outcome
<1> QED BY Zenon, <1>3, <1>4, <1>5, <1>6, <1>7, <1>8 DEF QInv, SerialStep, Serial!vars

LEMMA QemuDiesStep == QInv /\ QemuDies => QInv' /\ SerialStep
<1> SUFFICES ASSUME QInv, QemuDies PROVE QInv' /\ SerialStep
  BY Zenon
<1>0. QType /\ CallInv /\ QueueInv /\ SendInv /\ WireInv /\ DeleteInv BY Zenon DEF QInv
<1>1. /\ qemu' = "dead" /\ UNCHANGED <<fromQemu, reader, unplugging, deleted, toQemu, written>>
      /\ UNCHANGED <<start, call, result, cancelled>>
      /\ UNCHANGED <<loop, ready, queue, cmdDone, pending, filter, received, disconnected, conn>>
  BY Zenon DEF QemuDies, callVars, loopVars, wire
<1>2. (Answering' <=> Answering) /\ (Live' <=> Live) BY Zenon, <1>1 DEF Answering, Live
<1>3. QType' /\ CallInv' BY Zenon, <1>0, <1>1 DEF QType, CallInv, InQueue
<1>4. QueueInv' /\ SendInv' BY Zenon, <1>0, <1>1, <1>2 DEF QueueInv, SendInv, Front
<1>5. WireInv' BY Zenon, <1>0, <1>1, <1>2 DEF WireInv, Awaiting
<1>6. DeleteInv' BY Zenon, <1>0, <1>1, <1>2 DEF DeleteInv, DeletedBeforeReturn
<1>7. UNCHANGED <<Waiting, Issued>> BY Zenon, <1>1, <1>2, MapSame
<1>8. Closed' = TRUE /\ UNCHANGED <<cancelled, Outcome>> BY Zenon, <1>1 DEF Closed, Outcome
<1>9. Serial!Lose BY Zenon, <1>7, <1>8 DEF Serial!Lose
<1> QED BY Zenon, <1>3, <1>4, <1>5, <1>6, <1>9 DEF QInv, SerialStep, Serial!Next

\* QEMU sends lines: events of devices that are gone, and at most the one answer
\* to the command it has read, at the end.
Speaks(lines) ==
  /\ lines \in Seq(Lines) /\ lines # << >> /\ Says(lines)
  /\ written' = written /\ unplugging' \subseteq Calls /\ deleted \subseteq deleted'
  /\ qemu' = "dead" <=> qemu = "dead"
TellsTruth(lines) ==
  \A i \in 1 .. Len(lines) :
    lines[i][1] = "event" /\ lines[i][2] \in Calls => lines[i][2] \in deleted'
AnswersNothing(lines) ==
  toQemu' = toQemu /\ \A i \in 1 .. Len(lines) : ~IsAnswer(lines[i])
AnswersNext(lines) ==
  /\ toQemu # << >> /\ toQemu' = Tail(toQemu)
  /\ \A i \in 1 .. Len(lines) : IsAnswer(lines[i]) => lines[i][2] = Head(toQemu) /\ i = Len(lines)

LEMMA SaysStep ==
  ASSUME QInv, NEW lines, Speaks(lines), TellsTruth(lines),
         AnswersNothing(lines) \/ AnswersNext(lines)
  PROVE  QInv' /\ SerialStep
<1> DEFINE f == fromQemu
           g == f \o lines
<1>0. QType /\ CallInv /\ QueueInv /\ SendInv /\ WireInv /\ DeleteInv BY Zenon DEF QInv
<1>1. /\ conn = "open" /\ fromQemu' = g /\ reader' = reader
      /\ UNCHANGED <<start, call, result, cancelled, written>>
      /\ UNCHANGED <<loop, ready, queue, cmdDone, pending, filter, received, disconnected, conn>>
      /\ unplugging' \subseteq Calls /\ deleted \subseteq deleted' /\ qemu # "dead" /\ qemu' # "dead"
  BY Zenon DEF Speaks, Says, callVars, loopVars
<1>2. Live /\ Live' /\ (Answering' <=> Answering) BY Zenon, <1>0, <1>1 DEF QueueInv, Live, Answering
<1>3. /\ f \in Seq(Lines) /\ g \in Seq(Lines) /\ Len(f) \in Nat /\ Len(lines) \in Nat
      /\ Len(g) = Len(f) + Len(lines)
      /\ \A i \in 1 .. Len(g) : g[i] = IF i <= Len(f) THEN f[i] ELSE lines[i - Len(f)]
  <2>1. f \in Seq(Lines) /\ lines \in Seq(Lines) BY Zenon, <1>0 DEF QType, Speaks
  <2> QED BY Zenon, <2>1, ConcatFacts
<1>4. g # << >>
  <2>1. Len(lines) # 0 BY DEF Speaks
  <2>2. Len(g) # 0 BY <1>3, <2>1
  <2> QED BY <2>2
<1>5. ASSUME NEW i \in 1 .. Len(g)
      PROVE  \/ i \in 1 .. Len(f) /\ g[i] = f[i]
             \/ i > Len(f) /\ i - Len(f) \in 1 .. Len(lines) /\ g[i] = lines[i - Len(f)]
  <2>1. g[i] = IF i <= Len(f) THEN f[i] ELSE lines[i - Len(f)] BY Zenon, <1>3, <1>5
  <2>2. \/ i \in 1 .. Len(f) /\ i <= Len(f)
        \/ i > Len(f) /\ ~(i <= Len(f)) /\ i - Len(f) \in 1 .. Len(lines)
    <3>1. Len(f) \in Nat /\ Len(lines) \in Nat /\ i \in 1 .. Len(f) + Len(lines) BY Zenon, <1>3, <1>5
    <3>2. \A k \in 1 .. Len(f) + Len(lines) :
             \/ k \in 1 .. Len(f) /\ k <= Len(f)
             \/ k > Len(f) /\ ~(k <= Len(f)) /\ k - Len(f) \in 1 .. Len(lines)
      BY Zenon, <3>1, IndexParts
    <3> QED BY Zenon, <3>1, <3>2
  <2> QED BY Zenon, <2>1, <2>2
<1> HIDE DEF g
<1>6. toQemu \in Seq(Calls) /\ (toQemu # << >> => toQemu = <<Head(toQemu)>> /\ Awaiting(Head(toQemu)))
  BY Zenon, <1>0, <1>2 DEF QType, WireInv
<1>7. \/ AnswersNothing(lines) /\ toQemu' = toQemu
      \/ AnswersNext(lines) /\ toQemu' = << >>
  <2>1. CASE AnswersNothing(lines)
    <3>1. toQemu' = toQemu BY Zenon, <2>1 DEF AnswersNothing
    <3> QED BY Zenon, <2>1, <3>1
  <2>2. CASE AnswersNext(lines)
    <3>1. toQemu # << >> /\ toQemu' = Tail(toQemu) BY Zenon, <2>2 DEF AnswersNext
    <3>2. toQemu = <<Head(toQemu)>> BY Zenon, <1>6, <3>1
    <3>3. Tail(<<Head(toQemu)>>) = << >> OBVIOUS
    <3>4. toQemu' = << >> BY Zenon, <3>1, <3>2, <3>3
    <3> QED BY Zenon, <2>2, <3>4
  <2> QED BY Zenon, <2>1, <2>2
<1>8. \A d : Awaiting(d)' <=> Awaiting(d) BY Zenon, <1>1 DEF Awaiting
<1>9. QType'
  <2>1. << >> \in Seq(Calls) OBVIOUS
  <2>2. toQemu' \in Seq(Calls) BY Zenon, <1>6, <1>7, <2>1
  <2>3. fromQemu' \in Seq(Lines) BY Zenon, <1>1, <1>3
  <2> QED BY Zenon, <1>0, <1>1, <2>2, <2>3 DEF QType
<1>10. CallInv' BY Zenon, <1>0, <1>1 DEF CallInv, InQueue
<1>11. QueueInv' BY Zenon, <1>0, <1>1, <1>2 DEF QueueInv, Front
<1>12. SendInv' BY Zenon, <1>0, <1>1, <1>2 DEF SendInv
<1>13. \A i \in 1 .. Len(g) : IsAnswer(g[i]) =>
         /\ Awaiting(g[i][2]) /\ toQemu' = << >>
         /\ \A j \in 1 .. Len(g) : IsAnswer(g[j]) => j = i
  <2>1. CASE AnswersNothing(lines) /\ toQemu' = toQemu
    <3>1. \A i \in 1 .. Len(g) : IsAnswer(g[i]) => i \in 1 .. Len(f) /\ g[i] = f[i]
      BY Zenon, <1>5, <2>1 DEF AnswersNothing
    <3> QED BY Zenon, <1>0, <1>2, <2>1, <3>1 DEF WireInv
  <2>2. CASE AnswersNext(lines) /\ toQemu' = << >>
    <3>1. toQemu # << >> BY Zenon, <2>2 DEF AnswersNext
    <3>2. \A i \in 1 .. Len(f) : ~IsAnswer(f[i]) BY Zenon, <1>0, <1>2, <3>1 DEF WireInv
    <3>3. ASSUME NEW i \in 1 .. Len(g), IsAnswer(g[i])
          PROVE  i = Len(f) + Len(lines) /\ g[i][2] = Head(toQemu)
      <4>1. i - Len(f) \in 1 .. Len(lines) /\ g[i] = lines[i - Len(f)] BY Zenon, <1>5, <3>2, <3>3
      <4>2. i - Len(f) = Len(lines) /\ g[i][2] = Head(toQemu) BY Zenon, <2>2, <3>3, <4>1 DEF AnswersNext
      <4>3. i \in Int /\ Len(f) \in Int /\ Len(lines) \in Int BY <1>3, <3>3
      <4>4. i = Len(f) + Len(lines) BY <4>2, <4>3
      <4> QED BY Zenon, <4>2, <4>4
    <3> QED BY Zenon, <1>6, <2>2, <3>1, <3>3
  <2> QED BY Zenon, <1>7, <2>1, <2>2
<1>14. WireInv'
  <2>1. toQemu' # << >> => toQemu' = <<Head(toQemu')>> /\ Awaiting(Head(toQemu))'
    BY Zenon, <1>6, <1>7, <1>8
  <2>2. \A d \in Calls : received'[d] # NoCall => received'[d] = d /\ d \in written'
    BY Zenon, <1>0, <1>1 DEF WireInv
  <2> QED BY Zenon, <1>1, <1>4, <1>8, <1>13, <2>1, <2>2 DEF WireInv
<1>15. DeleteInv'
  <2>1. DeletedBeforeReturn' BY Zenon, <1>0, <1>1 DEF DeleteInv, DeletedBeforeReturn
  <2>2. \A i \in 1 .. Len(g) : g[i][1] = "event" /\ g[i][2] \in Calls => g[i][2] \in deleted'
    BY Zenon, <1>0, <1>1, <1>5 DEF DeleteInv, TellsTruth
  <2> QED BY Zenon, <1>0, <1>1, <1>2, <2>1, <2>2 DEF DeleteInv
<1>16. UNCHANGED <<Waiting, Issued>> BY Zenon, <1>1, <1>2, MapSame
<1>17. UNCHANGED <<cancelled, Outcome>> /\ Closed' = Closed BY Zenon, <1>1 DEF Closed, Outcome
<1>18. SerialStep BY Zenon, <1>16, <1>17 DEF SerialStep, Serial!vars
<1> QED BY Zenon, <1>9, <1>10, <1>11, <1>12, <1>14, <1>15, <1>18 DEF QInv

LEMMA OneLine ==
  ASSUME NEW l \in Lines
  PROVE  /\ <<l>> \in Seq(Lines) /\ <<l>> # << >>
         /\ \A i \in 1 .. Len(<<l>>) : <<l>>[i] = l /\ i = Len(<<l>>)
<1>1. <<l>> \in Seq(Lines) /\ <<l>> # << >> /\ Len(<<l>>) = 1 /\ <<l>>[1] = l OBVIOUS
<1> QED BY <1>1

LEMMA QemuSteps ==
  ASSUME QInv, QemuStep \/ OtherEvent
  PROVE  QInv' /\ SerialStep
<1>0. /\ toQemu \in Seq(Calls) /\ unplugging \subseteq Calls /\ NoCall \notin Calls
      /\ toQemu # << >> => Head(toQemu) \in Calls
  BY Zenon, CallsAssumption, TailFacts DEF QInv, QType
<1>1. CASE Greets
  <2> DEFINE l == <<"greeting">>
  <2>1. Says(<<l>>) /\ UNCHANGED <<unplugging, deleted, toQemu, written>> /\ qemu # "dead"
        /\ qemu' # "dead"
    BY Zenon, <1>1 DEF Greets, wire
  <2>2. l \in Lines /\ l[1] = "greeting" BY Zenon DEF Lines
  <2> HIDE DEF l
  <2>3. Speaks(<<l>>) BY Zenon, <1>0, <2>1, <2>2, OneLine DEF Speaks
  <2>4. TellsTruth(<<l>>) BY Zenon, <2>2, OneLine DEF TellsTruth
  <2>5. AnswersNothing(<<l>>) BY Zenon, <2>1, <2>2, OneLine DEF AnswersNothing, IsAnswer
  <2> QED BY Zenon, <2>3, <2>4, <2>5, SaysStep
<1>2. CASE AnswersError
  <2> DEFINE l == <<"error", Head(toQemu)>>
  <2>1. /\ Says(<<l>>) /\ UNCHANGED <<qemu, unplugging, deleted, written>>
        /\ toQemu # << >> /\ toQemu' = Tail(toQemu)
    BY Zenon, <1>2 DEF AnswersError, qemuVars
  <2>2. l \in Lines /\ l[1] = "error" /\ l[2] = Head(toQemu) BY Zenon, <1>0, <2>1 DEF Lines, OrNone
  <2> HIDE DEF l
  <2>3. Speaks(<<l>>) BY Zenon, <1>0, <2>1, <2>2, OneLine DEF Speaks
  <2>4. TellsTruth(<<l>>) BY Zenon, <2>2, OneLine DEF TellsTruth
  <2>5. AnswersNext(<<l>>) BY Zenon, <2>1, <2>2, OneLine DEF AnswersNext
  <2> QED BY Zenon, <2>3, <2>4, <2>5, SaysStep
<1>3. CASE AnswersReturn
  <2> DEFINE c == Head(toQemu)
             e == <<"event", c>>
             l == <<"return", c>>
  <2>1. toQemu # << >> /\ toQemu' = Tail(toQemu) /\ UNCHANGED <<qemu, written>> /\ c \in Calls
    BY Zenon, <1>0, <1>3 DEF AnswersReturn
  <2>2. l \in Lines /\ l[1] = "return" /\ l[2] = c BY Zenon, <2>1 DEF Lines, OrNone
  <2>3. e \in Lines /\ e[1] = "event" /\ e[2] = c BY Zenon, <2>1 DEF Lines, OrNone
  <2>4. \/ Says(<<l>>) /\ UNCHANGED deleted /\ unplugging' \subseteq unplugging \cup {c}
        \/ Says(<<e, l>>) /\ deleted' = deleted \cup {c} /\ UNCHANGED unplugging
    BY Zenon, <1>3 DEF AnswersReturn
  <2> HIDE DEF e, l
  <2>5. CASE Says(<<l>>) /\ UNCHANGED deleted /\ unplugging' \subseteq unplugging \cup {c}
    <3>1. unplugging' \subseteq Calls BY Zenon, <1>0, <2>1, <2>5
    <3>2. Speaks(<<l>>) BY Zenon, <2>1, <2>2, <2>5, <3>1, OneLine DEF Speaks
    <3>3. TellsTruth(<<l>>) BY Zenon, <2>2, OneLine DEF TellsTruth
    <3>4. AnswersNext(<<l>>) BY Zenon, <2>1, <2>2, OneLine DEF AnswersNext
    <3> QED BY Zenon, <3>2, <3>3, <3>4, SaysStep
  <2>6. CASE Says(<<e, l>>) /\ deleted' = deleted \cup {c} /\ UNCHANGED unplugging
    <3> DEFINE s == <<e, l>>
    <3>1. s \in Seq(Lines) /\ s # << >> /\ Len(s) = 2 /\ s[1] = e /\ s[2] = l BY <2>2, <2>3
    <3>2. Says(s) /\ deleted \subseteq deleted' /\ c \in deleted' BY Zenon, <2>6
    <3> HIDE DEF s
    <3>3. \A i \in 1 .. Len(s) : s[i] = e \/ (s[i] = l /\ i = Len(s)) BY <3>1
    <3>4. Speaks(s) BY Zenon, <1>0, <2>1, <2>6, <3>1, <3>2 DEF Speaks
    <3>5. TellsTruth(s) BY Zenon, <2>2, <2>3, <3>2, <3>3 DEF TellsTruth
    <3>6. AnswersNext(s) BY Zenon, <2>1, <2>2, <2>3, <3>3 DEF AnswersNext, IsAnswer
    <3> QED BY Zenon, <3>4, <3>5, <3>6, SaysStep
  <2> QED BY Zenon, <2>4, <2>5, <2>6
<1>4. ASSUME NEW c \in Calls, DeviceDeleted(c) PROVE QInv' /\ SerialStep
  <2> DEFINE l == <<"event", c>>
  <2>1. /\ Says(<<l>>) /\ UNCHANGED <<qemu, toQemu, written>>
        /\ unplugging' \subseteq Calls /\ deleted \subseteq deleted' /\ c \in deleted'
    BY Zenon, <1>0, <1>4 DEF DeviceDeleted, wire
  <2>2. l \in Lines /\ l[1] = "event" /\ l[2] = c BY Zenon DEF Lines, OrNone
  <2> HIDE DEF l
  <2>3. Speaks(<<l>>) BY Zenon, <2>1, <2>2, OneLine DEF Speaks
  <2>4. TellsTruth(<<l>>) BY Zenon, <2>1, <2>2, OneLine DEF TellsTruth
  <2>5. AnswersNothing(<<l>>) BY Zenon, <2>1, <2>2, OneLine DEF AnswersNothing, IsAnswer
  <2> QED BY Zenon, <2>3, <2>4, <2>5, SaysStep
<1>5. CASE OtherEvent
  <2> DEFINE l == <<"event", NoCall>>
  <2>1. Says(<<l>>) /\ UNCHANGED <<qemu, unplugging, deleted, toQemu, written>>
    BY Zenon, <1>5 DEF OtherEvent, wire
  <2>2. l \in Lines /\ l[1] = "event" /\ l[2] = NoCall BY Zenon DEF Lines, OrNone
  <2> HIDE DEF l
  <2>3. Speaks(<<l>>) BY Zenon, <1>0, <2>1, <2>2, OneLine DEF Speaks
  <2>4. TellsTruth(<<l>>) BY Zenon, <1>0, <2>2, OneLine DEF TellsTruth
  <2>5. AnswersNothing(<<l>>) BY Zenon, <2>1, <2>2, OneLine DEF AnswersNothing, IsAnswer
  <2> QED BY Zenon, <2>3, <2>4, <2>5, SaysStep
<1> QED BY Zenon, <1>1, <1>2, <1>3, <1>4, <1>5 DEF QemuStep

-----------------------------------------------------------------------------
(* The theorems.                                                            *)

LEMMA QInit == Init => QInv /\ Serial!Init
<1> SUFFICES ASSUME Init PROVE QInv /\ Serial!Init
  BY Zenon
<1>1. /\ queue = << >> /\ toQemu = << >> /\ fromQemu = << >> /\ Len(<< >>) = 0
      /\ << >> \in Seq(Calls) /\ << >> \in Seq(Lines)
  BY DEF Init
<1>2. Nothing \in Results /\ Nothing[1] = "none" /\ Nothing[2] = NoCall
  BY Zenon DEF Nothing, Results, OrNone
<1>3. QType
  BY Zenon, <1>1, <1>2, NoSendFacts, CallsAssumption DEF Init, QType, OrNone, PendingType
<1>4. /\ loop = "select" /\ ~Answering /\ Live /\ Front(queue) = NoCall /\ ~FrontIsIssued
  BY Zenon, <1>1 DEF Init, Answering, Live, Front, FrontIsIssued
<1>5. CallInv BY <1>1, NoSendFacts, CallsAssumption DEF Init, CallInv, InQueue
<1>6. QueueInv BY <1>1, <1>4 DEF Init, QueueInv
<1>7. SendInv /\ WireInv BY <1>1, <1>4 DEF Init, SendInv, WireInv
<1>8. DeleteInv
  BY <1>1, <1>2, <1>4, CallsAssumption DEF Init, DeleteInv, DeletedBeforeReturn
<1>9. Outcome = [c \in Calls |-> "none"] BY Zenon, <1>2 DEF Init, Outcome
<1>10. Waiting = << >> /\ Issued = NoCall /\ ~Closed BY Zenon, <1>1, <1>4 DEF Init, Waiting, Issued, Closed
<1>11. Serial!Init BY Zenon, <1>9, <1>10 DEF Serial!Init, Init, Closed
<1> QED BY Zenon, <1>3, <1>5, <1>6, <1>7, <1>8, <1>11 DEF QInv

LEMMA QNext == QInv /\ [Next]_vars => QInv' /\ SerialStep
<1> SUFFICES ASSUME QInv, [Next]_vars PROVE QInv' /\ SerialStep
  BY Zenon
<1>1. CASE UNCHANGED vars
  <2>1. QInv' BY ZenonT(60), <1>1 DEF vars, callVars, loopVars, qemuVars, wire, QInv, QType, CallInv, InQueue,
                 QueueInv, Answering, Live, Front, SendInv, WireInv, Awaiting, DeleteInv,
                 DeletedBeforeReturn
  <2>2. UNCHANGED <<Waiting, Issued, Closed, cancelled, Outcome>>
    BY Zenon, <1>1 DEF vars, callVars, loopVars, qemuVars, wire, Waiting, Issued, FrontIsIssued, Front,
                Answering, Closed, Outcome
  <2> QED BY Zenon, <2>1, <2>2 DEF SerialStep, Serial!vars
<1>2. ASSUME NEW c \in Calls, Execute(c) \/ CallStep(c) \/ Cancel(c) PROVE QInv' /\ SerialStep
  BY Zenon, <1>2, StartSteps, CallSteps
<1>3. CASE StartCancelled \/ StartDisconnected \/ Shutdown BY Zenon, <1>3, StartSteps
<1>4. CASE LoopStep
  BY Zenon, <1>4, AcceptStep, InputStep, StartSteps, CancelStep, DeliverStep, EndSteps, FailStep DEF LoopStep
<1>5. CASE Scan \/ QemuStep \/ OtherEvent \/ QemuDies
  BY Zenon, <1>5, ScanStep, QemuSteps, QemuDiesStep
<1> QED BY Zenon, <1>1, <1>2, <1>3, <1>4, <1>5 DEF Next

\* QMP: the command queue of mainLoop implements the serial executor: for any number
\* of callers, whatever is cancelled and whenever QEMU dies, commands are issued one
\* at a time in the order accepted and a caller is given its own answer.
THEOREM QueueIsSerial == Spec => SerialSpec
<1>1. Init => QInv /\ Serial!Init BY Zenon, QInit
<1>2. QInv /\ [Next]_vars => QInv' /\ [Serial!Next]_(Serial!vars) BY Zenon, QNext DEF SerialStep
<1> QED BY <1>1, <1>2, PTL DEF Spec, SerialSpec, Serial!Spec

\* ExecuteDeviceDel: a call that reports success returns after its own device is gone,
\* for any number of calls, cancelled contexts and events.
THEOREM DeviceIsGone == Spec => []DeletedBeforeReturn
<1>1. Init => QInv BY Zenon, QInit
<1>2. QInv /\ [Next]_vars => QInv' BY Zenon, QNext
<1>3. QInv => DeletedBeforeReturn BY Zenon DEF QInv, DeleteInv
<1> QED BY <1>1, <1>2, <1>3, PTL DEF Spec
=============================================================================
