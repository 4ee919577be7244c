------------------------ MODULE DeliveryEpoch_proofs ------------------------
(***************************************************************************)
(* Proofs about DeliveryEpoch, for every set of messages and threads, every *)
(* prefetch window and any number of lost connections and failing tasks.   *)
(***************************************************************************)
EXTENDS DeliveryEpoch, TLAPS, SequenceTheorems

(* A channel that is closed has nothing outstanding, and nothing that was  *)
(* begun on it will be answered.                                           *)
ClosedIsSilent ==
    ~open =>
        /\ unacked = {} /\ answers = <<>>
        /\ \A h \in Threads : ~running[h].bound

(* The broker counts the deliveries of a channel: a tag names one of them. *)
TagNamesOne ==
    /\ \A d \in unacked : d.tag < nextTag
    /\ \A d, e \in unacked : d.tag = e.tag => d = e

(* Who has a delivery in hand: the executor's backlog, a thread, or the    *)
(* callbacks that wait for the pika thread.                                *)
Busy == {h \in Threads : running[h] # NoTask}

TagsOf(s)   == {s[i].tag : i \in DOMAIN s}
RunningTags == {running[h].tag : h \in Busy}

EachTagOnce(s) == \A i, j \in DOMAIN s : s[i].tag = s[j].tag => i = j

(* No delivery is in two hands: it was submitted once, is run by one       *)
(* thread, and is answered once.                                           *)
OneHand ==
    /\ EachTagOnce(backlog) /\ EachTagOnce(answers)
    /\ \A g, h \in Busy : running[g].tag = running[h].tag => g = h
    /\ TagsOf(backlog) \cap RunningTags = {}
    /\ TagsOf(backlog) \cap TagsOf(answers) = {}
    /\ RunningTags \cap TagsOf(answers) = {}

(* What is in hand is a delivery the broker waits for, of that message.    *)
HandsOnOutstanding ==
    /\ \A i \in DOMAIN backlog : Delivery(backlog[i].msg, backlog[i].tag) \in unacked
    /\ \A h \in Busy : running[h].bound /\ Delivery(running[h].msg, running[h].tag) \in unacked
    /\ \A i \in DOMAIN answers : Delivery(answers[i].msg, answers[i].tag) \in unacked

(* The first connection: as long as it is open every task belongs to it.   *)
FirstConnection ==
    drops = 0 =>
        /\ open => OneHand /\ HandsOnOutstanding
        /\ ~open => stopping

(* A message is acknowledged for a stored result.                          *)
AckAfterResult ==
    \A i \in DOMAIN answers : answers[i].kind = "ack" => answers[i].msg \in processed

(* Without failing tasks nothing is given back by an answer.               *)
OnlyAcks == faults = 0 => \A i \in DOMAIN answers : answers[i].kind = "ack"

(* A message nobody has finished is queued or has not left the worker.     *)
Waiting(m) ==
    \/ m \in queue \cup processed
    \/ \E i \in DOMAIN backlog : backlog[i].msg = m
    \/ \E h \in Threads : running[h].msg = m

NobodyForgets == faults = 0 => \A m \in Messages : Waiting(m)

EInv ==
    /\ TypeOK
    /\ ClosedIsSilent /\ TagNamesOne
    /\ FirstConnection
    /\ AckAfterResult /\ OnlyAcks /\ NobodyForgets
    /\ SettledIsProcessed

---------------------------------------------------------------------------
(* Sequences at their two ends.                                            *)

LEMMA TailEntries ==
  ASSUME NEW S, NEW s \in Seq(S), s # <<>>
  PROVE  /\ 1 \in DOMAIN s /\ Head(s) = s[1]
         /\ Tail(s) \in Seq(S)
         /\ \A i \in DOMAIN Tail(s) :
               i + 1 \in DOMAIN s /\ i + 1 # 1 /\ Tail(s)[i] = s[i + 1]
         /\ \A i, j \in DOMAIN Tail(s) : i + 1 = j + 1 => i = j
         /\ \A i \in DOMAIN s : i = 1 \/ i - 1 \in DOMAIN Tail(s)
         /\ \A i \in DOMAIN s : i # 1 => Tail(s)[i - 1] = s[i]
OBVIOUS

LEMMA AppendEntries ==
  ASSUME NEW S, NEW s \in Seq(S), NEW x \in S
  PROVE  /\ Append(s, x) \in Seq(S)
         /\ DOMAIN Append(s, x) = DOMAIN s \cup {Len(s) + 1}
         /\ Len(s) + 1 \notin DOMAIN s
         /\ \A i \in DOMAIN s : Append(s, x)[i] = s[i]
         /\ Append(s, x)[Len(s) + 1] = x
<1>1. /\ DOMAIN Append(s, x) = 1..(Len(s) + 1)
      /\ DOMAIN s = 1..Len(s)
      /\ Len(s) \in Nat
      /\ \A i \in 1..Len(s) : Append(s, x)[i] = s[i]
      /\ Append(s, x)[Len(s) + 1] = x
      /\ Append(s, x) \in Seq(S)
  OBVIOUS
<1>2. 1..(Len(s) + 1) = (1..Len(s)) \cup {Len(s) + 1} /\ Len(s) + 1 \notin 1..Len(s)
  BY <1>1
<1> QED
  BY <1>1, <1>2

(* Tags that differ stay different when the oldest entry leaves,           *)
LEMMA TagsOfTail ==
  ASSUME NEW S, NEW s \in Seq(S), s # <<>>, EachTagOnce(s)
  PROVE  EachTagOnce(Tail(s)) /\ TagsOf(Tail(s)) = TagsOf(s) \ {s[1].tag}
BY TailEntries DEF EachTagOnce, TagsOf

(* and when one with another tag joins.                                    *)
LEMMA TagsOfAppend ==
  ASSUME NEW S, NEW s \in Seq(S), NEW x \in S, EachTagOnce(s), x.tag \notin TagsOf(s)
  PROVE  EachTagOnce(Append(s, x)) /\ TagsOf(Append(s, x)) = TagsOf(s) \cup {x.tag}
BY AppendEntries DEF EachTagOnce, TagsOf

---------------------------------------------------------------------------
(* Types.                                                                  *)

(* A thread without a task is told from a busy one by its tag.             *)
LEMMA Tasks ==
  ASSUME TypeOK
  PROVE  /\ NoTask \notin Task /\ ~NoTask.bound
         /\ \A h \in Threads : running[h] \in Task \cup {NoTask}
         /\ \A h \in Busy : running[h] \in Task
BY DEF Task, NoTask, TypeOK, Busy

(* What a thread begins is the oldest task of the backlog.                 *)
LEMMA Started ==
  ASSUME TypeOK, NEW h \in Threads, Start(h)
  PROVE  /\ running'[h] = [msg |-> backlog[1].msg, tag |-> backlog[1].tag, bound |-> open]
         /\ running'[h] \in Task
         /\ running' \in [Threads -> Task \cup {NoTask}]
         /\ \A g \in Threads : g # h => running'[g] = running[g]
         /\ running[h] = NoTask /\ Busy' = Busy \cup {h} /\ h \notin Busy
<1>0. backlog \in Seq(Submitted) /\ backlog # <<>>
  BY DEF Start, TypeOK
<1>1. backlog[1] \in Submitted /\ Head(backlog) = backlog[1]
  BY <1>0, ElementOfSeq, TailEntries
<1>2. running' = [running EXCEPT ![h] =
                   [msg |-> backlog[1].msg, tag |-> backlog[1].tag, bound |-> open]]
  BY <1>1 DEF Start
<1>3. [msg |-> backlog[1].msg, tag |-> backlog[1].tag, bound |-> open] \in Task
  BY <1>1 DEF Task, Submitted, TypeOK
<1>4. running \in [Threads -> Task \cup {NoTask}] /\ running[h] = NoTask
  BY DEF Start, TypeOK
<1> QED
  BY <1>2, <1>3, <1>4, Tasks DEF Busy

(* A task that ends leaves its thread free, and at most one answer.        *)
AnswerOf(task, kind) == [kind |-> kind, msg |-> task.msg, tag |-> task.tag]

Ends(h, kind) ==
  /\ running[h] # NoTask
  /\ Schedule(running[h], kind)
  /\ running' = [running EXCEPT ![h] = NoTask]
  /\ UNCHANGED <<brokerVars, connVars, backlog, stopping, drops>>

LEMMA Ended ==
  ASSUME TypeOK, NEW h \in Threads, NEW kind \in {"ack", "nack"}, Ends(h, kind)
  PROVE  /\ h \in Busy /\ running[h] \in Task /\ Busy' = Busy \ {h}
         /\ AnswerOf(running[h], kind) \in Answer
         /\ \A g \in Threads : g # h => running'[g] = running[g]
         /\ running' \in [Threads -> Task \cup {NoTask}] /\ running'[h] = NoTask
         /\ answers' \in Seq(Answer)
         /\ answers' = IF running[h].bound THEN Append(answers, AnswerOf(running[h], kind))
                                           ELSE answers
<1>1. running \in [Threads -> Task \cup {NoTask}] /\ running[h] \in Task
  BY DEF TypeOK, Task, Ends
<1>2. AnswerOf(running[h], kind) \in Answer
  BY <1>1 DEF AnswerOf, Task, Answer
<1>3. answers \in Seq(Answer)
  BY DEF TypeOK
<1>4. answers' = IF running[h].bound THEN Append(answers, AnswerOf(running[h], kind)) ELSE answers
  BY DEF Ends, Schedule, AnswerOf
<1>5. answers' \in Seq(Answer)
  BY <1>2, <1>3, <1>4, AppendEntries
<1>6. running' = [running EXCEPT ![h] = NoTask]
  BY DEF Ends
<1> QED
  BY <1>1, <1>2, <1>4, <1>5, <1>6 DEF Busy, Ends

(* Finish and Raise are such ends.                                         *)
LEMMA Endings ==
  ASSUME NEW h \in Threads
  PROVE  /\ Finish(h) => Ends(h, "ack") /\ processed' = processed \cup {running[h].msg}
                          /\ faults' = faults
         /\ Raise(h) => Ends(h, "nack") /\ processed' = processed
                         /\ faults < MaxFaults /\ faults' = faults + 1
BY DEF Finish, Raise, Ends, counters

(* A closed channel leaves the tasks where they are, unable to answer.     *)
LEMMA Closed ==
  ASSUME TypeOK, Close
  PROVE  /\ Busy' = Busy
         /\ \A h \in Threads : /\ ~running'[h].bound
                               /\ running'[h].msg = running[h].msg
                               /\ running'[h].tag = running[h].tag
         /\ running' \in [Threads -> Task \cup {NoTask}]
<1>1. running \in [Threads -> Task \cup {NoTask}]
  BY DEF TypeOK, Task
<1>2. \A h \in Threads : running'[h] = [running[h] EXCEPT !.bound = FALSE]
  BY DEF Close
<1>3. ASSUME NEW h \in Threads, running[h] \in Task
      PROVE  /\ running'[h] \in Task /\ ~running'[h].bound
             /\ running'[h].msg = running[h].msg /\ running'[h].tag = running[h].tag
  BY <1>2, <1>3 DEF Task
<1>4. ASSUME NEW h \in Threads, running[h] = NoTask
      PROVE  running'[h] = NoTask
  BY <1>2, <1>4 DEF NoTask
<1>5. running' \in [Threads -> Task \cup {NoTask}]
  BY <1>1, <1>3, <1>4 DEF Close
<1> QED
  BY <1>1, <1>3, <1>4, <1>5, Tasks DEF Busy

LEMMA InitType == Init => TypeOK
<1> SUFFICES ASSUME Init PROVE TypeOK
  OBVIOUS
<1>1. backlog = <<>> /\ answers = <<>> /\ running = [h \in Threads |-> NoTask]
  BY DEF Init
<1>2. /\ backlog \in Seq(Submitted)
      /\ answers \in Seq(Answer)
  BY <1>1
<1>3. drops \in 0..MaxDrops /\ faults \in 0..MaxFaults
  BY EpochAssumption DEF Init
<1>4. running \in [Threads -> Task \cup {NoTask}]
  BY <1>1
<1>5. queue \subseteq Messages /\ processed \subseteq Messages /\ unacked \subseteq Submitted
  BY DEF Init
<1>6. open \in BOOLEAN /\ stopping \in BOOLEAN
  BY Zenon DEF Init
<1>7. nextTag \in Nat \ {0}
  BY DEF Init
<1> QED
  BY <1>2, <1>3, <1>4, <1>5, <1>6, <1>7, Zenon DEF TypeOK

LEMMA TypeStep ==
  ASSUME TypeOK, [Next]_vars
  PROVE  TypeOK'
<1> USE DEF brokerVars, connVars, counters
<1>0. TypeOK
  OBVIOUS
<1>1. ASSUME NEW m \in queue, Deliver(m)
      PROVE  TypeOK'
  <2>1. m \in Messages /\ nextTag \in Nat \ {0}
    BY <1>1 DEF TypeOK
  <2>2. Delivery(m, nextTag) \in Submitted
    BY <2>1 DEF Delivery, Submitted
  <2>3. backlog' \in Seq(Submitted)
    BY <1>1, <2>2, AppendEntries DEF Deliver, TypeOK
  <2> QED
    BY <1>1, <2>1, <2>2, <2>3 DEF Deliver, TypeOK
<1>2. ASSUME NEW h \in Threads, Start(h)
      PROVE  TypeOK'
  <2>1. backlog' \in Seq(Submitted)
    BY <1>2, TailEntries DEF Start, TypeOK
  <2>2. running' \in [Threads -> Task \cup {NoTask}]
    BY <1>2, Started DEF Task
  <2> QED
    BY <1>2, <2>1, <2>2 DEF Start, TypeOK
<1>3. ASSUME NEW h \in Threads, Finish(h) \/ Raise(h)
      PROVE  TypeOK'
  <2>1. PICK kind \in {"ack", "nack"} : Ends(h, kind)
    BY <1>3, Endings
  <2>2. /\ running[h] \in Task
        /\ answers' \in Seq(Answer)
        /\ running' \in [Threads -> Task \cup {NoTask}]
    BY <2>1, Ended DEF Task
  <2>3. processed' \subseteq Messages /\ faults' \in 0..MaxFaults
    BY <1>3, <2>2, EpochAssumption, Endings DEF TypeOK, Task
  <2> QED
    BY <2>1, <2>2, <2>3 DEF Ends, TypeOK
<1>4. ASSUME AnswerArrives
      PROVE  TypeOK'
  <2>1. answers' \in Seq(Answer)
    BY <1>4, TailEntries DEF AnswerArrives, TypeOK
  <2>2. queue' \subseteq Messages /\ unacked' \subseteq unacked
    BY <1>4 DEF AnswerArrives, TypeOK, Outstanding, Submitted
  <2> QED
    BY <1>4, <2>1, <2>2 DEF AnswerArrives, TypeOK
<1>5. ASSUME Close, drops' \in 0..MaxDrops, faults' = faults
      PROVE  TypeOK'
  <2>1. running' \in [Threads -> Task \cup {NoTask}]
    BY <1>5, Closed DEF Task
  <2>2. queue' \subseteq Messages
    BY <1>5 DEF Close, TypeOK, Submitted
  <2>3. answers' \in Seq(Answer) /\ unacked' \subseteq Submitted
    BY <1>5 DEF Close
  <2>4. open' \in BOOLEAN /\ stopping' \in BOOLEAN
    BY <1>5, Zenon DEF Close, TypeOK
  <2>5. UNCHANGED <<nextTag, backlog, processed, faults>>
    BY <1>5 DEF Close
  <2> QED
    BY <1>5, <2>1, <2>2, <2>3, <2>4, <2>5 DEF TypeOK
<1>6. ASSUME AnswerRefused \/ ConnectionLost \/ Disconnect
      PROVE  TypeOK'
  BY <1>5, <1>6, EpochAssumption DEF AnswerRefused, ConnectionLost, Disconnect, TypeOK
<1>7. ASSUME Connect \/ Stop \/ (\E m \in queue : OtherWorker(m)) \/ UNCHANGED vars
      PROVE  TypeOK'
  <2>1. CASE Connect
    BY <2>1 DEF Connect, TypeOK
  <2>2. CASE Stop
    BY <2>2 DEF Stop, TypeOK
  <2>3. ASSUME NEW m \in queue, OtherWorker(m)
        PROVE  TypeOK'
    BY <2>3 DEF OtherWorker, TypeOK
  <2>4. CASE UNCHANGED vars
    BY <2>4 DEF vars, TypeOK
  <2> QED
    BY <1>7, <2>1, <2>2, <2>3, <2>4
<1> QED
  BY <1>1, <1>2, <1>3, <1>4, <1>6, <1>7 DEF Next, PikaStep, ThreadStep

---------------------------------------------------------------------------
(* The channel.                                                            *)

LEMMA ChannelStep ==
  ASSUME TypeOK, ClosedIsSilent, TagNamesOne, [Next]_vars
  PROVE  ClosedIsSilent' /\ TagNamesOne'
<1> USE DEF brokerVars, connVars, counters, ClosedIsSilent, TagNamesOne
<1>0. ClosedIsSilent /\ TagNamesOne
  OBVIOUS
<1>1. ASSUME NEW m \in queue, Deliver(m)
      PROVE  ClosedIsSilent' /\ TagNamesOne'
  <2>1. open' /\ nextTag' = nextTag + 1 /\ unacked' = unacked \cup {Delivery(m, nextTag)}
    BY <1>1 DEF Deliver
  <2>2. nextTag \in Nat /\ \A d \in unacked : d.tag \in Nat
    BY DEF TypeOK, Submitted
  <2>3. Delivery(m, nextTag).tag = nextTag
    BY DEF Delivery
  <2> QED
    BY <2>1, <2>2, <2>3
<1>2. ASSUME NEW h \in Threads, Start(h)
      PROVE  ClosedIsSilent' /\ TagNamesOne'
  <2>1. /\ running'[h].bound = open /\ \A g \in Threads : g # h => running'[g] = running[g]
        /\ UNCHANGED <<unacked, answers, open, nextTag>>
    BY <1>2, Started DEF Start
  <2> QED
    BY <2>1
<1>3. ASSUME NEW h \in Threads, Finish(h) \/ Raise(h)
      PROVE  ClosedIsSilent' /\ TagNamesOne'
  <2>1. PICK kind \in {"ack", "nack"} : Ends(h, kind)
    BY <1>3, Endings
  <2>2. /\ \A g \in Threads : g # h => running'[g] = running[g]
        /\ running'[h] = NoTask /\ ~NoTask.bound
        /\ ~running[h].bound => answers' = answers
    BY <2>1, Ended, Tasks
  <2>3. UNCHANGED <<unacked, open, nextTag>>
    BY <2>1 DEF Ends
  <2> QED
    BY <2>2, <2>3
<1>4. ASSUME AnswerArrives
      PROVE  ClosedIsSilent' /\ TagNamesOne'
  BY <1>4 DEF AnswerArrives
<1>5. ASSUME Close
      PROVE  ClosedIsSilent' /\ TagNamesOne'
  BY <1>5, Closed DEF Close
<1>6. ASSUME Connect \/ Stop \/ (\E m \in queue : OtherWorker(m)) \/ UNCHANGED vars
      PROVE  ClosedIsSilent' /\ TagNamesOne'
  BY <1>6 DEF Connect, Stop, OtherWorker, vars
<1> QED
  BY <1>1, <1>2, <1>3, <1>4, <1>5, <1>6
     DEF Next, PikaStep, ThreadStep, AnswerRefused, ConnectionLost, Disconnect

---------------------------------------------------------------------------
(* Results and messages.                                                   *)

(* Acknowledgements come after results, and without failing tasks nothing  *)
(* else is answered.                                                       *)
LEMMA AnswersStep ==
  ASSUME TypeOK, AckAfterResult, OnlyAcks, [Next]_vars
  PROVE  AckAfterResult' /\ OnlyAcks'
<1> USE DEF brokerVars, connVars, counters, AckAfterResult, OnlyAcks
<1>0. AckAfterResult /\ OnlyAcks /\ faults \in Nat
  BY EpochAssumption DEF TypeOK
<1>1. ASSUME NEW h \in Threads, NEW kind \in {"ack", "nack"}, Ends(h, kind),
             processed \subseteq processed',
             kind = "ack" => running[h].msg \in processed',
             faults' = 0 => faults = 0 /\ kind = "ack"
      PROVE  AckAfterResult' /\ OnlyAcks'
  <2>1. /\ answers' = IF running[h].bound THEN Append(answers, AnswerOf(running[h], kind))
                                           ELSE answers
        /\ AnswerOf(running[h], kind) \in Answer
    BY <1>1, Ended
  <2>2. answers \in Seq(Answer)
    BY DEF TypeOK
  <2>3. AnswerOf(running[h], kind).kind = kind /\ AnswerOf(running[h], kind).msg = running[h].msg
    BY DEF AnswerOf
  <2>4. CASE ~running[h].bound
    BY <1>0, <1>1, <2>1, <2>4
  <2>5. CASE running[h].bound
    <3>1. /\ DOMAIN answers' = DOMAIN answers \cup {Len(answers) + 1}
          /\ \A i \in DOMAIN answers : answers'[i] = answers[i]
          /\ answers'[Len(answers) + 1] = AnswerOf(running[h], kind)
      BY <2>1, <2>2, <2>5, AppendEntries
    <3> QED
      BY <1>0, <1>1, <2>3, <3>1
  <2> QED
    BY <2>4, <2>5
<1>2. ASSUME NEW h \in Threads, Finish(h) \/ Raise(h)
      PROVE  AckAfterResult' /\ OnlyAcks'
  <2>1. CASE Finish(h)
    BY <1>1, <2>1, Endings
  <2>2. CASE Raise(h)
    BY <1>0, <1>1, <2>2, Endings
  <2> QED
    BY <1>2, <2>1, <2>2
<1>3. ASSUME AnswerArrives
      PROVE  AckAfterResult' /\ OnlyAcks'
  <2>1. \A i \in DOMAIN answers' : i + 1 \in DOMAIN answers /\ answers'[i] = answers[i + 1]
    BY <1>3, TailEntries DEF AnswerArrives, TypeOK
  <2>2. UNCHANGED <<processed, faults>>
    BY <1>3 DEF AnswerArrives
  <2> QED
    BY <1>0, <2>1, <2>2
<1>4. ASSUME Close
      PROVE  AckAfterResult' /\ OnlyAcks'
  BY <1>4 DEF Close
<1>5. ASSUME \/ \E m \in queue : Deliver(m) \/ OtherWorker(m)
             \/ \E h \in Threads : Start(h)
             \/ Connect \/ Stop \/ UNCHANGED vars
      PROVE  AckAfterResult' /\ OnlyAcks'
  BY <1>0, <1>5 DEF Deliver, OtherWorker, Start, Connect, Stop, vars
<1> QED
  BY <1>2, <1>3, <1>4, <1>5
     DEF Next, PikaStep, ThreadStep, AnswerRefused, ConnectionLost, Disconnect

---------------------------------------------------------------------------
(* The first connection.                                                   *)

(* What is in hand has a tag the broker has given out and waits for.       *)
LEMMA HandTags ==
  ASSUME TypeOK, TagNamesOne, HandsOnOutstanding
  PROVE  \A t \in TagsOf(backlog) \cup RunningTags \cup TagsOf(answers) :
            t < nextTag /\ Outstanding(t) # {}
<1>1. \A m, t : Delivery(m, t).tag = t
  BY DEF Delivery
<1>2. \A d \in unacked : d.tag < nextTag /\ Outstanding(d.tag) # {}
  BY DEF TagNamesOne, Outstanding
<1> QED
  BY <1>1, <1>2 DEF HandsOnOutstanding, TagsOf, RunningTags

(* So an answer is never refused.                                          *)
LEMMA NeverRefused ==
  ASSUME TypeOK, TagNamesOne, HandsOnOutstanding, answers # <<>>
  PROVE  Head(answers) = answers[1] /\ Outstanding(answers[1].tag) # {}
<1>1. answers \in Seq(Answer)
  BY DEF TypeOK
<1>2. 1 \in DOMAIN answers /\ Head(answers) = answers[1]
  BY <1>1, TailEntries
<1>3. answers[1].tag \in TagsOf(answers)
  BY <1>2 DEF TagsOf
<1> QED
  BY <1>2, <1>3, HandTags

Orderly == OneHand /\ HandsOnOutstanding

LEMMA DeliverOrderly ==
  ASSUME TypeOK, TagNamesOne, Orderly, NEW m \in queue, Deliver(m)
  PROVE  Orderly'
<1> DEFINE x == Delivery(m, nextTag)
<1>1. /\ x \in Submitted /\ x.tag = nextTag /\ x.msg = m
      /\ backlog \in Seq(Submitted) /\ nextTag \in Nat
  BY DEF Delivery, Submitted, TypeOK
<1>2. /\ backlog' = Append(backlog, x) /\ unacked' = unacked \cup {x}
      /\ UNCHANGED <<running, answers>>
  BY DEF Deliver
<1>3. \A t \in TagsOf(backlog) \cup RunningTags \cup TagsOf(answers) : t # nextTag
  BY <1>1, HandTags DEF Orderly
<1> HIDE DEF x
<1>4. EachTagOnce(backlog') /\ TagsOf(backlog') = TagsOf(backlog) \cup {nextTag}
  BY <1>1, <1>2, <1>3, TagsOfAppend DEF Orderly, OneHand
<1>5. RunningTags' = RunningTags /\ TagsOf(answers') = TagsOf(answers) /\ Busy' = Busy
  BY <1>2 DEF RunningTags, TagsOf, Busy
<1>6. OneHand'
  BY <1>2, <1>3, <1>4, <1>5 DEF Orderly, OneHand
<1>7. \A i \in DOMAIN backlog' :
         backlog'[i] = x \/ (i \in DOMAIN backlog /\ backlog'[i] = backlog[i])
  BY <1>1, <1>2, AppendEntries
<1>8. Delivery(x.msg, x.tag) = x
  BY <1>1 DEF Delivery, x
<1>9. HandsOnOutstanding'
  BY <1>2, <1>5, <1>7, <1>8 DEF Orderly, HandsOnOutstanding
<1> QED
  BY <1>6, <1>9 DEF Orderly

LEMMA StartOrderly ==
  ASSUME TypeOK, Orderly, open, NEW h \in Threads, Start(h)
  PROVE  Orderly'
<1> DEFINE t == backlog[1].tag
<1>1. /\ backlog \in Seq(Submitted) /\ backlog # <<>> /\ backlog' = Tail(backlog)
      /\ UNCHANGED <<unacked, answers>>
  BY DEF Start, TypeOK, brokerVars
<1>a. /\ running'[h] = [msg |-> backlog[1].msg, tag |-> t, bound |-> open]
      /\ \A g \in Threads : g # h => running'[g] = running[g]
      /\ Busy' = Busy \cup {h} /\ h \notin Busy
  BY Started, Zenon
<1>b. running'[h].tag = t /\ running'[h].msg = backlog[1].msg
  BY <1>a
<1>c. running'[h].bound = open
  BY <1>a
<1>2. /\ running'[h].tag = t /\ running'[h].msg = backlog[1].msg /\ running'[h].bound
      /\ \A g \in Threads : g # h => running'[g] = running[g]
      /\ Busy' = Busy \cup {h} /\ h \notin Busy
  BY <1>a, <1>b, <1>c, Zenon
<1>3. 1 \in DOMAIN backlog /\ t \in TagsOf(backlog)
  BY <1>1, TailEntries DEF TagsOf
<1> HIDE DEF t
<1>4. EachTagOnce(backlog') /\ TagsOf(backlog') = TagsOf(backlog) \ {t}
  BY <1>1, TagsOfTail DEF Orderly, OneHand, t
<1>5. \A g \in Busy : g \in Threads /\ g # h /\ running'[g] = running[g]
  BY <1>2 DEF Busy
<1>6. RunningTags' = RunningTags \cup {t}
  BY <1>2, <1>5 DEF RunningTags
<1>7. TagsOf(answers') = TagsOf(answers)
  BY <1>1 DEF TagsOf
<1>8. t \notin RunningTags /\ t \notin TagsOf(answers)
  BY <1>3 DEF Orderly, OneHand
<1>9. \A g \in Busy : running[g].tag \in RunningTags
  BY DEF RunningTags
<1>10. OneHand'
  <2>1. \A f, g \in Busy' : running'[f].tag = running'[g].tag => f = g
    BY <1>2, <1>5, <1>8, <1>9 DEF Orderly, OneHand
  <2> QED
    BY <1>1, <1>3, <1>4, <1>6, <1>7, <1>8, <2>1 DEF Orderly, OneHand
<1>11. \A i \in DOMAIN backlog' : i + 1 \in DOMAIN backlog /\ backlog'[i] = backlog[i + 1]
  BY <1>1, TailEntries
<1>12. HandsOnOutstanding'
  BY <1>1, <1>2, <1>3, <1>5, <1>11 DEF Orderly, HandsOnOutstanding, t
<1> QED
  BY <1>10, <1>12 DEF Orderly

LEMMA EndOrderly ==
  ASSUME TypeOK, Orderly, NEW h \in Threads, NEW kind \in {"ack", "nack"}, Ends(h, kind)
  PROVE  Orderly'
<1> DEFINE x == AnswerOf(running[h], kind)
<1>1. /\ h \in Busy /\ Busy' = Busy \ {h} /\ x \in Answer
      /\ \A g \in Threads : g # h => running'[g] = running[g]
      /\ running[h].bound => answers' = Append(answers, x)
      /\ answers \in Seq(Answer)
  BY Ended DEF TypeOK
<1>2. running[h].bound /\ Delivery(running[h].msg, running[h].tag) \in unacked
  BY <1>1 DEF Orderly, HandsOnOutstanding
<1>3. x.tag = running[h].tag /\ x.msg = running[h].msg /\ UNCHANGED <<unacked, backlog>>
  BY DEF AnswerOf, Ends, brokerVars
<1> HIDE DEF x
<1>4. x.tag \in RunningTags
  BY <1>1, <1>3 DEF RunningTags
<1>5. EachTagOnce(answers') /\ TagsOf(answers') = TagsOf(answers) \cup {x.tag}
  <2>1. EachTagOnce(answers) /\ x.tag \notin TagsOf(answers)
    BY <1>4 DEF Orderly, OneHand
  <2>2. /\ EachTagOnce(Append(answers, x))
        /\ TagsOf(Append(answers, x)) = TagsOf(answers) \cup {x.tag}
    BY <1>1, <2>1, TagsOfAppend
  <2>3. answers' = Append(answers, x)
    BY <1>1, <1>2
  <2> QED
    BY <2>2, <2>3 DEF EachTagOnce, TagsOf
<1>6. \A g \in Busy' : g \in Busy /\ g # h /\ running'[g] = running[g]
  BY <1>1 DEF Busy
<1>7. RunningTags' \subseteq RunningTags \ {x.tag}
  BY <1>1, <1>3, <1>6 DEF RunningTags, Orderly, OneHand
<1>8. TagsOf(backlog') = TagsOf(backlog) /\ EachTagOnce(backlog') = EachTagOnce(backlog)
  BY <1>3 DEF TagsOf, EachTagOnce
<1>9. OneHand'
  BY <1>4, <1>5, <1>6, <1>7, <1>8 DEF Orderly, OneHand
<1>10. \A i \in DOMAIN answers' :
          answers'[i] = x \/ (i \in DOMAIN answers /\ answers'[i] = answers[i])
  BY <1>1, <1>2, AppendEntries
<1>11. HandsOnOutstanding'
  BY <1>2, <1>3, <1>6, <1>10 DEF Orderly, HandsOnOutstanding
<1> QED
  BY <1>9, <1>11 DEF Orderly

LEMMA AnswerOrderly ==
  ASSUME TypeOK, Orderly, AnswerArrives
  PROVE  Orderly'
<1> DEFINE t == answers[1].tag
<1>1. answers \in Seq(Answer) /\ answers # <<>> /\ answers' = Tail(answers)
  BY DEF AnswerArrives, TypeOK
<1>2. /\ 1 \in DOMAIN answers /\ Head(answers) = answers[1]
      /\ \A i \in DOMAIN answers' : i + 1 \in DOMAIN answers /\ answers'[i] = answers[i + 1]
  BY <1>1, TailEntries
<1>3. /\ unacked' = unacked \ Outstanding(t)
      /\ UNCHANGED <<backlog, running>>
  BY <1>2 DEF AnswerArrives
<1>4. t \in TagsOf(answers)
  BY <1>2 DEF TagsOf
<1>5. EachTagOnce(answers') /\ TagsOf(answers') = TagsOf(answers) \ {t}
  BY <1>1, TagsOfTail DEF Orderly, OneHand
<1> HIDE DEF t
<1>6. /\ TagsOf(backlog') = TagsOf(backlog) /\ EachTagOnce(backlog') = EachTagOnce(backlog)
      /\ RunningTags' = RunningTags /\ Busy' = Busy
  BY <1>3 DEF TagsOf, EachTagOnce, RunningTags, Busy
<1>7. OneHand'
  BY <1>3, <1>5, <1>6 DEF Orderly, OneHand
<1>8. t \notin TagsOf(backlog) /\ t \notin RunningTags /\ t \notin TagsOf(answers')
  BY <1>4, <1>5 DEF Orderly, OneHand
<1>9. \A m, u : Delivery(m, u) \in unacked /\ u # t => Delivery(m, u) \in unacked'
  BY <1>3 DEF Delivery, Outstanding
<1>10. HandsOnOutstanding'
  <2>1. \A i \in DOMAIN backlog' : backlog'[i].tag # t
    BY <1>3, <1>8 DEF TagsOf
  <2>2. \A h \in Busy' : running'[h].tag # t
    BY <1>3, <1>6, <1>8 DEF RunningTags
  <2>3. \A i \in DOMAIN answers' : answers'[i].tag # t
    BY <1>8 DEF TagsOf
  <2> QED
    BY <1>2, <1>3, <1>6, <1>9, <2>1, <2>2, <2>3 DEF Orderly, HandsOnOutstanding
<1> QED
  BY <1>7, <1>10 DEF Orderly

LEMMA FirstStep ==
  ASSUME TypeOK, ClosedIsSilent, TagNamesOne, FirstConnection, [Next]_vars
  PROVE  FirstConnection'
<1> SUFFICES ASSUME drops' = 0
             PROVE  (open' => Orderly') /\ (~open' => stopping')
  BY DEF FirstConnection, Orderly
<1> USE DEF counters, connVars, brokerVars
<1>0. drops \in Nat
  BY EpochAssumption DEF TypeOK
<1>1. ~ConnectionLost /\ drops = 0
  BY <1>0 DEF ConnectionLost, Next, PikaStep, ThreadStep, Deliver, AnswerArrives, AnswerRefused,
              Connect, Start, Finish, Raise, Stop, Disconnect, OtherWorker, vars
<1>2. (open => Orderly) /\ (~open => stopping)
  BY <1>1 DEF FirstConnection, Orderly
<1>3. CASE ~open
  <2>1. stopping /\ answers = <<>>
    BY <1>2, <1>3 DEF ClosedIsSilent
  <2>2. ~open'
    <3>1. ~Connect /\ ~AnswerRefused /\ ~Disconnect
      BY <1>3, <2>1 DEF Connect, AnswerRefused, Disconnect
    <3>2. ASSUME ~Connect, ~AnswerRefused, ~Disconnect, ~ConnectionLost
          PROVE  open' = open
      BY <3>2 DEF Next, PikaStep, ThreadStep, Deliver, AnswerArrives, Start, Finish, Raise,
                  Stop, OtherWorker, vars
    <3> QED
      BY <1>1, <1>3, <3>1, <3>2
  <2>3. stopping'
    BY <2>1 DEF Next, PikaStep, ThreadStep, Deliver, AnswerArrives, AnswerRefused, Connect,
                Start, Finish, Raise, ConnectionLost, Stop, Disconnect, Close, OtherWorker, vars
  <2> QED
    BY <2>2, <2>3
<1>4. CASE open
  <2>0. Orderly /\ OneHand /\ HandsOnOutstanding
    BY <1>2, <1>4 DEF Orderly
  <2>1. ASSUME NEW m \in queue, Deliver(m)
        PROVE  open' /\ Orderly'
    BY <2>0, <2>1, DeliverOrderly DEF Deliver
  <2>2. ASSUME NEW h \in Threads, Start(h)
        PROVE  open' /\ Orderly'
    BY <1>4, <2>0, <2>2, StartOrderly DEF Start
  <2>3. ASSUME NEW h \in Threads, Finish(h) \/ Raise(h)
        PROVE  open' /\ Orderly'
    <3>1. PICK kind \in {"ack", "nack"} : Ends(h, kind)
      BY <2>3, Endings
    <3> QED
      BY <1>4, <2>0, <3>1, EndOrderly DEF Ends
  <2>4. ASSUME AnswerArrives
        PROVE  open' /\ Orderly'
    BY <1>4, <2>0, <2>4, AnswerOrderly DEF AnswerArrives
  <2>5. ~AnswerRefused
    BY <2>0, NeverRefused DEF AnswerRefused
  <2>6. ASSUME Disconnect
        PROVE  ~open' /\ stopping'
    BY <2>6 DEF Disconnect, Close
  <2>7. ~Connect
    BY <1>4 DEF Connect
  <2>8. ASSUME Stop \/ (\E m \in queue : OtherWorker(m)) \/ UNCHANGED vars
        PROVE  open' /\ Orderly'
    <3>1. UNCHANGED <<open, unacked, backlog, running, answers>>
      BY <2>8 DEF Stop, OtherWorker, vars
    <3>2. UNCHANGED <<Busy, TagsOf(backlog), RunningTags, TagsOf(answers)>>
      BY <3>1 DEF Busy, TagsOf, RunningTags
    <3>3. OneHand' /\ HandsOnOutstanding'
      BY <2>0, <3>1, <3>2 DEF OneHand, HandsOnOutstanding, EachTagOnce
    <3> QED
      BY <1>4, <3>1, <3>3 DEF Orderly
  <2> QED
    BY <1>1, <2>1, <2>2, <2>3, <2>4, <2>5, <2>6, <2>7, <2>8 DEF Next, PikaStep, ThreadStep
<1> QED
  BY <1>3, <1>4

---------------------------------------------------------------------------
(* What an answer settles.                                                 *)

(* As long as the first connection lasts an answer finds its delivery.     *)
LEMMA OwnDelivery ==
  ASSUME TypeOK, ClosedIsSilent, TagNamesOne, FirstConnection, drops = 0,
         NEW i \in DOMAIN answers
  PROVE  Outstanding(answers[i].tag) = {Delivery(answers[i].msg, answers[i].tag)}
<1>1. open
  BY DEF ClosedIsSilent
<1>2. Delivery(answers[i].msg, answers[i].tag) \in unacked
  BY <1>1 DEF FirstConnection, HandsOnOutstanding
<1>3. Delivery(answers[i].msg, answers[i].tag).tag = answers[i].tag
  BY DEF Delivery
<1> QED
  BY <1>2, <1>3 DEF Outstanding, TagNamesOne

LEMMA SettledStep ==
  ASSUME TypeOK, ClosedIsSilent, TagNamesOne, FirstConnection, AckAfterResult,
         SettledIsProcessed, [Next]_vars
  PROVE  SettledIsProcessed'
<1> DEFINE Kept(m) == m \in queue \/ (\E d \in unacked : d.msg = m) \/ m \in processed
<1> SUFFICES ASSUME drops' = 0, NEW m \in Messages
             PROVE  Kept(m)'
  BY DEF SettledIsProcessed, Settled
<1> USE DEF counters, connVars, brokerVars
<1>0. drops \in Nat
  BY EpochAssumption DEF TypeOK
<1>1. ~ConnectionLost /\ drops = 0
  BY <1>0 DEF ConnectionLost, Next, PikaStep, ThreadStep, Deliver, AnswerArrives, AnswerRefused,
              Connect, Start, Finish, Raise, Stop, Disconnect, OtherWorker, vars
<1>2. Kept(m)
  BY <1>1 DEF SettledIsProcessed, Settled
<1>3. ASSUME NEW x \in queue, Deliver(x)
      PROVE  Kept(m)'
  BY <1>2, <1>3 DEF Deliver, Delivery
<1>4. ASSUME AnswerArrives
      PROVE  Kept(m)'
  <2> DEFINE a == answers[1]
  <2>1. answers \in Seq(Answer) /\ answers # <<>>
    BY <1>4 DEF AnswerArrives, TypeOK
  <2>2. 1 \in DOMAIN answers /\ Head(answers) = a /\ a \in Answer
    BY <2>1, TailEntries, ElementOfSeq
  <2>3. Outstanding(a.tag) = {Delivery(a.msg, a.tag)}
    BY <1>1, <2>2, OwnDelivery
  <2>4. /\ unacked' = unacked \ {Delivery(a.msg, a.tag)} /\ processed' = processed
        /\ queue' = IF a.kind = "nack" THEN queue \cup {d.msg : d \in {Delivery(a.msg, a.tag)}}
                                       ELSE queue
    BY <1>4, <2>2, <2>3 DEF AnswerArrives
  <2>5. a.kind \in {"ack", "nack"}
    BY <2>2 DEF Answer
  <2>6. a.kind = "ack" => a.msg \in processed
    BY <2>2 DEF AckAfterResult
  <2>7. Delivery(a.msg, a.tag).msg = a.msg
    BY DEF Delivery
  <2> QED
    BY <1>2, <2>4, <2>5, <2>6, <2>7
<1>5. ASSUME Close
      PROVE  Kept(m)'
  BY <1>2, <1>5 DEF Close
<1>6. ASSUME NEW x \in queue, OtherWorker(x)
      PROVE  Kept(m)'
  BY <1>2, <1>6 DEF OtherWorker
<1>7. ASSUME NEW h \in Threads, Start(h) \/ Finish(h) \/ Raise(h)
      PROVE  Kept(m)'
  BY <1>2, <1>7 DEF Start, Finish, Raise
<1>8. ASSUME Connect \/ Stop \/ UNCHANGED vars
      PROVE  Kept(m)'
  BY <1>2, <1>8 DEF Connect, Stop, vars
<1> QED
  BY <1>1, <1>3, <1>4, <1>5, <1>6, <1>7, <1>8
     DEF Next, PikaStep, ThreadStep, AnswerRefused, Disconnect

(* Short of failing tasks whatever is not finished is queued or in the     *)
(* worker's hands, on whatever connection.                                 *)
LEMMA WaitingStep ==
  ASSUME TypeOK, OnlyAcks, NobodyForgets, [Next]_vars
  PROVE  NobodyForgets'
<1> SUFFICES ASSUME faults' = 0, NEW m \in Messages
             PROVE  Waiting(m)'
  BY DEF NobodyForgets
<1> USE DEF counters, connVars, brokerVars
<1>0. faults \in Nat
  BY EpochAssumption DEF TypeOK
<1>1. faults = 0 /\ \A h \in Threads : ~Raise(h)
  BY <1>0 DEF ConnectionLost, Next, PikaStep, ThreadStep, Deliver, AnswerArrives, AnswerRefused,
              Connect, Start, Finish, Raise, Stop, Disconnect, OtherWorker, vars
<1>2. Waiting(m)
  BY <1>1 DEF NobodyForgets
<1>3. ASSUME NEW x \in queue, Deliver(x)
      PROVE  Waiting(m)'
  <2>1. backlog \in Seq(Submitted) /\ Delivery(x, nextTag) \in Submitted /\ Delivery(x, nextTag).msg = x
    BY DEF Delivery, Submitted, TypeOK
  <2>2. backlog' = Append(backlog, Delivery(x, nextTag))
    BY <1>3 DEF Deliver
  <2>3. /\ \A i \in DOMAIN backlog : i \in DOMAIN backlog' /\ backlog'[i].msg = backlog[i].msg
        /\ \E i \in DOMAIN backlog' : backlog'[i].msg = x
    BY <2>1, <2>2, AppendEntries
  <2> QED
    BY <1>2, <1>3, <2>3 DEF Deliver, Waiting
<1>4. ASSUME NEW h \in Threads, Start(h)
      PROVE  Waiting(m)'
  <2>1. /\ running'[h].msg = backlog[1].msg
        /\ \A g \in Threads : g # h => running'[g] = running[g]
        /\ running[h] = NoTask
    BY <1>4, Started
  <2>2. backlog \in Seq(Submitted) /\ backlog # <<>> /\ backlog' = Tail(backlog)
        /\ UNCHANGED <<queue, processed>>
    BY <1>4 DEF Start, TypeOK
  <2>3. \A i \in DOMAIN backlog :
           i = 1 \/ (i - 1 \in DOMAIN backlog' /\ backlog'[i - 1] = backlog[i])
    BY <2>2, TailEntries
  <2>4. m # NoTask.msg
    BY EpochAssumption DEF NoTask
  <2>5. CASE m \in queue \cup processed
    BY <2>2, <2>5 DEF Waiting
  <2>6. CASE \E i \in DOMAIN backlog : backlog[i].msg = m
    <3>1. PICK i \in DOMAIN backlog : backlog[i].msg = m
      BY <2>6
    <3>2. CASE i = 1
      BY <2>1, <3>1, <3>2 DEF Waiting
    <3>3. CASE i # 1
      BY <2>3, <3>1, <3>3 DEF Waiting
    <3> QED
      BY <3>2, <3>3
  <2>7. CASE \E g \in Threads : running[g].msg = m
    BY <2>1, <2>4, <2>7 DEF Waiting
  <2> QED
    BY <1>2, <2>5, <2>6, <2>7 DEF Waiting
<1>5. ASSUME NEW h \in Threads, Finish(h)
      PROVE  Waiting(m)'
  <2>1. /\ \A g \in Threads : g # h => running'[g] = running[g]
        /\ processed' = processed \cup {running[h].msg}
        /\ UNCHANGED <<queue, backlog>>
    BY <1>5, Endings, Ended DEF Ends
  <2> QED
    BY <1>2, <2>1 DEF Waiting
<1>6. ASSUME AnswerArrives
      PROVE  Waiting(m)'
  BY <1>2, <1>6 DEF AnswerArrives, Waiting
<1>7. ASSUME Close
      PROVE  Waiting(m)'
  BY <1>2, <1>7, Closed DEF Close, Waiting
<1>8. ASSUME \/ \E x \in queue : OtherWorker(x)
             \/ Connect \/ Stop \/ UNCHANGED vars
      PROVE  Waiting(m)'
  BY <1>2, <1>8 DEF OtherWorker, Connect, Stop, vars, Waiting
<1> QED
  BY <1>1, <1>3, <1>4, <1>5, <1>6, <1>7, <1>8
     DEF Next, PikaStep, ThreadStep, AnswerRefused, ConnectionLost, Disconnect

---------------------------------------------------------------------------
(* The theorems.                                                           *)

LEMMA InitEInv == Init => EInv
<1> SUFFICES ASSUME Init PROVE EInv
  OBVIOUS
<1>1. TypeOK
  BY InitType
<1>2. /\ open /\ unacked = {} /\ backlog = <<>> /\ answers = <<>>
      /\ queue = Messages /\ drops = 0
  BY DEF Init
<1>3. \A h \in Threads : running[h] = NoTask
  BY DEF Init
<1>4. Busy = {}
  BY <1>3 DEF Busy
<1>5. DOMAIN backlog = {} /\ DOMAIN answers = {}
  BY <1>2
<1>6. OneHand /\ HandsOnOutstanding
  BY <1>4, <1>5 DEF OneHand, HandsOnOutstanding, EachTagOnce, TagsOf, RunningTags
<1>7. ClosedIsSilent /\ TagNamesOne /\ FirstConnection
  BY <1>2, <1>6 DEF ClosedIsSilent, TagNamesOne, FirstConnection
<1>8. AckAfterResult /\ OnlyAcks
  BY <1>5 DEF AckAfterResult, OnlyAcks
<1>9. NobodyForgets /\ SettledIsProcessed
  BY <1>2 DEF NobodyForgets, Waiting, SettledIsProcessed, Settled
<1> QED
  BY <1>1, <1>7, <1>8, <1>9 DEF EInv

(* The inductive invariant: a tag names one delivery, and on the first     *)
(* connection every delivery is in one hand, from _dispatch_adaptive to    *)
(* the callback that answers it.                                           *)
THEOREM EpochInvariant == Spec => []EInv
<1>1. EInv /\ [Next]_vars => EInv'
  <2> SUFFICES ASSUME EInv, [Next]_vars PROVE EInv'
    OBVIOUS
  <2> QED
    BY TypeStep, ChannelStep, FirstStep, AnswersStep, WaitingStep, SettledStep DEF EInv
<1> QED
  BY <1>1, InitEInv, PTL DEF Spec

(* All variables keep their types.                                         *)
THEOREM EpochTypes == Spec => []TypeOK
<1>1. EInv => TypeOK
  BY DEF EInv
<1> QED
  BY <1>1, EpochInvariant, PTL

(* Until a connection is lost an answer settles the delivery its task was  *)
(* submitted for, however many threads answer in whatever order: "a        *)
(* reconnect cannot route a stale-channel op onto a fresh connection"      *)
(* holds as long as there is no reconnect.                                 *)
THEOREM AnswersReachOwn == Spec => []OwnUntilDropped
<1>1. EInv => OwnUntilDropped
  <2> SUFFICES ASSUME EInv, drops = 0, NEW i \in DOMAIN answers,
                      NEW d \in Outstanding(answers[i].tag)
               PROVE  d.msg = answers[i].msg
    BY DEF OwnUntilDropped, AnswersOwnDelivery
  <2>1. d = Delivery(answers[i].msg, answers[i].tag)
    BY OwnDelivery DEF EInv
  <2> QED
    BY <2>1 DEF Delivery
<1> QED
  BY <1>1, EpochInvariant, PTL

(* On the first connection, shutdown included, the broker forgets a        *)
(* message only when its result is stored.                                 *)
THEOREM SettledAfterResult == Spec => []SettledIsProcessed
<1>1. EInv => SettledIsProcessed
  BY DEF EInv
<1> QED
  BY <1>1, EpochInvariant, PTL

(* Whatever connections are lost, a chunk message that the broker has      *)
(* forgotten too early is still to be handled by the worker, as long as no *)
(* task fails.                                                             *)
THEOREM NobodyForgotten == Spec => []NotForgotten
<1>1. EInv => NotForgotten
  BY DEF EInv, NobodyForgets, Waiting, NotForgotten, Settled
<1> QED
  BY <1>1, EpochInvariant, PTL
=============================================================================
