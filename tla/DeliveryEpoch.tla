--------------------------- MODULE DeliveryEpoch ---------------------------
(***************************************************************************)
(* One adaptive inference worker process: its connection, its executor,    *)
(* and which delivery an acknowledgement reaches.  The pika thread submits *)
(* a task for every delivery; a task takes the connection it will answer   *)
(* on when a thread begins to run it; its answer is scheduled on the pika  *)
(* thread with the delivery tag the task was submitted with.  Tags count   *)
(* from 1 on every new channel.                                            *)
(*                                                                         *)
(* What a task does to the job's keys between its start and its answer is  *)
(* InferenceAdaptive.                                                      *)
(***************************************************************************)
EXTENDS Integers, Sequences, FiniteSets

CONSTANTS
    Messages,           \* chunk messages on the inferences queue
    Threads,            \* executor threads: ADAPTIVE_MAX_CONCURRENCY of them
    Prefetch,           \* ADAPTIVE_MAX_CONCURRENCY + BATCH_SIZE
    MaxDrops,           \* bound: connections lost
    MaxFaults           \* bound: tasks that end in an exception

ASSUME EpochAssumption ==
    /\ IsFiniteSet(Messages) /\ IsFiniteSet(Threads) /\ "none" \notin Messages
    /\ Prefetch \in Nat \ {0} /\ MaxDrops \in Nat /\ MaxFaults \in Nat

VARIABLES
    queue,              \* the broker: messages ready for delivery
    unacked,            \* the broker: outstanding deliveries of the channel
    open,               \* the connection is open
    nextTag,            \* the tag of the next delivery on its channel
    backlog,            \* tasks submitted and not yet begun, in order
    running,            \* the task each executor thread runs, or NoTask
    answers,            \* callbacks scheduled on the pika thread, in order
    stopping,           \* _stopping
    processed,          \* history: messages whose result is stored
    drops, faults

brokerVars == <<queue, unacked>>
connVars   == <<open, nextTag>>
counters   == <<drops, faults>>
vars == <<brokerVars, connVars, backlog, running, answers, stopping, processed, counters>>

NoTask == [msg |-> "none", tag |-> 0, bound |-> FALSE]

(* A delivery is a message and its tag; a running task also knows whether  *)
(* the connection it answers on is the current one.                        *)
Delivery(m, tag) == [msg |-> m, tag |-> tag]

Init ==
    /\ queue = Messages /\ unacked = {}
    /\ open = TRUE /\ nextTag = 1
    /\ backlog = <<>> /\ answers = <<>>
    /\ running = [h \in Threads |-> NoTask]
    /\ stopping = FALSE /\ processed = {}
    /\ drops = 0 /\ faults = 0

(* process() and _dispatch_adaptive(), on the pika thread.                 *)
Deliver(m) ==
    /\ open /\ ~stopping
    /\ m \in queue
    /\ Cardinality(unacked) < Prefetch
    /\ queue' = queue \ {m}
    /\ unacked' = unacked \cup {Delivery(m, nextTag)}
    /\ backlog' = Append(backlog, Delivery(m, nextTag))
    /\ nextTag' = nextTag + 1
    /\ UNCHANGED <<open, running, answers, stopping, processed, counters>>

(* Mutant: a task that starts while there is no connection is skipped.     *)
StartIfConnected(h) ==
    /\ running[h] = NoTask
    /\ backlog # <<>>
    /\ running' = IF open
                  THEN [running EXCEPT ![h] = [msg |-> Head(backlog).msg,
                                               tag |-> Head(backlog).tag, bound |-> TRUE]]
                  ELSE running
    /\ backlog' = Tail(backlog)
    /\ UNCHANGED <<brokerVars, connVars, answers, stopping, processed, counters>>

(* A free thread begins _adaptive_task on the oldest task: conn and ch are *)
(* the worker's current ones, whatever connection the delivery came from.  *)
Start(h) ==
    /\ running[h] = NoTask
    /\ backlog # <<>>
    /\ running' = [running EXCEPT ![h] = [msg |-> Head(backlog).msg,
                                          tag |-> Head(backlog).tag, bound |-> open]]
    /\ backlog' = Tail(backlog)
    /\ UNCHANGED <<brokerVars, connVars, answers, stopping, processed, counters>>

(* Mutants: the closure sees the tag of the latest delivery; no tag is set. *)
ScheduleLatest(task, kind) ==
    answers' = IF task.bound
               THEN Append(answers, [kind |-> kind, msg |-> task.msg, tag |-> nextTag - 1])
               ELSE answers

(* _schedule_on_pika drops the answer when its connection is closed.       *)
Schedule(task, kind) ==
    answers' = IF task.bound
               THEN Append(answers, [kind |-> kind, msg |-> task.msg, tag |-> task.tag])
               ELSE answers

(* Mutant: nothing is answered.                                            *)
FinishSilently(h) ==
    /\ running[h] # NoTask
    /\ processed' = processed \cup {running[h].msg}
    /\ running' = [running EXCEPT ![h] = NoTask]
    /\ UNCHANGED <<brokerVars, connVars, backlog, answers, stopping, counters>>

(* The result is stored, or was before (a duplicate): ack.                 *)
Finish(h) ==
    /\ running[h] # NoTask
    /\ processed' = processed \cup {running[h].msg}
    /\ Schedule(running[h], "ack")
    /\ running' = [running EXCEPT ![h] = NoTask]
    /\ UNCHANGED <<brokerVars, connVars, backlog, stopping, counters>>

(* Mutant: a failed task is acknowledged too.                              *)
RaiseAcks(h) ==
    /\ running[h] # NoTask
    /\ faults < MaxFaults
    /\ faults' = faults + 1
    /\ Schedule(running[h], "ack")
    /\ running' = [running EXCEPT ![h] = NoTask]
    /\ UNCHANGED <<brokerVars, connVars, backlog, stopping, processed, drops>>

(* The task raised: nack with requeue.                                     *)
Raise(h) ==
    /\ running[h] # NoTask
    /\ faults < MaxFaults
    /\ faults' = faults + 1
    /\ Schedule(running[h], "nack")
    /\ running' = [running EXCEPT ![h] = NoTask]
    /\ UNCHANGED <<brokerVars, connVars, backlog, stopping, processed, drops>>

Outstanding(tag) == {d \in unacked : d.tag = tag}

(* The pika thread runs a scheduled answer; the broker goes by the tag.    *)
AnswerArrives ==
    /\ answers # <<>>
    /\ LET a == Head(answers)
           settled == Outstanding(a.tag)
       IN  /\ settled # {}
           /\ unacked' = unacked \ settled
           /\ queue' = IF a.kind = "nack" THEN queue \cup {d.msg : d \in settled} ELSE queue
    /\ answers' = Tail(answers)
    /\ UNCHANGED <<connVars, backlog, running, stopping, processed, counters>>

(* The channel is gone: the broker takes its messages back, the answers    *)
(* scheduled on it are never run, nor will those of the running tasks be.  *)
Close ==
    /\ queue' = queue \cup {d.msg : d \in unacked}
    /\ unacked' = {}
    /\ open' = FALSE
    /\ answers' = <<>>
    /\ running' = [h \in Threads |-> [running[h] EXCEPT !.bound = FALSE]]
    /\ UNCHANGED <<nextTag, backlog, stopping, processed>>

(* The broker closes the channel when the tag of an answer is unknown.     *)
AnswerRefused ==
    /\ answers # <<>>
    /\ Outstanding(Head(answers).tag) = {}
    /\ Close
    /\ UNCHANGED counters

ConnectionLost ==
    /\ open
    /\ drops < MaxDrops
    /\ drops' = drops + 1
    /\ Close
    /\ UNCHANGED faults

(* The loop of main() connects again.                                      *)
Connect ==
    /\ ~open /\ ~stopping
    /\ open' = TRUE
    /\ nextTag' = 1
    /\ UNCHANGED <<brokerVars, backlog, running, answers, stopping, processed, counters>>

(* SIGTERM; then the shutdown watchdog, or the last task, stops the        *)
(* consumer and main() closes the connection.                              *)
Stop ==
    /\ ~stopping
    /\ stopping' = TRUE
    /\ UNCHANGED <<brokerVars, connVars, backlog, running, answers, processed, counters>>

Disconnect ==
    /\ open /\ stopping
    /\ Close
    /\ UNCHANGED counters

(* One of the other replicas takes a message and stores its result.        *)
OtherWorker(m) ==
    /\ m \in queue
    /\ queue' = queue \ {m}
    /\ processed' = processed \cup {m}
    /\ UNCHANGED <<unacked, connVars, backlog, running, answers, stopping, counters>>

PikaStep == (\E m \in queue : Deliver(m)) \/ AnswerArrives \/ AnswerRefused \/ Connect

ThreadStep(h) == Start(h) \/ Finish(h)

Next ==
    \/ PikaStep
    \/ \E h \in Threads : ThreadStep(h) \/ Raise(h)
    \/ ConnectionLost \/ Stop \/ Disconnect
    \/ \E m \in queue : OtherWorker(m)

Spec == Init /\ [][Next]_vars

(* The pika loop and the executor threads run.                             *)
FairSpec ==
    /\ Spec
    /\ WF_vars(PikaStep)
    /\ \A h \in Threads : WF_vars(ThreadStep(h))

---------------------------------------------------------------------------
(* Properties.                                                             *)

Settled(m) == m \notin queue /\ \A d \in unacked : d.msg # m

Submitted == [msg : Messages, tag : Nat \ {0}]
Task      == [msg : Messages, tag : Nat \ {0}, bound : BOOLEAN]
Answer    == [kind : {"ack", "nack"}, msg : Messages, tag : Nat \ {0}]

(* The types of all variables.                                             *)
TypeOK ==
    /\ queue \subseteq Messages /\ processed \subseteq Messages
    /\ unacked \subseteq Submitted
    /\ open \in BOOLEAN /\ stopping \in BOOLEAN /\ nextTag \in Nat \ {0}
    /\ backlog \in Seq(Submitted)
    /\ running \in [Threads -> Task \cup {NoTask}]
    /\ answers \in Seq(Answer)
    /\ drops \in 0..MaxDrops /\ faults \in 0..MaxFaults

(* "A reconnect cannot route a stale-channel op onto a fresh connection":  *)
(* the delivery an answer settles is the one its task was submitted for.   *)
AnswersOwnDelivery ==
    \A i \in DOMAIN answers :
        \A d \in Outstanding(answers[i].tag) : d.msg = answers[i].msg

(* As long as the worker has never lost a connection an answer settles the *)
(* delivery of its own task, with several threads answering out of order,  *)
(* failed tasks and redeliveries of what they gave back.                   *)
OwnUntilDropped == drops = 0 => AnswersOwnDelivery

(* On its first connection the worker makes the broker forget a message    *)
(* only when its result is stored: neither a shutdown nor a failed task    *)
(* drops a chunk that nobody has finished.                                 *)
SettledIsProcessed ==
    drops = 0 => \A m \in Messages : Settled(m) => m \in processed

(* After a reconnect the broker may forget a message too early; as long as *)
(* no task fails somebody still has it in hand.                            *)
NotForgotten ==
    faults = 0 =>
        \A m \in Messages :
            (Settled(m) /\ m \notin processed) =>
                \/ \E i \in DOMAIN backlog : backlog[i].msg = m
                \/ \E h \in Threads : running[h].msg = m

(* Unless it is told to stop, the worker comes to an end with the queue    *)
(* whatever connections it loses: stale answers may cost further           *)
(* connections, but not for ever.                                          *)
EventuallyDrained == <>(stopping \/ [](queue = {} /\ unacked = {}))
=============================================================================
