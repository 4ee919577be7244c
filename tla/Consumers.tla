------------------------------ MODULE Consumers ------------------------------
(***************************************************************************)
(* What the two base classes of the workers do with the messages of a      *)
(* queue.  BaseWorker ("base": embeddings, entities, metadata) handles one *)
(* message at a time on the thread that owns the connection, and sends a   *)
(* message it may try again through the delayed exchange.  BaseAsyncWorker *)
(* ("async": audio, image) handles several at a time in asyncio tasks and  *)
(* rejects what fails.                                                     *)
(*                                                                         *)
(* A message is published again before it is acknowledged, so there may be *)
(* several copies of it; each carries its own count of retries.            *)
(***************************************************************************)
EXTENDS Naturals, FiniteSets

CONSTANTS
    Jobs,               \* one message each
    MaxRetries,         \* MAX_RETRIES
    ExtraCopies,        \* bound: copies a message may have beside the first
    Slots,              \* what can be handled at a time
    Replicas,
    Environments        \* the kind of worker, whether the delayed exchange is
                        \* enabled, which replica a slot is of, what else may
                        \* happen and how often; one of them per behaviour

ASSUME ConsumersAssumption ==
    /\ MaxRetries \in Nat /\ ExtraCopies \in Nat
    /\ \A e \in Environments :
           /\ e.kind \in {"base", "async"} /\ e.delayed \in BOOLEAN
           /\ e.most \in Nat /\ e.may \subseteq STRING
           /\ e.replica \in [Slots -> Replicas]

VARIABLES
    env,                \* the environment of this behaviour; it never changes
    at,                 \* per copy: "none", "ready", "held" or "delayed"
    count,              \* per copy: its header x-retry-count
    task,               \* per slot: the copy in hand and what comes next
    stopping,           \* the replicas that were signalled
    closed,             \* async: replicas whose connection is closed
    status,             \* Redis :status, as far as it matters here
    dead,               \* the jobs with a message in the dead letter queue
    done,               \* ghost: jobs that process_message has returned for
    waived,             \* ghost: jobs found cancelled
    hopeless,           \* ghost: jobs with a permanent error or no retry left
    cut,                \* ghost: jobs whose delivery was lost under the handler
    happened,           \* ghost: the faults there have been
    faults

jobVars == <<status, dead, done, waived, hopeless, cut>>
vars == <<env, at, count, task, stopping, closed, jobVars, happened, faults>>

Copies == Jobs \X (0..ExtraCopies)
Idle   == [copy |-> <<>>, count |-> 0, next |-> "idle", wired |-> FALSE]

Init ==
    /\ env \in Environments
    /\ at = [c \in Copies |-> IF c[2] = 0 THEN "ready" ELSE "none"]
    /\ count = [c \in Copies |-> 0]
    /\ task = [s \in Slots |-> Idle]
    /\ stopping = {} /\ closed = {}
    /\ status = [j \in Jobs |-> "open"]
    /\ dead = {} /\ done = {} /\ waived = {} /\ hopeless = {} /\ cut = {}
    /\ happened = {} /\ faults = 0

Base      == env.kind = "base"
Of(s)     == env.replica[s]
Job(s)    == task[s].copy[1]
Comes(s, step)  == task[s].next = step
Goes(s, step)   == task' = [task EXCEPT ![s].next = step]
Settle(c, where) == at' = [at EXCEPT ![c] = where]

Happens(what) ==
    /\ what \in env.may /\ faults < env.most
    /\ faults' = faults + 1 /\ happened' = happened \cup {what}
Calm == UNCHANGED <<happened, faults>>

---------------------------------------------------------------------------
(* _on_message, on_message.                                                *)

(* BaseAsyncWorker, told to stop, acknowledges unread what arrives before  *)
(* its channel is closed.                                                  *)
First(s) == IF ~Base /\ Of(s) \in stopping THEN "ack" ELSE "look"

(* BaseWorker is told to stop by a flag that it looks at after a message:  *)
(* an idle one takes another.                                              *)
Takes(s, c) ==
    /\ Comes(s, "idle") /\ Of(s) \notin closed
    /\ at[c] = "ready"
    /\ Settle(c, "held")
    /\ task' = [task EXCEPT ![s] =
           [copy |-> c, count |-> count[c], wired |-> TRUE, next |-> First(s)]]
    /\ UNCHANGED <<count, stopping, closed, jobVars, happened, faults>>

(* _is_cancelled: FALSE too when Redis does not answer, or when "failed"   *)
(* has been written over the hash.                                         *)
Looks(s) ==
    /\ Comes(s, "look")
    /\ \/ status[Job(s)] # "cancelled" /\ Goes(s, "process") /\ Calm /\ UNCHANGED waived
       \/ status[Job(s)] = "cancelled" /\ Goes(s, "process") /\ Happens("redis") /\ UNCHANGED waived
       \/ status[Job(s)] = "cancelled" /\ Goes(s, "ack") /\ Calm /\ waived' = waived \cup {Job(s)}
    /\ UNCHANGED <<at, count, stopping, closed, status, dead, done, hopeless, cut>>

Succeeds(s) ==
    /\ Comes(s, "process")
    /\ done' = done \cup {Job(s)}
    /\ Goes(s, "ack")
    /\ UNCHANGED <<at, count, stopping, closed, status, dead, waived, hopeless, cut, happened, faults>>

(* JobCancelledError, from _raise_if_cancelled.                            *)
FindsCancelled(s) ==
    /\ Comes(s, "process")
    /\ status[Job(s)] = "cancelled"
    /\ waived' = waived \cup {Job(s)}
    /\ Goes(s, "leave")
    /\ UNCHANGED <<at, count, stopping, closed, status, dead, done, hopeless, cut, happened, faults>>

(* _should_retry.                                                          *)
MayRetry(s) == task[s].count < MaxRetries

(* Mutant: a message that may be tried again is failed as well.            *)
FailsAtOnce(s) ==
    /\ Comes(s, "process")
    /\ IF ~Base
       THEN Goes(s, "reject") /\ UNCHANGED hopeless
       ELSE Goes(s, "fail") /\ hopeless' = IF MayRetry(s) THEN hopeless ELSE hopeless \cup {Job(s)}
    /\ UNCHANGED <<at, count, stopping, closed, status, dead, done, waived, cut, happened, faults>>

(* ConnectionError, TimeoutError; redis.ConnectionError in BaseWorker.     *)
(* Beyond MAX_RETRIES it fails the job; BaseAsyncWorker rejects at once.   *)
FailsForNow(s) ==
    /\ Comes(s, "process")
    /\ IF ~Base
       THEN Goes(s, "reject") /\ UNCHANGED hopeless
       ELSE IF MayRetry(s)
       THEN Goes(s, IF env.delayed THEN "again" ELSE "sleep") /\ UNCHANGED hopeless
       ELSE Goes(s, "fail") /\ hopeless' = hopeless \cup {Job(s)}
    /\ UNCHANGED <<at, count, stopping, closed, status, dead, done, waived, cut, happened, faults>>

(* ValueError and the like.                                                *)
FailsForGood(s) ==
    /\ Comes(s, "process")
    /\ hopeless' = hopeless \cup {Job(s)}
    /\ Goes(s, "fail")
    /\ UNCHANGED <<at, count, stopping, closed, status, dead, done, waived, cut, happened, faults>>

(* The status and the error are written; an error of Redis is logged, or   *)
(* dropped.  The base class then rejects the message, the async one lets   *)
(* it be acknowledged.                                                     *)
Marks(s) ==
    /\ Comes(s, "fail")
    /\ \/ Calm /\ status' = [status EXCEPT ![Job(s)] = "failed"]
       \/ Happens("redis") /\ UNCHANGED status
    /\ Goes(s, IF Base THEN "reject" ELSE "leave")
    /\ UNCHANGED <<at, count, stopping, closed, dead, done, waived, hopeless, cut>>

(* Mutant: the count of the message is sent on as it was.                  *)
RepublishesUncounted(s) ==
    /\ Comes(s, "again") /\ task[s].wired
    /\ \E c \in Copies :
           /\ c[1] = Job(s) /\ at[c] = "none"
           /\ Settle(c, "delayed")
           /\ count' = [count EXCEPT ![c] = task[s].count]
    /\ Goes(s, "over")
    /\ UNCHANGED <<stopping, closed, jobVars, happened, faults>>

(* _retry_via_delayed_exchange publishes, without a confirmation ...       *)
FreeCopy(j) == CHOOSE c \in Copies : c[1] = j /\ at[c] = "none"

Republishes(s) ==
    /\ Comes(s, "again") /\ task[s].wired
    /\ \E c \in Copies : c[1] = Job(s) /\ at[c] = "none"
    /\ Settle(FreeCopy(Job(s)), "delayed")
    /\ count' = [count EXCEPT ![FreeCopy(Job(s))] = task[s].count + 1]
    /\ Goes(s, "over")
    /\ UNCHANGED <<stopping, closed, jobVars, happened, faults>>

(* ... and the exchange delivers it to the queue later.                    *)
Fires(c) ==
    /\ at[c] = "delayed"
    /\ Settle(c, "ready")
    /\ UNCHANGED <<count, task, stopping, closed, jobVars, happened, faults>>

(* A queue that is full (x-overflow reject-publish) takes nothing, and     *)
(* nobody is told.                                                         *)
Overflows(c) ==
    /\ at[c] = "delayed"
    /\ Happens("full")
    /\ Settle(c, "none")
    /\ UNCHANGED <<count, task, stopping, closed, jobVars>>

---------------------------------------------------------------------------
(* The end of a delivery.                                                  *)

(* The finally clause: a BaseWorker that was told to stop ends here, and a *)
(* new one takes its place.                                                *)
Release(s) ==
    /\ task' = [task EXCEPT ![s] = Idle]
    /\ stopping' = IF Base THEN stopping \ {Of(s)} ELSE stopping

Acks(s) ==
    /\ task[s].next \in {"ack", "leave", "over"} /\ task[s].wired
    /\ Settle(task[s].copy, "none")
    /\ Release(s)
    /\ UNCHANGED <<count, closed, jobVars, happened, faults>>

(* Mutant: a rejected message is dropped (no dead letter exchange).        *)
RejectsForGood(s) ==
    /\ Comes(s, "reject") /\ task[s].wired
    /\ Settle(task[s].copy, "none")
    /\ Release(s)
    /\ UNCHANGED <<count, closed, jobVars, happened, faults>>

Rejects(s) ==
    /\ Comes(s, "reject") /\ task[s].wired
    /\ Settle(task[s].copy, "none")
    /\ dead' = dead \cup {Job(s)}
    /\ Release(s)
    /\ UNCHANGED <<count, closed, status, done, waived, hopeless, cut, happened, faults>>

(* _retry_via_sleep: requeued with the count it had.                       *)
Requeues(s) ==
    /\ Comes(s, "sleep") /\ task[s].wired
    /\ Settle(task[s].copy, "ready")
    /\ Release(s)
    /\ UNCHANGED <<count, closed, jobVars, happened, faults>>

(* basic_publish raises: the blocking path.                                *)
CannotRepublish(s) ==
    /\ Comes(s, "again") /\ ~task[s].wired
    /\ Goes(s, "sleep")
    /\ UNCHANGED <<at, count, stopping, closed, jobVars, happened, faults>>

(* basic_ack raises within the try statement: the job is taken to have     *)
(* failed for good, though it has been processed, or was cancelled.        *)
CannotAck(s) ==
    /\ Base /\ Comes(s, "ack") /\ ~task[s].wired
    /\ Goes(s, "fail")
    /\ UNCHANGED <<at, count, stopping, closed, jobVars, happened, faults>>

(* Elsewhere the exception leaves the handler, or nothing is raised: run   *)
(* connects anew.                                                          *)
Escapes(s) ==
    /\ task[s].next \in {"ack", "leave", "over", "reject", "sleep"} /\ ~task[s].wired
    /\ Release(s)
    /\ UNCHANGED <<at, count, closed, jobVars, happened, faults>>

TaskStep(s) ==
    \/ \E c \in Copies : Takes(s, c)
    \/ Looks(s) \/ Succeeds(s) \/ FindsCancelled(s) \/ FailsForNow(s) \/ FailsForGood(s)
    \/ Marks(s) \/ Republishes(s) \/ CannotRepublish(s)
    \/ Acks(s) \/ Rejects(s) \/ Requeues(s) \/ CannotAck(s) \/ Escapes(s)

---------------------------------------------------------------------------
(* The replicas.                                                           *)

Wired(w)  == {s \in Slots : Of(s) = w /\ task[s].wired}
InHand(w) == {task[s].copy : s \in Wired(w)}
TakenBack(w) == [c \in Copies |-> IF c \in InHand(w) THEN "ready" ELSE at[c]]
Cut(w)    == cut \cup {c[1] : c \in InHand(w)}
Unwired(w) == [s \in Slots |-> IF s \in Wired(w) THEN [task[s] EXCEPT !.wired = FALSE] ELSE task[s]]

(* The connection is lost; the broker takes its deliveries back.           *)
Drops(w) ==
    /\ w \notin closed
    /\ Happens("drop")
    /\ at' = TakenBack(w) /\ task' = Unwired(w) /\ cut' = Cut(w)
    /\ UNCHANGED <<count, stopping, closed, status, dead, done, waived, hopeless>>

IsToldToStop(w) ==
    /\ w \notin stopping
    /\ Happens("stop")
    /\ stopping' = stopping \cup {w}
    /\ UNCHANGED <<at, count, task, closed, jobVars>>

(* BaseAsyncWorker.run closes the channel under the handlers ...           *)
Closes(w) ==
    /\ ~Base /\ w \in stopping /\ w \notin closed
    /\ closed' = closed \cup {w}
    /\ at' = TakenBack(w) /\ task' = Unwired(w) /\ cut' = Cut(w)
    /\ UNCHANGED <<count, stopping, status, dead, done, waived, hopeless, happened, faults>>

(* ... and ends; asyncio.run cancels those that have not finished.         *)
Ends(w) ==
    /\ w \in closed
    /\ closed' = closed \ {w} /\ stopping' = stopping \ {w}
    /\ task' = [s \in Slots |-> IF Of(s) = w THEN Idle ELSE task[s]]
    /\ UNCHANGED <<at, count, jobVars, happened, faults>>

Dies(w) ==
    /\ w \notin closed
    /\ Happens("crash")
    /\ at' = TakenBack(w)
    /\ stopping' = stopping \ {w}
    /\ task' = [s \in Slots |-> IF Of(s) = w THEN Idle ELSE task[s]]
    /\ UNCHANGED <<count, closed, jobVars>>

IsCancelled(j) ==
    /\ status[j] = "open"
    /\ Happens("cancel")
    /\ status' = [status EXCEPT ![j] = "cancelled"]
    /\ UNCHANGED <<at, count, task, stopping, closed, dead, done, waived, hopeless, cut>>

SystemStep == \/ \E s \in Slots : TaskStep(s)
              \/ \E w \in Replicas : Closes(w) \/ Ends(w)
              \/ \E c \in Copies : Fires(c)

Next ==
    /\ \/ SystemStep
       \/ \E w \in Replicas : Drops(w) \/ IsToldToStop(w) \/ Dies(w)
       \/ \E c \in Copies : Overflows(c)
       \/ \E j \in Jobs : IsCancelled(j)
    /\ UNCHANGED env

Spec == Init /\ [][Next]_vars

(* The workers go on and the delays end; of the queue, no copy is passed   *)
(* over for ever.                                                          *)
Fairness ==
    /\ \A s \in Slots : WF_vars(TaskStep(s) /\ UNCHANGED env)
    /\ \A w \in Replicas : WF_vars((Closes(w) \/ Ends(w)) /\ UNCHANGED env)
    /\ \A c \in Copies :
           /\ WF_vars(Fires(c) /\ UNCHANGED env)
           /\ SF_vars((\E s \in Slots : Takes(s, c)) /\ UNCHANGED env)

FairSpec == Spec /\ Fairness

---------------------------------------------------------------------------

NextSteps == {"idle", "look", "process", "fail", "again", "over", "sleep", "ack", "leave", "reject"}

Tasks == [copy : Copies \cup {<<>>}, count : 0..MaxRetries, next : NextSteps, wired : BOOLEAN]

TypeOK ==
    /\ env \in Environments
    /\ at \in [Copies -> {"none", "ready", "held", "delayed"}]
    /\ count \in [Copies -> 0..MaxRetries]
    /\ task \in [Slots -> Tasks]
    /\ \A s \in Slots : ~Comes(s, "idle") => task[s].copy \in Copies
    /\ stopping \subseteq Replicas /\ closed \subseteq Replicas
    /\ status \in [Jobs -> {"open", "cancelled", "failed"}]
    /\ dead \subseteq Jobs /\ done \subseteq Jobs /\ waived \subseteq Jobs
    /\ hopeless \subseteq Jobs /\ cut \subseteq Jobs
    /\ happened \subseteq env.may /\ faults \in 0..env.most

(* A delivery is in the hands of one task, which knows its count, and a    *)
(* task without its delivery is one that was cut off.                      *)
HeldByOne ==
    \A s \in Slots :
        /\ task[s].wired =>
              /\ ~Comes(s, "idle")
              /\ at[task[s].copy] = "held" /\ count[task[s].copy] = task[s].count
              /\ \A t \in Slots \ {s} : task[t].wired => task[t].copy # task[s].copy
        /\ ~task[s].wired /\ ~Comes(s, "idle") => Job(s) \in cut

(* Only the base class retries, and only while there is a retry left.      *)
RetriesOfBase ==
    /\ \A s \in Slots : Comes(s, "again") => MayRetry(s)
    /\ ~Base => /\ \A c \in Copies : at[c] # "delayed"
                /\ \A s \in Slots : task[s].next \notin {"again", "sleep", "over"}

Alive(j) == \E c \in Copies : c[1] = j /\ at[c] # "none"
Settled(j) == j \in done \cup waived \cup dead \/ (~Base /\ status[j] = "failed")

(* The faults that lose a message: a full queue, after the delay; in       *)
(* BaseAsyncWorker a stop, which acknowledges what arrives last, and a     *)
(* failure that could not be written to Redis.                             *)
Losses  == IF Base THEN {"full"} ELSE {"stop", "redis"}
Safe(j) == Settled(j) \/ happened \cap Losses # {}

(* What is about to be acknowledged is safe, or was published again: that  *)
(* copy counts one retry more, so no two copies wait for each other.       *)
Reason(s) ==
    /\ task[s].next \in {"ack", "leave"} /\ task[s].wired => Safe(Job(s))
    /\ Comes(s, "over") /\ task[s].wired =>
           \/ Safe(Job(s))
           \/ \E c \in Copies : c[1] = Job(s) /\ at[c] # "none" /\ count[c] > task[s].count
    /\ Comes(s, "fail") => Job(s) \in hopeless \cup cut

EndsWithReason == (stopping # {} => "stop" \in happened) /\ \A s \in Slots : Reason(s)

(* No message vanishes: as long as none of those faults happened, the      *)
(* broker has a copy of it, or its job was processed, found cancelled or   *)
(* marked as failed, or it is in the dead letter queue.                    *)
NothingVanishes == \A j \in Jobs : Alive(j) \/ Safe(j)

(* A job is marked as failed after a permanent error or its last retry -   *)
(* or because the connection was lost when it was to be acknowledged.      *)
FailedForCause == \A j \in Jobs : status[j] = "failed" => j \in hopeless \cup cut

(* Inductive (see Consumers_proofs).                                       *)
IInv == TypeOK /\ HeldByOne /\ RetriesOfBase /\ EndsWithReason /\ NothingVanishes /\ FailedForCause

(* However often its job fails for now, no message goes round for ever -   *)
(* if the delayed exchange is enabled: a requeued message is not counted.  *)
EventuallySettled == env.delayed => <>[](\A c \in Copies : at[c] = "none")
=============================================================================
