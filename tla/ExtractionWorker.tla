-------------------------- MODULE ExtractionWorker --------------------------
(***************************************************************************)
(* The extraction workers: what becomes of an uploaded document, of its    *)
(* message and of the artifacts made from it.  Every delivery is handled   *)
(* by an asyncio task of its own, up to PREFETCH_COUNT at a time; a task   *)
(* outlives the connection its message came from.                          *)
(*                                                                         *)
(* The handler owns the uploaded file: its finally clause removes it, once *)
(* the text has been extracted, before the message is settled.             *)
(***************************************************************************)
EXTENDS ArtifactStore

CONSTANTS
    Slots,              \* tasks: one per replica and unit of prefetch
    Workers, WorkerOf,  \* the replicas, and the replica of a task
    Environments        \* the documents the jobs bring along, what the
                        \* surroundings may do, and a bound on how often;
                        \* one of them per behaviour

ASSUME WorkerAssumption ==
    /\ WorkerOf \in [Slots -> Workers]
    /\ \A e \in Environments :
           /\ e.most \in Nat
           /\ e.document \in [Jobs -> [content : Contents, source : {"path", "inline", "url"}]]

VARIABLES
    env,                \* the environment of this behaviour; it never changes
    doc,                \* the jobs whose uploaded file exists
    msg,                \* RabbitMQ: where the message of a job is
    status,             \* Redis :status
    announced,          \* jobs whose downstream messages were published
    replica,            \* of each replica: "up", "stop" (signalled), "closed"
    task,               \* per slot, see Tasks
    faults,
    waived,             \* ghost: jobs whose handler met the cancellation
    cut                 \* ghost: jobs whose handler outlived its delivery, or
                        \* died when it had removed the document

jobVars == <<doc, msg, status, announced, waived, cut>>
workerVars == <<replica, task>>
vars == <<env, jobVars, workerVars, faults, storeVars>>

document == env.document

NoJob == "nojob"
Free == [job |-> NoJob, at |-> "free", kept |-> 0, holds |-> FALSE, wired |-> FALSE,
         owns |-> FALSE, old |-> FALSE, verdict |-> "ack"]

Steps == {"free", "begun", "read", "converted", "looked", "described", "storing", "put",
          "reported", "dispatch", "cleaning", "settling"}

Init ==
    /\ env \in Environments
    /\ doc = {j \in Jobs : document[j].source = "path"}
    /\ msg = [j \in Jobs |-> "ready"]
    /\ status = [j \in Jobs |-> "pending"]
    /\ announced = {} /\ waived = {} /\ cut = {}
    /\ replica = [w \in Workers |-> "up"]
    /\ task = [s \in Slots |-> Free]
    /\ faults = 0
    /\ StoreInit

Happens(what) == what \in env.may /\ faults < env.most /\ faults' = faults + 1

Job(s) == task[s].job
At(s, step) == task[s].at = step
Goes(s, step) == task' = [task EXCEPT ![s].at = step]
SetStatus(s, v) == status' = [status EXCEPT ![Job(s)] = v]

---------------------------------------------------------------------------
(* _process_message_async, between its awaits and its Redis commands.      *)

(* An idle replica that was told to stop still starts nothing.  Whatever   *)
(* the status is, a cancellation included, it becomes "extracting".        *)
Takes(s, j) ==
    /\ replica[WorkerOf[s]] = "up"
    /\ At(s, "free")
    /\ msg[j] = "ready"
    /\ msg' = [msg EXCEPT ![j] = "held"]
    /\ task' = [task EXCEPT ![s] = [Free EXCEPT !.job = j, !.at = "begun", !.holds = TRUE, !.wired = TRUE]]
    /\ status' = [status EXCEPT ![j] = "extracting"]
    /\ UNCHANGED <<doc, announced, waived, cut, replica, faults, storeVars>>

Source(s) == document[Job(s)].source

(* extract_text_from_file opens the upload.                                *)
Reads(s) ==
    /\ At(s, "begun")
    /\ Source(s) = "path" /\ Job(s) \in doc
    /\ Goes(s, "read")
    /\ UNCHANGED <<jobVars, replica, faults, storeVars>>

(* extract_text_from_base64: the message holds the document.               *)
Decodes(s) ==
    /\ At(s, "begun")
    /\ Source(s) = "inline"
    /\ Goes(s, "read")
    /\ UNCHANGED <<jobVars, replica, faults, storeVars>>

(* extract_text_from_url.                                                  *)
Fetches(s) ==
    /\ At(s, "begun")
    /\ Source(s) = "url"
    /\ Goes(s, "read")
    /\ UNCHANGED <<jobVars, replica, faults, storeVars>>

(* Plain text is decoded here; anything else goes to Docling: a task is    *)
(* submitted, polled until it is done and its result fetched.              *)
Converts(s) ==
    /\ At(s, "read")
    /\ Goes(s, "converted")
    /\ UNCHANGED <<jobVars, replica, faults, storeVars>>

(* run_quality_flow (see VisionPages), and the first look for a            *)
(* cancellation.  From here on temp_file_path is the uploaded document, or *)
(* a copy of one that was not uploaded.                                    *)
Looks(s) ==
    /\ At(s, "converted")
    /\ status[Job(s)] # "cancelled"
    /\ task' = [task EXCEPT ![s].at = "looked", ![s].owns = Source(s) = "path"]
    /\ UNCHANGED <<jobVars, replica, faults, storeVars>>

(* extract_document_metadata, in a thread; it fails no job.                *)
Describes(s) ==
    /\ At(s, "looked")
    /\ Goes(s, "described")
    /\ UNCHANGED <<jobVars, replica, faults, storeVars>>

(* The text is not empty (see Errs); analyze_text and chunk_text.          *)
Analyzes(s) ==
    /\ At(s, "described")
    /\ Goes(s, "storing")
    /\ SetStatus(s, "processing")
    /\ UNCHANGED <<doc, msg, announced, waived, cut, replica, faults, storeVars>>

Kind(s) == Kinds[task[s].kept + 1]
Digest(s) == <<document[Job(s)].content, Kind(s)>>

Puts(s) ==
    /\ At(s, "storing") /\ task[s].kept < Len(Kinds)
    /\ task' = [task EXCEPT ![s].at = "put", ![s].old = file[Digest(s)] = "old"]
    /\ PutArtifact(Digest(s))
    /\ UNCHANGED <<jobVars, replica, faults, ref, reused, gcVars>>

Keeps(s) ==
    /\ At(s, "put")
    /\ task' = [task EXCEPT ![s].at = "storing", ![s].kept = @ + 1]
    /\ SetRef(<<Job(s), Kind(s)>>, Digest(s), task[s].old)
    /\ UNCHANGED <<jobVars, replica, faults, file, gcVars>>

(* The step is "completed", stage.completed published, the source          *)
(* classified, and the cancellation looked for once more.                  *)
Reports(s) ==
    /\ At(s, "storing") /\ task[s].kept = Len(Kinds)
    /\ Goes(s, "reported")
    /\ UNCHANGED <<jobVars, replica, faults, storeVars>>

LooksAgain(s) ==
    /\ At(s, "reported")
    /\ status[Job(s)] # "cancelled"
    /\ Goes(s, "dispatch")
    /\ UNCHANGED <<jobVars, replica, faults, storeVars>>

(* Inference chunks and envelopes, through the channel of the delivery.    *)
Publishes(s) ==
    /\ At(s, "dispatch")
    /\ task[s].wired
    /\ announced' = announced \cup {Job(s)}
    /\ Goes(s, "cleaning")
    /\ UNCHANGED <<doc, msg, status, waived, cut, replica, faults, storeVars>>

(* JobCancelledError: logged, and the message is acknowledged.             *)
FindsCancelled(s) ==
    /\ At(s, "converted") \/ At(s, "reported")
    /\ status[Job(s)] = "cancelled"
    /\ Goes(s, "cleaning")
    /\ waived' = waived \cup {Job(s)}
    /\ UNCHANGED <<doc, msg, status, announced, cut, replica, faults, storeVars>>

(* Mutant: the exception is not raised again.                              *)
FailsJobQuietly(s) ==
    /\ task' = [task EXCEPT ![s].at = "cleaning"]
    /\ SetStatus(s, "failed")
    /\ UNCHANGED <<doc, msg, announced, waived, cut, replica, storeVars>>

(* Any other exception: "failed", and the message is rejected.             *)
FailsJob(s) ==
    /\ task' = [task EXCEPT ![s].at = "cleaning", ![s].verdict = "reject"]
    /\ SetStatus(s, "failed")
    /\ UNCHANGED <<doc, msg, announced, waived, cut, replica, storeVars>>

FindsNoDocument(s) ==
    /\ At(s, "begun") /\ Source(s) = "path" /\ Job(s) \notin doc
    /\ FailsJob(s)
    /\ UNCHANGED faults

(* Mutant: the publish is tried again on the same channel.                 *)
FindsChannelClosedAgain(s) ==
    /\ At(s, "dispatch") /\ ~task[s].wired
    /\ UNCHANGED <<jobVars, workerVars, faults, storeVars>>

FindsChannelClosed(s) ==
    /\ At(s, "dispatch") /\ ~task[s].wired
    /\ FailsJob(s)
    /\ UNCHANGED faults

(* Docling says failure, does not answer in time, the text is empty, the   *)
(* disk is full, ...                                                       *)
Errs(s) ==
    /\ task[s].at \in {"begun", "read", "described", "storing", "put", "dispatch"}
    /\ Happens("error")
    /\ FailsJob(s)

(* The finally clause.                                                     *)
Cleans(s) ==
    /\ At(s, "cleaning")
    /\ Goes(s, "settling")
    /\ doc' = IF task[s].owns THEN doc \ {Job(s)} ELSE doc
    /\ UNCHANGED <<msg, status, announced, waived, cut, replica, faults, storeVars>>

(* Mutant: a rejected message is requeued (requeue=True).                  *)
SettlesRequeueing(s) ==
    /\ At(s, "settling")
    /\ msg' = IF task[s].holds
              THEN [msg EXCEPT ![Job(s)] = IF task[s].verdict = "ack" THEN "acked" ELSE "ready"]
              ELSE msg
    /\ task' = [task EXCEPT ![s] = Free]
    /\ UNCHANGED <<doc, status, announced, waived, cut, replica, faults, storeVars>>

(* message.process(requeue=False): nothing reaches a broker that has       *)
(* already taken the delivery back.                                        *)
Settles(s) ==
    /\ At(s, "settling")
    /\ msg' = IF task[s].holds
              THEN [msg EXCEPT ![Job(s)] = IF task[s].verdict = "ack" THEN "acked" ELSE "dead"]
              ELSE msg
    /\ task' = [task EXCEPT ![s] = Free]
    /\ UNCHANGED <<doc, status, announced, waived, cut, replica, faults, storeVars>>

TaskStep(s) ==
    \/ \E j \in Jobs : Takes(s, j)
    \/ Reads(s) \/ Decodes(s) \/ Fetches(s) \/ Converts(s)
    \/ Looks(s) \/ Describes(s) \/ Analyzes(s)
    \/ Puts(s) \/ Keeps(s) \/ Reports(s) \/ LooksAgain(s) \/ Publishes(s)
    \/ FindsCancelled(s) \/ FindsNoDocument(s) \/ FindsChannelClosed(s)
    \/ Cleans(s) \/ Settles(s)

---------------------------------------------------------------------------
(* The life of a replica (_run).                                           *)

SlotsOf(w) == {s \in Slots : WorkerOf[s] = w}
Held(w) == {s \in SlotsOf(w) : task[s].holds}
JobsOf(S) == {Job(s) : s \in S}

Requeue(S) == msg' = [j \in Jobs |-> IF j \in JobsOf(S) THEN "ready" ELSE msg[j]]

(* The broker takes its deliveries back.  The tasks go on; connect_robust  *)
(* gives their channel a new connection.                                   *)
Drops(w) ==
    /\ replica[w] # "closed"
    /\ Happens("drop")
    /\ Requeue(Held(w))
    /\ task' = [s \in Slots |-> IF s \in Held(w) THEN [task[s] EXCEPT !.holds = FALSE] ELSE task[s]]
    /\ cut' = cut \cup JobsOf(Held(w))
    /\ UNCHANGED <<doc, status, announced, waived, replica, storeVars>>

(* An error the robust connection does not absorb leaves "async with       *)
(* connection": the tasks keep a closed channel, the loop connects anew.   *)
Unwired(w) == [s \in Slots |-> IF s \in SlotsOf(w) /\ task[s].at # "free"
                               THEN [task[s] EXCEPT !.holds = FALSE, !.wired = FALSE]
                               ELSE task[s]]

ConnectsAnew(w) ==
    /\ replica[w] # "closed"
    /\ Happens("drop")
    /\ Requeue(Held(w))
    /\ task' = Unwired(w)
    /\ cut' = cut \cup JobsOf(Held(w))
    /\ UNCHANGED <<doc, status, announced, waived, replica, storeVars>>

(* SIGTERM sets stop_event ...                                             *)
IsToldToStop(w) ==
    /\ replica[w] = "up"
    /\ Happens("stop")
    /\ replica' = [replica EXCEPT ![w] = "stop"]
    /\ UNCHANGED <<jobVars, task, storeVars>>

(* ... which the loop looks at when the next message arrives.  It leaves   *)
(* "async with connection" with that message unsettled and its tasks under *)
(* way, and then waits for them.                                           *)
Closes(w) ==
    /\ replica[w] = "stop"
    /\ \E j \in Jobs : msg[j] = "ready"
    /\ Held(w) # SlotsOf(w)
    /\ replica' = [replica EXCEPT ![w] = "closed"]
    /\ Requeue(Held(w))
    /\ task' = Unwired(w)
    /\ cut' = cut \cup JobsOf(Held(w))
    /\ UNCHANGED <<doc, status, announced, waived, faults, storeVars>>

(* The process has come to its end and another takes its place.            *)
IsReplaced(w) ==
    /\ replica[w] = "closed"
    /\ \A s \in SlotsOf(w) : At(s, "free")
    /\ replica' = [replica EXCEPT ![w] = "up"]
    /\ UNCHANGED <<jobVars, task, faults, storeVars>>

(* It dies, or is killed because it takes too long to stop.                *)
Dies(w) ==
    /\ IF replica[w] = "up" THEN Happens("crash") ELSE UNCHANGED faults
    /\ replica' = [replica EXCEPT ![w] = "up"]
    /\ Requeue(Held(w))
    /\ cut' = cut \cup JobsOf({s \in Held(w) : At(s, "settling")})
    /\ task' = [s \in Slots |-> IF s \in SlotsOf(w) THEN Free ELSE task[s]]
    /\ UNCHANGED <<doc, status, announced, waived, storeVars>>

---------------------------------------------------------------------------
(* What the rest of the system does to a job meanwhile.                    *)

IsCancelled(j) ==
    /\ status[j] \in {"pending", "extracting", "processing"}
    /\ Happens("cancel")
    /\ status' = [status EXCEPT ![j] = "cancelled"]
    /\ UNCHANGED <<doc, msg, announced, waived, cut, workerVars, storeVars>>

Completes(j) ==
    /\ j \in announced
    /\ status[j] \in {"extracting", "processing"}
    /\ status' = [status EXCEPT ![j] = "completed"]
    /\ UNCHANGED <<doc, msg, announced, waived, cut, workerVars, faults, storeVars>>

IsDeleted(j) ==
    /\ status[j] \in {"completed", "failed"}
    /\ Happens("delete")
    /\ status' = [status EXCEPT ![j] = "absent"]
    /\ DropRefs(j)
    /\ UNCHANGED <<doc, msg, announced, waived, cut, workerVars, file, gcVars>>

(* No task takes a day from put to SET.                                    *)
DayPasses ==
    /\ \A s \in Slots : ~At(s, "put")
    /\ Happens("day")
    /\ FilesAge
    /\ UNCHANGED <<jobVars, workerVars>>

Collector ==
    /\ GcNext
    /\ IF gc = "idle" THEN Happens("gc") ELSE UNCHANGED faults
    /\ UNCHANGED <<jobVars, workerVars>>

ReplicaStep(w) == Closes(w) \/ IsReplaced(w)

Next ==
    /\ \/ \E s \in Slots : TaskStep(s) \/ Errs(s)
       \/ \E w \in Workers : ReplicaStep(w) \/ Drops(w) \/ ConnectsAnew(w) \/ IsToldToStop(w) \/ Dies(w)
       \/ \E j \in Jobs : IsCancelled(j) \/ Completes(j) \/ IsDeleted(j)
       \/ DayPasses \/ Collector
    /\ UNCHANGED env

Spec == Init /\ [][Next]_vars

(* A task goes on, a replica that has stopped is replaced.                 *)
Fairness ==
    /\ \A s \in Slots : WF_vars(TaskStep(s) /\ UNCHANGED env)
    /\ \A w \in Workers : WF_vars(ReplicaStep(w) /\ UNCHANGED env)

FairSpec == Spec /\ Fairness

---------------------------------------------------------------------------

Tasks ==
    {t \in [job : Jobs \cup {NoJob}, at : Steps, kept : 0..2, holds : BOOLEAN,
            wired : BOOLEAN, owns : BOOLEAN, old : BOOLEAN, verdict : {"ack", "reject"}] :
        /\ t.at # "free" => t.job \in Jobs
        /\ t.holds => t.at # "free"
        /\ t.at = "put" => t.kept \in 0..1}

TypeOK ==
    /\ doc \subseteq Jobs /\ announced \subseteq Jobs /\ waived \subseteq Jobs /\ cut \subseteq Jobs
    /\ msg \in [Jobs -> {"ready", "held", "acked", "dead"}]
    /\ status \in [Jobs -> {"pending", "extracting", "processing", "completed", "failed", "cancelled", "absent"}]
    /\ replica \in [Workers -> {"up", "stop", "closed"}]
    /\ env \in Environments /\ faults \in 0..env.most
    /\ task \in [Slots -> Tasks]
    /\ StoreTypeOK

(* A delivery is in the hands of one task, and a message the broker has    *)
(* settled or taken back is in nobody's (message.process, _run).           *)
HeldByOne ==
    \A s \in Slots : task[s].holds =>
        /\ msg[Job(s)] = "held"
        /\ \A t \in Slots \ {s} : task[t].holds => Job(t) # Job(s)

(* A task that is going to acknowledge has handed its job on, or found it  *)
(* cancelled ...                                                           *)
AcksWithReason ==
    \A s \in Slots :
        task[s].at \in {"cleaning", "settling"} /\ task[s].verdict = "ack"
            => Job(s) \in announced \cup waived

(* ... so no message is acknowledged whose job stops there, whatever       *)
(* happens to the connection and the replica meanwhile.                    *)
AckedIsDone == \A j \in Jobs : msg[j] = "acked" => j \in announced \cup waived

(* What a task has just put is there and fresh until its SET ...           *)
PutIsFresh ==
    \A s \in Slots : At(s, "put") => task[s].old \/ file[Digest(s)] = "fresh"

(* ... a reference to an artifact found fresh is seen by the collector or  *)
(* names a file it spares ...                                              *)
CollectorSees ==
    gc # "idle" => \A k \in Keys :
        k[2] \in patterns /\ ref[k] # NoDigest /\ k \notin reused
            => ref[k] \in live \/ file[ref[k]] = "fresh"

(* ... and what it removes is old and was not referenced.                  *)
OrphansAreOld ==
    gc = "delete" =>
        /\ patterns = {"text", "chunks"}
        /\ \A d \in orphans : d \notin live /\ file[d] = "old"

(* A task without its delivery is one of a job that was cut off, and a     *)
(* document that is gone was removed by a task that is about to settle, or *)
(* has settled, the message ...                                            *)
Orphaned == \A s \in Slots : ~At(s, "free") /\ ~task[s].holds => Job(s) \in cut

RemovedInTime ==
    \A j \in Jobs \ (doc \cup cut) : document[j].source = "path" =>
        \/ msg[j] \in {"acked", "dead"}
        \/ \E s \in Slots : task[s].holds /\ Job(s) = j /\ At(s, "settling")

(* ... so as long as a message can be delivered its document is there to   *)
(* be read: the only messages that outlive it are those of a handler that  *)
(* lost the connection, or died between the removal and the                *)
(* acknowledgement.                                                        *)
DocumentThere ==
    \A j \in Jobs : msg[j] = "ready" /\ document[j].source = "path" /\ j \notin cut => j \in doc

(* The collector leaves a dangling reference only where put had met a file *)
(* that was already old and kept its time (FSStore.put, artifact_gc.gc):   *)
(* min_age protects what a running job has written, not what it has found. *)
DanglingWasOld ==
    \A k \in Keys : ref[k] # NoDigest /\ ~Resolves(k) => k \in reused

(* Inductive (see Extraction_proofs).                                      *)
IInv ==
    /\ TypeOK
    /\ HeldByOne /\ AcksWithReason /\ AckedIsDone
    /\ Orphaned /\ RemovedInTime
    /\ PutIsFresh /\ CollectorSees /\ OrphansAreOld /\ DanglingWasOld

(* Every message is settled in the end: no task waits for another, and no  *)
(* interruption loses one.                                                 *)
EventuallySettled == <>[](\A j \in Jobs : msg[j] \in {"acked", "dead"})
=============================================================================
