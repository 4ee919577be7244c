------------------------------ MODULE JobRecord ------------------------------
(***************************************************************************)
(* What the parts of textFlow share about one job: its keys in Redis, its  *)
(* place in the active_jobs sorted set, its messages in RabbitMQ, and the  *)
(* job_progress events in the subscription of the completion worker.       *)
(* JobApi, JobWorkers and JobCompletion act on it; JobLifecycle composes   *)
(* them.                                                                   *)
(*                                                                         *)
(* The status key is a hash with one field.  Some code replaces the hash   *)
(* by a plain string; from then on Redis answers every HGET, HSET and      *)
(* HGETALL of the key with WRONGTYPE.                                      *)
(***************************************************************************)
EXTENDS Naturals, Sequences

CONSTANTS
    Entry,              \* the entry stage, by type of document
    Queues,             \* downstream stages in dispatch order (pipeline.json)
    MaxRetries,         \* BaseWorker.max_retries
    Environments,       \* what the surroundings may do, one of them per behaviour
    MaxFailures         \* bound: failures of any kind

ASSUME PipelineAssumption ==
    /\ Entry \in {"extraction", "audio", "image"}
    /\ Queues \in Seq(STRING)
    /\ \A i \in DOMAIN Queues : Queues[i] # Entry
    /\ MaxRetries \in Nat
    /\ MaxFailures \in Nat
    /\ Environments \subseteq [failures : SUBSET STRING, requests : SUBSET STRING]

VARIABLES
    env,                \* the environment of this behaviour; it never changes
    status,             \* Redis :status
    steps,              \* Redis :steps, the steps that are "completed"
    chunks,             \* Redis :text and :chunks are set
    created,            \* Redis :meta has created_at
    active,             \* the job is a member of active_jobs
    queue,              \* RabbitMQ: retry counts of the waiting messages
    events, subscribed, \* job_progress events in the subscription
    failures            \* how many failures happened

recordVars == <<status, steps, chunks, created, active, queue, events, subscribed, failures>>

Stages   == {Queues[i] : i \in DOMAIN Queues}
Required == {Entry} \cup Stages

EntryStatus == CASE Entry = "extraction" -> "extracting"
                 [] Entry = "audio"      -> "transcribing"
                 [] Entry = "image"      -> "analyzing_image"

Terminal == {"completed", "failed", "cancelled"}
Statuses == Terminal \cup {"pending", EntryStatus, "processing", "absent", "string"}

RecordInit ==
    /\ status = "absent" /\ steps = {} /\ chunks = FALSE
    /\ created = FALSE /\ active = FALSE
    /\ queue = [q \in Required |-> <<>>]
    /\ events = 0 /\ subscribed = TRUE
    /\ failures = 0

(* HSET of the status; a failed one is logged and changes nothing.         *)
TrySetStatus(s) == status' = IF status = "string" THEN "string" ELSE s

(* PUBLISH of a job_progress event reaches whoever is subscribed now.      *)
Publish == events' = IF subscribed THEN events + 1 ELSE events

Put(q, retries) == queue' = [queue EXCEPT ![q] = Append(@, retries)]
Take(q) == queue[q] # <<>> /\ queue' = [queue EXCEPT ![q] = Tail(@)]

Fail(kind) ==
    /\ kind \in env.failures
    /\ failures < MaxFailures
    /\ failures' = failures + 1

RecordTypeOK ==
    /\ status \in Statuses
    /\ steps \subseteq Required
    /\ chunks \in BOOLEAN /\ created \in BOOLEAN /\ active \in BOOLEAN /\ subscribed \in BOOLEAN
    /\ queue \in [Required -> Seq(0..MaxRetries)]
    /\ events \in Nat
    /\ failures \in 0..MaxFailures
=============================================================================
