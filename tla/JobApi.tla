------------------------------- MODULE JobApi -------------------------------
(***************************************************************************)
(* The orchestrator's side of a job: the handlers that create, cancel and  *)
(* delete it and the watchdog that expires it.  A handler reads the status *)
(* in one Redis command and writes it in a later one.                      *)
(***************************************************************************)
EXTENDS JobRecord

CONSTANT
    OtherJobs           \* active_jobs always holds another job

ASSUME OtherJobsAssumption == OtherJobs \in BOOLEAN

VARIABLES
    api,                \* the create or upload handler
    cancel, delete,     \* one cancel and one delete request
    old,                \* the job's age exceeds JOB_TIMEOUT
    watchdog            \* what the watchdog decided for this job

apiVars == <<api, cancel, delete, old, watchdog>>

ApiInit ==
    /\ api = "new" /\ cancel = "none" /\ delete = "none"
    /\ old = FALSE /\ watchdog = "idle"

(* SetJobStatus: terminal states leave active_jobs.  Its error is logged   *)
(* or answered with 500; nothing is undone.                                *)
SetJobStatus(s) ==
    /\ TrySetStatus(s)
    /\ active' = IF status = "string" \/ s \notin Terminal THEN active ELSE FALSE

---------------------------------------------------------------------------
(* createJobHandler, uploadHandler.                                        *)

CreatePending ==
    /\ api = "new"
    /\ api' = "pending"
    /\ SetJobStatus("pending")
    /\ UNCHANGED <<steps, chunks, created, queue, events, subscribed, failures, cancel, delete, old, watchdog>>

(* SetJobCreated.                                                          *)
CreateMeta ==
    /\ api = "pending"
    /\ api' = "created"
    /\ created' = TRUE
    /\ active' = TRUE
    /\ UNCHANGED <<status, steps, chunks, queue, events, subscribed, failures, cancel, delete, old, watchdog>>

(* Its HSET fails and the client gets a 500; or only its ZADD fails, which *)
(* is not fatal.                                                           *)
CreateFault ==
    /\ api = "pending"
    /\ Fail("redis")
    /\ \/ api' = "answered" /\ UNCHANGED created
       \/ api' = "created" /\ created' = TRUE
    /\ UNCHANGED <<status, steps, chunks, active, queue, events, subscribed, cancel, delete, old, watchdog>>

PublishJob ==
    /\ api = "created"
    /\ api' = "answered"
    /\ Put(Entry, 0)
    /\ UNCHANGED <<status, steps, chunks, created, active, events, subscribed, failures, cancel, delete, old, watchdog>>

(* The publish fails, and the message may be in the queue all the same (a  *)
(* confirm timeout).  createJobHandler marks the job failed; uploadHandler *)
(* only answers 500.                                                       *)
PublishFault ==
    /\ api = "created"
    /\ Fail("publish")
    /\ api' = "answered"
    /\ Put(Entry, 0) \/ UNCHANGED queue
    /\ \/ Entry = "extraction" /\ SetJobStatus("failed")
       \/ UNCHANGED <<status, active>>
    /\ UNCHANGED <<steps, chunks, created, events, subscribed, cancel, delete, old, watchdog>>

---------------------------------------------------------------------------
(* cancelJobHandler, deleteJobHandler.                                     *)

CancelReads ==
    /\ "cancel" \in env.requests
    /\ api = "answered" /\ cancel = "none"
    /\ status \notin Terminal \cup {"absent", "string"}
    /\ cancel' = "accepted"
    /\ UNCHANGED <<recordVars, api, delete, old, watchdog>>

CancelWrites ==
    /\ cancel = "accepted"
    /\ cancel' = "done"
    /\ SetJobStatus("cancelled")
    /\ UNCHANGED <<steps, chunks, created, queue, events, subscribed, failures, api, delete, old, watchdog>>

DeleteReads ==
    /\ "delete" \in env.requests
    /\ delete = "none"
    /\ status \in {"completed", "failed"}
    /\ delete' = "accepted"
    /\ UNCHANGED <<recordVars, api, cancel, old, watchdog>>

(* DeleteJob removes the keys of the job, not its place in active_jobs.    *)
DeleteWrites ==
    /\ delete = "accepted"
    /\ delete' = "done"
    /\ status' = "absent" /\ steps' = {} /\ chunks' = FALSE /\ created' = FALSE
    /\ UNCHANGED <<active, queue, events, subscribed, failures, api, cancel, old, watchdog>>

---------------------------------------------------------------------------
(* ExpireStuckJobs, once a minute.                                         *)

JobTimeout ==
    /\ "timeout" \in env.requests
    /\ created /\ ~old
    /\ old' = TRUE
    /\ UNCHANGED <<recordVars, api, cancel, delete, watchdog>>

Expirable == {"pending", "processing", "extracting"}

(* Mutant: the status list of the watchdog lacks "extracting".             *)
WatchdogReadsTwo ==
    /\ watchdog = "idle"
    /\ old /\ active
    /\ status # "string"
    /\ watchdog' = IF status \in Expirable \ {"extracting"} THEN "expire" ELSE "remove"
    /\ UNCHANGED <<recordVars, api, cancel, delete, old>>

(* A status it cannot read is skipped, in this round and in every other.   *)
WatchdogReads ==
    /\ watchdog = "idle"
    /\ old /\ active
    /\ status # "string"
    /\ watchdog' = IF status \in Expirable THEN "expire" ELSE "remove"
    /\ UNCHANGED <<recordVars, api, cancel, delete, old>>

(* The SCAN fallback: active_jobs holds no job at all, so this one's :meta *)
(* key is looked at.                                                       *)
WatchdogScans ==
    /\ ~OtherJobs
    /\ watchdog = "idle"
    /\ old /\ created /\ ~active
    /\ status \in Expirable
    /\ watchdog' = "expire"
    /\ UNCHANGED <<recordVars, api, cancel, delete, old>>

WatchdogExpires ==
    /\ watchdog = "expire"
    /\ watchdog' = "idle"
    /\ TrySetStatus("failed")
    /\ active' = FALSE
    /\ UNCHANGED <<steps, chunks, created, queue, events, subscribed, failures, api, cancel, delete, old>>

WatchdogRemoves ==
    /\ watchdog = "remove"
    /\ watchdog' = "idle"
    /\ active' = FALSE
    /\ UNCHANGED <<status, steps, chunks, created, queue, events, subscribed, failures, api, cancel, delete, old>>

---------------------------------------------------------------------------

ApiSteps == CreatePending \/ CreateMeta \/ PublishJob \/ CancelWrites \/ DeleteWrites
WatchdogSteps == WatchdogReads \/ WatchdogScans \/ WatchdogExpires \/ WatchdogRemoves
ApiNext ==
    \/ ApiSteps \/ WatchdogSteps \/ JobTimeout
    \/ CancelReads \/ DeleteReads \/ CreateFault \/ PublishFault

ApiTypeOK ==
    /\ api \in {"new", "pending", "created", "answered"}
    /\ cancel \in {"none", "accepted", "done"}
    /\ delete \in {"none", "accepted", "done"}
    /\ old \in BOOLEAN
    /\ watchdog \in {"idle", "expire", "remove"}
=============================================================================
