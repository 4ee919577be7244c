--------------------------- MODULE JobCompletion ---------------------------
(***************************************************************************)
(* The completion worker: it listens to job_progress events, looks whether *)
(* every step of the job is there, and then makes the job complete.  It is *)
(* the only process that does.  One thread; one event at a time.           *)
(***************************************************************************)
EXTENDS JobRecord

VARIABLES
    comp,               \* what it does next about this job
    file,               \* the results file is on disk
    notices             \* "completed" webhooks sent

completionVars == <<comp, file, notices>>

CompletionInit == comp = "idle" /\ file = FALSE /\ notices = 0

Goes(from, to) == comp = from /\ comp' = to

Receives ==
    /\ Goes("idle", "status")
    /\ events > 0
    /\ events' = events - 1
    /\ UNCHANGED <<status, steps, chunks, created, active, queue, subscribed, failures, file, notices>>

(* check_job_completion.  A WRONGTYPE reply ends it like "cancelled".      *)
ReadsStatus ==
    /\ Goes("status", IF status \in {"cancelled", "string"} THEN "idle" ELSE "steps")
    /\ UNCHANGED <<recordVars, file, notices>>

(* Mutant: the steps of the profile, not those the job asks for.           *)
ReadsEntryStep ==
    /\ Goes("steps", IF Entry \in steps THEN "fetch" ELSE "idle")
    /\ UNCHANGED <<recordVars, file, notices>>

(* The steps it requires: the entry stage it infers from them, and what    *)
(* the pipeline adds for the profile and the features of the job.  They    *)
(* are Required once Entry is in them, and never a part of steps before.   *)
ReadsSteps ==
    /\ Goes("steps", IF Required \subseteq steps THEN "fetch" ELSE "idle")
    /\ UNCHANGED <<recordVars, file, notices>>

---------------------------------------------------------------------------
(* finalize_job.                                                           *)

(* Mutant: without the early return.                                       *)
FetchesAgain ==
    /\ Goes("fetch", IF status = "string" THEN "idle" ELSE "mark")
    /\ UNCHANGED <<recordVars, file, notices>>

Fetches ==
    /\ Goes("fetch", IF status \in {"completed", "string"} THEN "idle" ELSE "mark")
    /\ UNCHANGED <<recordVars, file, notices>>

Marks ==
    /\ Goes("mark", IF status = "string" THEN "idle" ELSE "save")
    /\ TrySetStatus("completed")
    /\ UNCHANGED <<steps, chunks, created, active, queue, events, subscribed, failures, file, notices>>

Saves ==
    /\ Goes("save", "notify")
    /\ file' = TRUE
    /\ UNCHANGED <<recordVars, notices>>

(* save_results_to_file logs its error and answers False, which nobody     *)
(* looks at.                                                               *)
SaveFault ==
    /\ Goes("save", "notify")
    /\ Fail("disk")
    /\ UNCHANGED <<status, steps, chunks, created, active, queue, events, subscribed, file, notices>>

Notifies ==
    /\ Goes("notify", "publish")
    /\ notices' = notices + 1
    /\ UNCHANGED <<recordVars, file>>

(* publish_job_completed, an event this worker ignores.                    *)
Announces ==
    /\ Goes("publish", "idle")
    /\ UNCHANGED <<recordVars, file, notices>>

(* A Redis error on the way: the job is failed, whatever it was; or Redis  *)
(* is still away and nothing is written.                                   *)
FinalizeFails ==
    /\ comp \in {"fetch", "mark", "notify", "publish"}
    /\ Fail("redis")
    /\ comp' = "idle"
    /\ TrySetStatus("failed") \/ UNCHANGED status
    /\ UNCHANGED <<steps, chunks, created, active, queue, events, subscribed, file, notices>>

(* The same before finalize_job: the event is used up.                     *)
CheckFails ==
    /\ comp \in {"status", "steps"}
    /\ Fail("redis")
    /\ comp' = "idle"
    /\ UNCHANGED <<status, steps, chunks, created, active, queue, events, subscribed, file, notices>>

---------------------------------------------------------------------------
(* The subscription.  Redis keeps no event for an absent subscriber.       *)

Unsubscribed ==
    /\ comp = "idle" /\ subscribed
    /\ Fail("unsubscribe")
    /\ subscribed' = FALSE /\ events' = 0
    /\ UNCHANGED <<status, steps, chunks, created, active, queue, completionVars>>

Restarts ==
    /\ Fail("restart")
    /\ comp' = "idle"
    /\ subscribed' = FALSE /\ events' = 0
    /\ UNCHANGED <<status, steps, chunks, created, active, queue, file, notices>>

Subscribes ==
    /\ comp = "idle" /\ ~subscribed
    /\ subscribed' = TRUE
    /\ UNCHANGED <<status, steps, chunks, created, active, queue, events, failures, completionVars>>

---------------------------------------------------------------------------

CompletionStep ==
    \/ Receives \/ ReadsStatus \/ ReadsSteps \/ Fetches \/ Marks \/ Saves
    \/ Notifies \/ Announces \/ Subscribes
CompletionFailure == SaveFault \/ FinalizeFails \/ CheckFails \/ Unsubscribed \/ Restarts
CompletionNext == CompletionStep \/ CompletionFailure

CompletionTypeOK ==
    /\ comp \in {"idle", "status", "steps", "fetch", "mark", "save", "notify", "publish"}
    /\ file \in BOOLEAN
    /\ notices \in Nat
=============================================================================
