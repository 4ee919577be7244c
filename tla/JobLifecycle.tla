---------------------------- MODULE JobLifecycle ----------------------------
(***************************************************************************)
(* One job from its creation to its end: the orchestrator (JobApi), the    *)
(* entry and stage workers (JobWorkers) and the completion worker          *)
(* (JobCompletion), which share nothing but the job's record in Redis, the *)
(* queues and the event channel (JobRecord).                               *)
(***************************************************************************)
EXTENDS JobApi, JobWorkers, JobCompletion

vars == <<env, recordVars, apiVars, workerVars, completionVars>>

Init == env \in Environments /\ RecordInit /\ ApiInit /\ WorkersInit /\ CompletionInit

Next ==
    \/ ApiNext /\ UNCHANGED <<env, workerVars, completionVars>>
    \/ WorkersNext /\ UNCHANGED <<env, apiVars, completionVars>>
    \/ CompletionNext /\ UNCHANGED <<env, apiVars, workerVars>>

Spec == Init /\ [][Next]_vars

(* Every process goes on with what it has to do, the watchdog's ticker     *)
(* ticks, and a job that stays grows old.                                  *)
Fairness ==
    /\ WF_vars(ApiSteps /\ UNCHANGED <<env, workerVars, completionVars>>)
    /\ WF_vars((WatchdogSteps \/ JobTimeout) /\ UNCHANGED <<env, workerVars, completionVars>>)
    /\ \A h \in Handlers : WF_vars(EntryStep(h) /\ UNCHANGED <<env, apiVars, completionVars>>)
    /\ \A q \in Stages : WF_vars(StageStep(q) /\ UNCHANGED <<env, apiVars, completionVars>>)
    /\ WF_vars(CompletionStep /\ UNCHANGED <<env, apiVars, workerVars>>)

FairSpec == Spec /\ Fairness

---------------------------------------------------------------------------

(* Every variable has its type; no message is retried more than MaxRetries *)
(* times (BaseWorker._should_retry).                                       *)
TypeOK == RecordTypeOK /\ ApiTypeOK /\ WorkersTypeOK /\ CompletionTypeOK

(* A job is completed when the worker of every required step has stored    *)
(* its part, and not before (completion_worker.check_job_completion).      *)
CompletedIsDone == status = "completed" /\ created => Required \subseteq steps

(* What CompletedIsDone rests on.  Until the job has been created nobody   *)
(* else acts on it ...                                                     *)
Unpublished ==
    api \in {"new", "pending"} =>
        /\ ~created /\ ~old
        /\ status \in {"absent", "pending"}
        /\ cancel = "none" /\ delete = "none" /\ watchdog = "idle"
        /\ queue = [q \in Required |-> <<>>]
        /\ \A h \in Handlers : entry[h] = "idle"
        /\ \A q \in Stages : worker[q] = "idle"
        /\ events = 0 /\ comp = "idle"

(* ... and what the completion worker set out to finalize is still there   *)
(* when it writes the status, several commands later.                      *)
FinalizesDone == comp \in {"fetch", "mark"} /\ created => Required \subseteq steps

(* Inductive (see JobLifecycle_proofs).                                    *)
IInv == Unpublished /\ FinalizesDone /\ CompletedIsDone

(* Surroundings in which no job has to be given up: nobody cancels or      *)
(* deletes it, it does not expire, and only transient errors and restarts  *)
(* of stage workers go wrong.                                              *)
Benign == env.requests = {} /\ env.failures \subseteq {"transient", "crash"}

(* A client is told once that its job is completed (finalize_job's early   *)
(* return, send_webhook), however many events and retries there were.      *)
NotifiedOnce == Benign => notices <= 1

EntryOpen == queue[Entry] # <<>> \/ \E h \in Handlers : entry[h] # "idle"
Ended == status \in Terminal \cup {"absent", "string"}

(* A stage that has not delivered is still in somebody's hands once the    *)
(* entry stage is over: queued, being worked on, or the job has an end     *)
(* (fan-out of the entry workers, BaseWorker._handle_transient_error).     *)
StageAccounted ==
    Benign /\ api = "answered" /\ ~EntryOpen /\ ~Ended
        => \A q \in Stages : q \in steps \/ queue[q] # <<>> \/ worker[q] # "idle"

(* When the last step is stored somebody will still look: a worker that    *)
(* has yet to announce, an event to be read, or the completion worker on   *)
(* its way (events are published after the step, and each is read before   *)
(* the steps are).                                                         *)
NoLostWakeup ==
    Benign /\ Required \subseteq steps /\ ~Ended
        => \/ events > 0 \/ comp # "idle"
           \/ EntryOpen
           \/ \E q \in Stages : worker[q] # "idle" \/ queue[q] # <<>>

(* "completed" is final: only the deletion of the job may follow.          *)
CompletedStays == [][Benign /\ status = "completed" => status' \in {"completed", "absent"}]_vars

(* Whatever goes wrong on the way, short of the loss of the status itself: *)
(* a watched job comes to an end, if only that of ExpireStuckJobs.         *)
ActiveEnds == active ~> status \in Terminal \cup {"absent"}

(* Without cancellation, expiry or permanent errors, retries and restarts  *)
(* of workers delay a job but it ends completed, with its results.         *)
EventuallyCompleted == Benign => <>[](status = "completed" /\ file)

=============================================================================
