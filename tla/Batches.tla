------------------------------- MODULE Batches -------------------------------
(***************************************************************************)
(* Batches of documents, from the request that creates one to the webhook  *)
(* that says it is complete, beside the uploads of single documents and    *)
(* the admission control that only those go through.                       *)
(*                                                                         *)
(* One goroutine of the handler creates each job of the batch; none of its *)
(* Redis calls is checked.  A job is counted by the completion worker, in  *)
(* a Redis counter, once its status is "completed".                        *)
(***************************************************************************)
EXTENDS Naturals, FiniteSets

CONSTANTS
    Documents,          \* of one batch request
    Uploads,            \* requests of their own, with one document each
    MaxConcurrency,     \* goroutines at a time
    MaxConcurrentJobs,  \* MAX_CONCURRENT_JOBS, for admission
    Handlers,           \* bound: uploads that are handled at the same time
    Environments        \* the documents whose profile is valid, the uploads
                        \* there are, what may happen and how often

ASSUME BatchesAssumption ==
    /\ MaxConcurrency \in Nat \ {0} /\ Handlers \in Nat \ {0} /\ MaxConcurrentJobs \in Nat
    /\ IsFiniteSet(Documents) /\ IsFiniteSet(Uploads) /\ Documents \cap Uploads = {}
    /\ \A e \in Environments : e.most \in Nat /\ e.valid \subseteq Documents /\ e.uploads \subseteq Uploads

VARIABLES
    env,                \* the environment of this behaviour; it never changes
    request,            \* the batch request: "new", "refused", "open", "answered"
    gone,               \* its client has gone: the context is cancelled
    total,              \* Redis batch :meta, total
    members,            \* Redis batch :jobs
    linked,             \* the jobs with a batch_id in their :meta
    counter,            \* Redis batch :done_count
    sent,               \* batch webhooks
    at,                 \* per job: where its creation is
    status,             \* Redis :status
    active,             \* Redis active_jobs
    progress,           \* jobs whose last step is stored, and told of
    comp,               \* the completion worker: what it does for which job
    counted, recounts,  \* ghost: the jobs counted, and those counted again
    happened, faults

batchVars == <<request, gone, total, members, linked>>
countVars == <<counter, sent, counted, recounts>>
vars == <<env, batchVars, countVars, at, status, active, progress, comp, happened, faults>>

Jobs     == Documents \cup Uploads
Accepted == env.valid
Nobody   == [job |-> "nobody", next |-> "idle"]

Init ==
    /\ env \in Environments
    /\ request = "new" /\ gone = FALSE /\ total = 0 /\ members = {} /\ linked = {}
    /\ counter = 0 /\ sent = 0 /\ counted = {} /\ recounts = 0
    /\ at = [j \in Jobs |-> "new"]
    /\ status = [j \in Jobs |-> "none"]
    /\ active = {} /\ progress = {}
    /\ comp = Nobody
    /\ happened = {} /\ faults = 0

Happens(what) ==
    /\ what \in env.may /\ faults < env.most
    /\ faults' = faults + 1 /\ happened' = happened \cup {what}
Calm == UNCHANGED <<happened, faults>>

(* A Redis call of the handler succeeds, or fails: because the client has  *)
(* gone, or for a reason of its own.                                       *)
Answers(ok) ==
    \/ ok /\ ~gone /\ Calm
    \/ ~ok /\ gone /\ Calm
    \/ ~ok /\ ~gone /\ Happens("redis")

Goes(j, from, to) == at[j] = from /\ at' = [at EXCEPT ![j] = to]

---------------------------------------------------------------------------
(* CreateBatchHandler.                                                     *)

(* planBatchProfiles has rejected every document, or the write fails.      *)
RefusesBatch ==
    /\ request = "new"
    /\ IF Accepted = {} THEN Calm ELSE Answers(FALSE)
    /\ request' = "refused"
    /\ UNCHANGED <<gone, total, members, linked, countVars, at, status, active, progress, comp>>

CreatesBatch ==
    /\ request = "new" /\ Accepted # {}
    /\ Answers(TRUE)
    /\ request' = "open"
    /\ total' = Cardinality(Accepted)
    /\ UNCHANGED <<gone, members, linked, countVars, at, status, active, progress, comp>>

Started == {j \in Accepted : at[j] \in {"pending", "created", "linked", "member"}}

(* SetJobStatus, in a goroutine that has a place of the semaphore.         *)
SetsPending(j) ==
    /\ request = "open" /\ j \in Accepted
    /\ Cardinality(Started) < MaxConcurrency
    /\ Goes(j, "new", "pending")
    /\ \E ok \in BOOLEAN :
           Answers(ok) /\ status' = IF ok THEN [status EXCEPT ![j] = "pending"] ELSE status
    /\ UNCHANGED <<batchVars, countVars, active, progress, comp>>

(* SetJobCreated.                                                          *)
SetsCreated(j) ==
    /\ j \in Accepted
    /\ Goes(j, "pending", "created")
    /\ \E ok \in BOOLEAN : Answers(ok) /\ active' = IF ok THEN active \cup {j} ELSE active
    /\ UNCHANGED <<batchVars, countVars, status, progress, comp>>

(* HSET batch_id.                                                          *)
Links(j) ==
    /\ j \in Accepted
    /\ Goes(j, "created", "linked")
    /\ \E ok \in BOOLEAN : Answers(ok) /\ linked' = IF ok THEN linked \cup {j} ELSE linked
    /\ UNCHANGED <<request, gone, total, members, countVars, status, active, progress, comp>>

(* Mutant: SET of a key that is not there, instead of SADD.                *)
JoinsFirstOnly(j) ==
    /\ j \in Accepted
    /\ Goes(j, "linked", "member")
    /\ Calm
    /\ members' = IF members = {} THEN {j} ELSE members
    /\ UNCHANGED <<request, gone, total, linked, countVars, status, active, progress, comp>>

(* SADD.                                                                   *)
Joins(j) ==
    /\ j \in Accepted
    /\ Goes(j, "linked", "member")
    /\ \E ok \in BOOLEAN : Answers(ok) /\ members' = IF ok THEN members \cup {j} ELSE members
    /\ UNCHANGED <<request, gone, total, linked, countVars, status, active, progress, comp>>

Publishes(j) ==
    /\ j \in Accepted /\ ~gone
    /\ Goes(j, "member", "running")
    /\ UNCHANGED <<batchVars, countVars, status, active, progress, comp, happened, faults>>

(* SetJobError, SetJobStatus; they fail too when the client has gone.      *)
CannotPublish(j) ==
    /\ j \in Accepted
    /\ Goes(j, "member", "answered")
    /\ IF gone THEN Calm /\ UNCHANGED <<status, active>>
       ELSE /\ Happens("publish")
            /\ status' = [status EXCEPT ![j] = "failed"]
            /\ active' = active \ {j}
    /\ UNCHANGED <<batchVars, countVars, progress, comp>>

(* The goroutine ends and gives its place back.                            *)
AnswersBatch ==
    /\ request = "open"
    /\ \A j \in Accepted : at[j] \in {"running", "answered", "ended"}
    /\ request' = "answered"
    /\ UNCHANGED <<gone, total, members, linked, countVars, at, status, active, progress, comp, happened, faults>>

ClientLeaves ==
    /\ request = "open" /\ ~gone
    /\ Happens("leave")
    /\ gone' = TRUE
    /\ UNCHANGED <<request, total, members, linked, countVars, at, status, active, progress, comp>>

CreateStep(j) == SetsPending(j) \/ SetsCreated(j) \/ Links(j) \/ Joins(j) \/ Publishes(j) \/ CannotPublish(j)

---------------------------------------------------------------------------
(* createJobHandler for a single document.                                 *)

InFlight == {u \in Uploads : at[u] \in {"admitted", "pending"}}

(* Mutant: the limit itself is still let in.                               *)
IsAdmittedLate(u) ==
    /\ u \in env.uploads /\ at[u] = "new"
    /\ Cardinality(InFlight) < Handlers
    /\ \/ Cardinality(active) <= MaxConcurrentJobs /\ Calm
       \/ Happens("redis")
    /\ at' = [at EXCEPT ![u] = "admitted"]
    /\ UNCHANGED <<batchVars, countVars, status, active, progress, comp>>

(* CanAcceptJob counts the active jobs, and lets the job in when it cannot *)
(* count them ...                                                          *)
IsAdmitted(u) ==
    /\ u \in env.uploads /\ at[u] = "new"
    /\ Cardinality(InFlight) < Handlers
    /\ \/ Cardinality(active) < MaxConcurrentJobs /\ Calm
       \/ Happens("redis")
    /\ at' = [at EXCEPT ![u] = "admitted"]
    /\ UNCHANGED <<batchVars, countVars, status, active, progress, comp>>

(* ... and SetJobCreated makes it active two commands later.               *)
IsPending(u) ==
    /\ u \in Uploads
    /\ Goes(u, "admitted", "pending")
    /\ status' = [status EXCEPT ![u] = "pending"]
    /\ UNCHANGED <<batchVars, countVars, active, progress, comp, happened, faults>>

IsCreated(u) ==
    /\ u \in Uploads
    /\ Goes(u, "pending", "running")
    /\ active' = active \cup {u}
    /\ UNCHANGED <<batchVars, countVars, status, progress, comp, happened, faults>>

---------------------------------------------------------------------------
(* The life of a job that was published.                                   *)

(* Its last step is stored and job_progress published.                     *)
Finishes(j) ==
    /\ Goes(j, "running", "ended")
    /\ progress' = progress \cup {j}
    /\ UNCHANGED <<batchVars, countVars, status, active, comp, happened, faults>>

(* A stage fails: the status is written by its worker.                     *)
Fails(j) ==
    /\ j \in Documents
    /\ Happens("fail")
    /\ Goes(j, "running", "ended")
    /\ status' = [status EXCEPT ![j] = "failed"]
    /\ UNCHANGED <<batchVars, countVars, active, progress, comp>>

(* A stage is run again, and tells of its progress again.                  *)
RunsAgain(j) ==
    /\ j \in Documents /\ at[j] = "ended" /\ j \notin progress
    /\ Happens("again")
    /\ progress' = progress \cup {j}
    /\ UNCHANGED <<batchVars, countVars, at, status, active, comp>>

(* It is taken from active_jobs by the watchdog, when it has ended.        *)
IsRetired(j) ==
    /\ j \in active /\ status[j] \in {"completed", "failed"}
    /\ active' = active \ {j}
    /\ UNCHANGED <<batchVars, countVars, at, status, progress, comp, happened, faults>>

---------------------------------------------------------------------------
(* The completion worker: check_job_completion and finalize_job.           *)

Doing(step) == comp.next = step
Then(step) == comp' = [comp EXCEPT !.next = step]

Receives(j) ==
    /\ Doing("idle") /\ j \in progress
    /\ progress' = progress \ {j}
    /\ comp' = IF status[j] = "completed" THEN Nobody ELSE [job |-> j, next |-> "mark"]
    /\ UNCHANGED <<batchVars, countVars, at, status, active, happened, faults>>

Marks ==
    /\ Doing("mark")
    /\ Then("count")
    /\ status' = [status EXCEPT ![comp.job] = "completed"]
    /\ UNCHANGED <<batchVars, countVars, at, active, progress, happened, faults>>

(* _check_and_notify_batch: INCR, for a job with a batch_id ...            *)
Counts ==
    /\ Doing("count")
    /\ IF comp.job \in linked
       THEN /\ counter' = counter + 1
            /\ counted' = counted \cup {comp.job}
            /\ recounts' = IF comp.job \in counted THEN recounts + 1 ELSE recounts
            /\ Then("check")
       ELSE UNCHANGED <<counter, counted, recounts>> /\ Then("publish")
    /\ UNCHANGED <<batchVars, sent, at, status, active, progress, happened, faults>>

(* Mutant: compared with the jobs there are so far.                        *)
ChecksMembers ==
    /\ Doing("check")
    /\ Then("publish")
    /\ sent' = IF counter >= Cardinality(members) THEN sent + 1 ELSE sent
    /\ UNCHANGED <<batchVars, counter, counted, recounts, at, status, active, progress, happened, faults>>

(* Mutant: more than the total.                                            *)
ChecksBeyond ==
    /\ Doing("check")
    /\ Then("publish")
    /\ sent' = IF counter > total THEN sent + 1 ELSE sent
    /\ UNCHANGED <<batchVars, counter, counted, recounts, at, status, active, progress, happened, faults>>

(* ... and the webhook when all have been counted (_send_batch_webhook).   *)
Checks ==
    /\ Doing("check")
    /\ Then("publish")
    /\ sent' = IF counter >= total THEN sent + 1 ELSE sent
    /\ UNCHANGED <<batchVars, counter, counted, recounts, at, status, active, progress, happened, faults>>

Announces ==
    /\ Doing("publish")
    /\ comp' = Nobody
    /\ UNCHANGED <<batchVars, countVars, at, status, active, progress, happened, faults>>

(* A Redis error anywhere fails the job, counted or not.                   *)
FinalizeFails ==
    /\ comp.next \in {"count", "check", "publish"}
    /\ Happens("finalize")
    /\ comp' = Nobody
    /\ status' = [status EXCEPT ![comp.job] = "failed"]
    /\ UNCHANGED <<batchVars, countVars, at, active, progress>>

(* The worker dies, and the event with it.                                 *)
CompletionDies ==
    /\ comp # Nobody
    /\ Happens("crash")
    /\ comp' = Nobody
    /\ UNCHANGED <<batchVars, countVars, at, status, active, progress>>

CompletionStep == Marks \/ Counts \/ Checks \/ Announces \/ \E j \in Jobs : Receives(j)

---------------------------------------------------------------------------

Next ==
    /\ \/ CreatesBatch \/ RefusesBatch \/ AnswersBatch \/ ClientLeaves
       \/ \E j \in Documents : CreateStep(j) \/ Fails(j) \/ RunsAgain(j)
       \/ \E u \in Uploads : IsAdmitted(u) \/ IsPending(u) \/ IsCreated(u)
       \/ \E j \in Jobs : Finishes(j) \/ IsRetired(j)
       \/ CompletionStep \/ FinalizeFails \/ CompletionDies
    /\ UNCHANGED env

Spec == Init /\ [][Next]_vars

(* A handler that has begun goes on, a job that runs ends, and the         *)
(* completion worker takes what it is told.                                *)
Fairness ==
    /\ WF_vars((CreatesBatch \/ RefusesBatch) /\ UNCHANGED env)
    /\ \A j \in Documents : WF_vars(CreateStep(j) /\ UNCHANGED env)
    /\ \A j \in Documents : WF_vars(Finishes(j) /\ UNCHANGED env)
    /\ WF_vars(CompletionStep /\ UNCHANGED env)

FairSpec == Spec /\ Fairness

TypeOK ==
    /\ env \in Environments
    /\ request \in {"new", "refused", "open", "answered"} /\ gone \in BOOLEAN
    /\ total \in Nat
    /\ members \subseteq Documents /\ linked \subseteq Documents
    /\ counter \in Nat /\ sent \in Nat /\ recounts \in Nat /\ counted \subseteq linked
    /\ at \in [Jobs -> {"new", "admitted", "pending", "created", "linked", "member", "running", "answered", "ended"}]
    /\ status \in [Jobs -> {"none", "pending", "completed", "failed"}]
    /\ active \subseteq Jobs /\ progress \subseteq Jobs
    /\ comp = Nobody \/ comp \in [job : Jobs, next : {"mark", "count", "check", "publish"}]
    /\ happened \subseteq env.may /\ faults \in 0..env.most

---------------------------------------------------------------------------

(* What GET /v1/batches/:id/status answers: of the members there are.      *)
StatusOfBatch ==
    LET completed == {j \in members : status[j] = "completed"}
        failed    == {j \in members : status[j] = "failed"}
    IN  IF completed \cup failed # members THEN "running"
        ELSE IF failed = members THEN "failed"
        ELSE IF failed # {} THEN "partial" ELSE "completed"

(* The counter never runs ahead of the jobs: as long as no job was counted *)
(* again (after a late error of finalize_job), the batch is announced      *)
(* once, when every accepted job was completed, those included that did    *)
(* not exist yet when the first were.                                      *)
AnnouncedAfterAll == sent > 0 /\ recounts = 0 => counted = Accepted /\ sent = 1

(* The counter is that of the jobs, and the total is set when the first of *)
(* them is; between a count and its check nothing was sent ...             *)
CountIsExact ==
    /\ counter = Cardinality(counted) + recounts
    /\ linked \subseteq Accepted
    /\ IF request \in {"open", "answered"}
       THEN total = Cardinality(Accepted)
       ELSE linked = {} /\ \A j \in Documents : at[j] = "new"
    /\ Doing("check") => comp.job \in counted /\ (recounts = 0 => sent = 0)

(* The webhook goes by the counter, the status by the set of members: they *)
(* agree, and "completed" is said of no batch with an accepted job that is *)
(* not - once the request is answered, until when nobody knows its id.     *)
StatusAgrees ==
    (request = "answered" /\ happened = {}) =>
        /\ sent > 0 => StatusOfBatch = "completed"
        /\ StatusOfBatch = "completed" => \A j \in Accepted : status[j] = "completed"

(* A batch none of whose jobs fails is announced - nothing else is: one    *)
(* failed job, one call that failed in between, and nobody is told.        *)
EventuallyAnnounced == <>[](happened = {}) => <>(sent > 0 \/ request = "refused")

(* Admission control counts before it creates: simultaneous requests are   *)
(* all let in, so the limit on uploads holds but for them.                 *)
AdmissionBound ==
    "redis" \notin happened
        => Cardinality(active \cap Uploads) <= MaxConcurrentJobs + Handlers - 1

(* ... and those on their way are within it too.                           *)
AdmittedBound ==
    "redis" \notin happened
        => Cardinality((active \cap Uploads) \cup InFlight) <= MaxConcurrentJobs + Handlers - 1

(* Inductive (see Batches_proofs).                                         *)
IInv == TypeOK /\ CountIsExact /\ AnnouncedAfterAll /\ AdmittedBound
=============================================================================
