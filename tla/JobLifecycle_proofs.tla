------------------------- MODULE JobLifecycle_proofs -------------------------
(***************************************************************************)
(* A job that is completed has every required step, whatever the requests, *)
(* the failures and the numbers of handlers and stages: proofs.            *)
(*                                                                         *)
(* CompletedIsDone alone is not inductive: that Marks writes "completed"   *)
(* rests on what ReadsSteps saw, hence FinalizesDone; that CreateMeta does *)
(* not turn an old finalization into that of a created job rests on there  *)
(* being none, hence Unpublished.                                          *)
(***************************************************************************)
EXTENDS JobLifecycle, SequenceTheorems, TLAPS

(* The initial state is quiet.                                             *)
LEMMA InitIInv == Init => IInv
  BY DEF Init, RecordInit, ApiInit, WorkersInit, CompletionInit,
         IInv, Unpublished, FinalizesDone, CompletedIsDone

(* The orchestrator only creates, and takes away, what is complete.        *)
LEMMA ApiIInv ==
  ASSUME IInv, ApiNext, UNCHANGED <<workerVars, completionVars>>
  PROVE  IInv'
<1> USE DEF IInv, Unpublished, FinalizesDone, CompletedIsDone, recordVars,
            workerVars, entryVars, stageVars, completionVars, Terminal
<1>1. CASE CreatePending
  BY <1>1 DEF CreatePending, SetJobStatus, TrySetStatus
<1>2. CASE CreateMeta
  BY <1>2 DEF CreateMeta
<1>3. CASE PublishJob
  BY <1>3 DEF PublishJob
<1>4. CASE CancelWrites
  BY <1>4 DEF CancelWrites, SetJobStatus, TrySetStatus
<1>5. CASE DeleteWrites
  BY <1>5 DEF DeleteWrites
<1>6. CASE WatchdogReads
  BY <1>6 DEF WatchdogReads
<1>7. CASE WatchdogScans
  BY <1>7 DEF WatchdogScans
<1>8. CASE WatchdogExpires
  BY <1>8 DEF WatchdogExpires, TrySetStatus
<1>9. CASE WatchdogRemoves
  BY <1>9 DEF WatchdogRemoves
<1>10. CASE JobTimeout
  BY <1>10 DEF JobTimeout
<1>11. CASE CancelReads
  BY <1>11 DEF CancelReads
<1>12. CASE DeleteReads
  BY <1>12 DEF DeleteReads
<1>13. CASE CreateFault
  BY <1>13 DEF CreateFault, Fail
<1>14. CASE PublishFault
  BY <1>14 DEF PublishFault, Fail, SetJobStatus, TrySetStatus
<1> QED
  BY <1>1, <1>2, <1>3, <1>4, <1>5, <1>6, <1>7, <1>8, <1>9, <1>10, <1>11, <1>12, <1>13, <1>14
  DEF ApiNext, ApiSteps, WatchdogSteps

(* An entry handler adds steps and never writes "completed".               *)
LEMMA EntryIInv ==
  ASSUME IInv, NEW h \in Handlers, EntryStep(h) \/ EntryFailure(h),
         UNCHANGED <<apiVars, completionVars>>
  PROVE  IInv'
<1> USE DEF IInv, Unpublished, FinalizesDone, CompletedIsDone, recordVars,
            apiVars, completionVars, EntryGoes, EntryEnds
<1>q. Entry \in Required
  BY DEF Required
<1>s. EntryStatus # "completed"
  BY PipelineAssumption DEF EntryStatus
<1>1. CASE EntryTakes(h)
  BY <1>1, <1>q DEF EntryTakes, Take
<1>2. CASE EntryStarts(h)
  BY <1>2, <1>s DEF EntryStarts
<1>3. CASE EntryCancelled(h)
  BY <1>3 DEF EntryCancelled
<1>4. CASE EntryChecks(h)
  BY <1>4 DEF EntryChecks
<1>5. CASE EntryStores(h)
  BY <1>5 DEF EntryStores
<1>6. CASE EntryDispatches(h)
  BY <1>6 DEF EntryDispatches
<1>7. CASE EntryAnnounces(h)
  BY <1>7 DEF EntryAnnounces
<1>8. CASE EntryAcks(h)
  BY <1>8 DEF EntryAcks
<1>9. CASE EntryRefused(h)
  BY <1>9 DEF EntryRefused
<1>10. CASE EntryFails(h)
  BY <1>10 DEF EntryFails, TrySetStatus
<1>11. CASE EntryCrashes(h)
  BY <1>11 DEF EntryCrashes
<1>12. CASE EntryRedelivered(h)
  BY <1>12 DEF EntryRedelivered
<1> QED
  BY <1>1, <1>2, <1>3, <1>4, <1>5, <1>6, <1>7, <1>8, <1>9, <1>10, <1>11, <1>12
  DEF EntryStep, EntryFailure

(* A stage worker adds its step and never writes "completed".              *)
LEMMA StageIInv ==
  ASSUME IInv, NEW q \in Stages, StageStep(q) \/ StageFailure(q),
         UNCHANGED <<apiVars, completionVars>>
  PROVE  IInv'
<1> USE DEF IInv, Unpublished, FinalizesDone, CompletedIsDone, recordVars,
            apiVars, completionVars, StageEnds
<1>q. q \in Required
  BY DEF Required
<1>1. CASE StageTakes(q)
  BY <1>1, <1>q DEF StageTakes, Take
<1>2. CASE StageAborts(q)
  BY <1>2 DEF StageAborts
<1>3. CASE StageStores(q)
  BY <1>3 DEF StageStores
<1>4. CASE StageFindsNothing(q)
  BY <1>4 DEF StageFindsNothing
<1>5. CASE StageAnnounces(q)
  BY <1>5 DEF StageAnnounces
<1>6. CASE StageAcks(q)
  BY <1>6 DEF StageAcks
<1>7. CASE StageRetries(q)
  BY <1>7 DEF StageRetries
<1>8. CASE StageExhausts(q)
  BY <1>8 DEF StageExhausts
<1>9. CASE StageFails(q)
  BY <1>9 DEF StageFails
<1>10. CASE StageCrashes(q)
  BY <1>10 DEF StageCrashes
<1>11. CASE StageLosesConnection(q)
  BY <1>11 DEF StageLosesConnection
<1> QED
  BY <1>1, <1>2, <1>3, <1>4, <1>5, <1>6, <1>7, <1>8, <1>9, <1>10, <1>11
  DEF StageStep, StageFailure

(* The completion worker writes "completed" for what it found complete.    *)
LEMMA CompletionIInv ==
  ASSUME IInv, CompletionNext, UNCHANGED <<apiVars, workerVars>>
  PROVE  IInv'
<1> USE DEF IInv, Unpublished, FinalizesDone, CompletedIsDone, recordVars,
            apiVars, workerVars, entryVars, stageVars, completionVars, Goes
<1>1. CASE Receives
  BY <1>1 DEF Receives
<1>2. CASE ReadsStatus
  BY <1>2 DEF ReadsStatus
<1>3. CASE ReadsSteps
  BY <1>3 DEF ReadsSteps
<1>4. CASE Fetches
  BY <1>4 DEF Fetches
<1>5. CASE Marks
  BY <1>5 DEF Marks, TrySetStatus
<1>6. CASE Saves
  BY <1>6 DEF Saves
<1>7. CASE Notifies
  BY <1>7 DEF Notifies
<1>8. CASE Announces
  BY <1>8 DEF Announces
<1>9. CASE Subscribes
  BY <1>9 DEF Subscribes
<1>10. CASE SaveFault
  BY <1>10 DEF SaveFault
<1>11. CASE FinalizeFails
  BY <1>11 DEF FinalizeFails, TrySetStatus
<1>12. CASE CheckFails
  BY <1>12 DEF CheckFails
<1>13. CASE Unsubscribed
  BY <1>13 DEF Unsubscribed
<1>14. CASE Restarts
  BY <1>14 DEF Restarts
<1> QED
  BY <1>1, <1>2, <1>3, <1>4, <1>5, <1>6, <1>7, <1>8, <1>9, <1>10, <1>11, <1>12, <1>13, <1>14
  DEF CompletionNext, CompletionStep, CompletionFailure

(* IInv is inductive.                                                      *)
THEOREM Inductive == Spec => []IInv
<1>1. IInv /\ [Next]_vars => IInv'
  <2> SUFFICES ASSUME IInv, [Next]_vars PROVE IInv'
    OBVIOUS
  <2>1. CASE ApiNext /\ UNCHANGED <<env, workerVars, completionVars>>
    BY <2>1, ApiIInv
  <2>2. CASE WorkersNext /\ UNCHANGED <<env, apiVars, completionVars>>
    BY <2>2, EntryIInv, StageIInv DEF WorkersNext
  <2>3. CASE CompletionNext /\ UNCHANGED <<env, apiVars, workerVars>>
    BY <2>3, CompletionIInv
  <2>4. CASE UNCHANGED vars
    BY <2>4 DEF vars, recordVars, apiVars, workerVars, entryVars, stageVars, completionVars,
                IInv, Unpublished, FinalizesDone, CompletedIsDone
  <2> QED
    BY <2>1, <2>2, <2>3, <2>4 DEF Next
<1> QED
  BY <1>1, InitIInv, PTL DEF Spec

(* A job whose status is "completed" has every required step, in every     *)
(* pipeline, under every mix of requests and failures                      *)
(* (check_job_completion, finalize_job).                                   *)
THEOREM CompletedJobIsDone == Spec => []CompletedIsDone
<1>1. IInv => CompletedIsDone
  BY DEF IInv
<1> QED
  BY <1>1, Inductive, PTL

---------------------------------------------------------------------------
(* Type correctness.                                                       *)

(* The queues hold retry counts.                                           *)
Queueing == queue \in [Required -> Seq(0..MaxRetries)]

(* Every status the code writes is one.                                    *)
LEMMA StatusValues ==
  /\ \A s \in {"pending", "processing", "absent", "string", "completed", "failed", "cancelled"} : s \in Statuses
  /\ EntryStatus \in Statuses
  BY DEF Statuses, Terminal

(* The failures of a behaviour stay within their bound.                    *)
LEMMA FailType ==
  ASSUME failures \in 0..MaxFailures, NEW kind, Fail(kind)
  PROVE  failures' \in 0..MaxFailures
  BY PipelineAssumption DEF Fail

(* HSET of a status leaves a status, be it on a hash or on a string.       *)
LEMMA StatusType ==
  ASSUME status \in Statuses, NEW s \in Statuses, TrySetStatus(s)
  PROVE  status' \in Statuses
  BY StatusValues DEF TrySetStatus

(* So does SetJobStatus, which also takes the job out of active_jobs.      *)
LEMMA SetStatusType ==
  ASSUME status \in Statuses, active \in BOOLEAN, NEW s \in Statuses, SetJobStatus(s)
  PROVE  status' \in Statuses /\ active' \in BOOLEAN
  BY StatusType DEF SetJobStatus

(* The end of an entry handler leaves the workers well typed.              *)
LEMMA EntryEndsType ==
  ASSUME WorkersTypeOK, NEW h \in Handlers, EntryEnds(h), UNCHANGED stageVars
  PROVE  WorkersTypeOK'
  BY DEF WorkersTypeOK, EntryEnds, stageVars

(* So does the end of a stage worker.                                      *)
LEMMA StageEndsType ==
  ASSUME WorkersTypeOK, NEW q \in Stages, StageEnds(q), UNCHANGED entryVars
  PROVE  WorkersTypeOK'
  BY PipelineAssumption DEF WorkersTypeOK, StageEnds, entryVars

(* A message put into a queue carries its retry count.                     *)
LEMMA PutType ==
  ASSUME Queueing, NEW q \in Required, NEW n \in 0..MaxRetries, Put(q, n)
  PROVE  Queueing'
  BY DEF Queueing, Put

(* A message taken out of a queue carries one.                             *)
LEMMA TakeType ==
  ASSUME Queueing, NEW q \in Required, Take(q)
  PROVE  Queueing' /\ Head(queue[q]) \in 0..MaxRetries
<1>1. queue[q] \in Seq(0..MaxRetries) /\ queue[q] # <<>>
  BY DEF Queueing, Take
<1>2. Tail(queue[q]) \in Seq(0..MaxRetries) /\ Head(queue[q]) \in 0..MaxRetries
  BY <1>1, HeadTailProperties
<1> QED
  BY <1>2 DEF Queueing, Take

(* Before the job is created everything has its type.                      *)
LEMMA InitTypeOK == Init => TypeOK
<1> SUFFICES ASSUME Init PROVE TypeOK
  OBVIOUS
<1>1. RecordTypeOK
  <2>1. chunks \in BOOLEAN /\ created \in BOOLEAN /\ active \in BOOLEAN /\ subscribed \in BOOLEAN
    BY Zenon DEF Init, RecordInit
  <2>2. <<>> \in Seq(0..MaxRetries)
    OBVIOUS
  <2>3. status \in Statuses /\ steps \subseteq Required /\ events \in Nat /\ failures \in 0..MaxFailures
    BY PipelineAssumption, StatusValues DEF Init, RecordInit
  <2> QED
    BY <2>1, <2>2, <2>3 DEF Init, RecordInit, RecordTypeOK
<1>2. ApiTypeOK
  BY DEF Init, ApiInit, ApiTypeOK
<1>3. WorkersTypeOK
  BY PipelineAssumption DEF Init, WorkersInit, WorkersTypeOK
<1>4. CompletionTypeOK
  BY DEF Init, CompletionInit, CompletionTypeOK
<1> QED
  BY <1>1, <1>2, <1>3, <1>4 DEF TypeOK

(* The orchestrator keeps the types.                                       *)
LEMMA ApiTypes ==
  ASSUME TypeOK, ApiNext, UNCHANGED <<workerVars, completionVars>>
  PROVE  TypeOK'
<1> USE DEF TypeOK, RecordTypeOK, ApiTypeOK, WorkersTypeOK, CompletionTypeOK,
            Queueing, recordVars, workerVars, entryVars, stageVars, completionVars
<1>e. Entry \in Required
  BY DEF Required
<1>z. 0 \in 0..MaxRetries
  BY PipelineAssumption
<1>1. CASE CreatePending
  BY <1>1, <1>e, <1>z, SetStatusType, StatusValues DEF CreatePending
<1>2. CASE CreateMeta
  BY <1>2, <1>e, <1>z DEF CreateMeta
<1>3. CASE PublishJob
  BY <1>3, <1>e, <1>z, PutType DEF PublishJob
<1>4. CASE CancelReads
  BY <1>4, <1>e, <1>z DEF CancelReads
<1>5. CASE CancelWrites
  BY <1>5, <1>e, <1>z, SetStatusType, StatusValues DEF CancelWrites
<1>6. CASE DeleteReads
  BY <1>6, <1>e, <1>z DEF DeleteReads
<1>7. CASE DeleteWrites
  <2>1. chunks' \in BOOLEAN /\ created' \in BOOLEAN
    BY <1>7, Zenon DEF DeleteWrites
  <2> QED
    BY <2>1, <1>7, <1>e, <1>z, StatusValues DEF DeleteWrites
<1>8. CASE WatchdogReads
  BY <1>8, <1>e, <1>z DEF WatchdogReads
<1>9. CASE WatchdogScans
  BY <1>9, <1>e, <1>z DEF WatchdogScans
<1>10. CASE WatchdogExpires
  <2>1. active' \in BOOLEAN
    BY <1>10, Zenon DEF WatchdogExpires
  <2> QED
    BY <2>1, <1>10, <1>e, <1>z, StatusType, StatusValues DEF WatchdogExpires
<1>11. CASE WatchdogRemoves
  <2>1. active' \in BOOLEAN
    BY <1>11, Zenon DEF WatchdogRemoves
  <2> QED
    BY <2>1, <1>11, <1>e, <1>z DEF WatchdogRemoves
<1>12. CASE JobTimeout
  BY <1>12, <1>e, <1>z DEF JobTimeout
<1>13. CASE CreateFault
  <2>1. created' \in BOOLEAN
    <3>1. created' = created \/ created' = TRUE
      BY <1>13, Zenon DEF CreateFault
    <3> QED
      BY <3>1, Zenon
  <2>2. api' \in {"new", "pending", "created", "answered"}
    BY <1>13 DEF CreateFault
  <2> QED
    BY <1>13, <2>1, <2>2, FailType DEF CreateFault
<1>14. CASE PublishFault
  BY <1>14, <1>e, <1>z, PutType, FailType, SetStatusType, StatusValues DEF PublishFault
<1> QED
  BY <1>1, <1>2, <1>3, <1>4, <1>5, <1>6, <1>7, <1>8, <1>9, <1>10, <1>11, <1>12, <1>13, <1>14 DEF ApiNext, ApiSteps, WatchdogSteps

(* An entry handler keeps them; it dispatches to stages of the pipeline.   *)
LEMMA EntryTypes ==
  ASSUME TypeOK, NEW h \in Handlers, EntryStep(h) \/ EntryFailure(h),
         UNCHANGED <<apiVars, completionVars>>
  PROVE  TypeOK'
<1>a. ApiTypeOK' /\ CompletionTypeOK'
  BY DEF TypeOK, ApiTypeOK, CompletionTypeOK, apiVars, completionVars
<1> SUFFICES RecordTypeOK' /\ WorkersTypeOK'
  BY <1>a DEF TypeOK
<1>b. RecordTypeOK /\ WorkersTypeOK
  BY DEF TypeOK
<1>e. Entry \in Required
  BY DEF Required
<1>z. 0 \in 0..MaxRetries
  BY PipelineAssumption
<1>d. sent[h] < Len(Queues) => Queues[sent[h] + 1] \in Required
  <2>1. ASSUME sent[h] < Len(Queues) PROVE sent[h] + 1 \in DOMAIN Queues
    BY <1>b, <2>1, PipelineAssumption DEF WorkersTypeOK
  <2> QED
    BY <2>1 DEF Required, Stages
<1> USE <1>b
<1>1. CASE EntryTakes(h)
  <2>1. RecordTypeOK'
    BY <1>1, TakeType, <1>e DEF EntryTakes, RecordTypeOK, recordVars, Queueing
  <2>2. WorkersTypeOK'
    BY <1>1 DEF EntryTakes, WorkersTypeOK, stageVars, entryVars, EntryGoes
  <2> QED
    BY <2>1, <2>2
<1>2. CASE EntryStarts(h)
  <2>1. RecordTypeOK'
    BY <1>2, StatusValues DEF EntryStarts, RecordTypeOK, recordVars
  <2>2. WorkersTypeOK'
    BY <1>2 DEF EntryStarts, WorkersTypeOK, stageVars, entryVars, EntryGoes
  <2> QED
    BY <2>1, <2>2
<1>3. CASE EntryCancelled(h)
  <2>1. RecordTypeOK'
    BY <1>3, StatusValues DEF EntryCancelled, RecordTypeOK, recordVars
  <2>2. WorkersTypeOK'
    BY <1>3, EntryEndsType DEF EntryCancelled
  <2> QED
    BY <2>1, <2>2
<1>4. CASE EntryChecks(h)
  <2>1. RecordTypeOK'
    BY <1>4 DEF EntryChecks, RecordTypeOK, recordVars
  <2>2. WorkersTypeOK'
    BY <1>4 DEF EntryChecks, WorkersTypeOK, stageVars, entryVars, EntryGoes
  <2> QED
    BY <2>1, <2>2
<1>5. CASE EntryStores(h)
  <2>1. RecordTypeOK'
    BY <1>5, StatusValues, <1>e DEF EntryStores, RecordTypeOK, recordVars
  <2>2. WorkersTypeOK'
    BY <1>5 DEF EntryStores, WorkersTypeOK, stageVars, entryVars, EntryGoes
  <2> QED
    BY <2>1, <2>2
<1>6. CASE EntryDispatches(h)
  <2>1. RecordTypeOK'
    BY <1>6, PutType, <1>d, <1>z DEF EntryDispatches, RecordTypeOK, recordVars, Queueing
  <2>2. WorkersTypeOK'
    BY <1>6 DEF EntryDispatches, WorkersTypeOK, stageVars, entryVars
  <2> QED
    BY <2>1, <2>2
<1>7. CASE EntryAnnounces(h)
  <2>1. RecordTypeOK'
    BY <1>7 DEF EntryAnnounces, RecordTypeOK, recordVars, Publish
  <2>2. WorkersTypeOK'
    BY <1>7 DEF EntryAnnounces, WorkersTypeOK, stageVars, entryVars, EntryGoes
  <2> QED
    BY <2>1, <2>2
<1>8. CASE EntryAcks(h)
  <2>1. RecordTypeOK'
    BY <1>8 DEF EntryAcks, RecordTypeOK, recordVars
  <2>2. WorkersTypeOK'
    BY <1>8, EntryEndsType DEF EntryAcks
  <2> QED
    BY <2>1, <2>2
<1>9. CASE EntryRefused(h)
  <2>1. RecordTypeOK'
    BY <1>9 DEF EntryRefused, RecordTypeOK, recordVars
  <2>2. WorkersTypeOK'
    BY <1>9, EntryEndsType DEF EntryRefused
  <2> QED
    BY <2>1, <2>2
<1>10. CASE EntryFails(h)
  <2>1. RecordTypeOK'
    BY <1>10, FailType, StatusType, StatusValues DEF EntryFails, RecordTypeOK, recordVars
  <2>2. WorkersTypeOK'
    BY <1>10, EntryEndsType DEF EntryFails
  <2> QED
    BY <2>1, <2>2
<1>11. CASE EntryCrashes(h)
  <2>1. RecordTypeOK'
    BY <1>11, FailType, PutType, <1>e, <1>z DEF EntryCrashes, RecordTypeOK, recordVars, Queueing
  <2>2. WorkersTypeOK'
    BY <1>11, EntryEndsType DEF EntryCrashes
  <2> QED
    BY <2>1, <2>2
<1>12. CASE EntryRedelivered(h)
  <2>1. RecordTypeOK'
    BY <1>12, FailType, PutType, <1>e, <1>z DEF EntryRedelivered, RecordTypeOK, recordVars, Queueing
  <2>2. WorkersTypeOK'
    BY <1>12 DEF EntryRedelivered, WorkersTypeOK, stageVars, entryVars
  <2> QED
    BY <2>1, <2>2
<1> QED
  BY <1>1, <1>2, <1>3, <1>4, <1>5, <1>6, <1>7, <1>8, <1>9, <1>10, <1>11, <1>12 DEF EntryStep, EntryFailure

(* A stage worker keeps them; it retries below max_retries only.           *)
LEMMA StageTypes ==
  ASSUME TypeOK, NEW q \in Stages, StageStep(q) \/ StageFailure(q),
         UNCHANGED <<apiVars, completionVars>>
  PROVE  TypeOK'
<1>a. ApiTypeOK' /\ CompletionTypeOK'
  BY DEF TypeOK, ApiTypeOK, CompletionTypeOK, apiVars, completionVars
<1> SUFFICES RecordTypeOK' /\ WorkersTypeOK'
  BY <1>a DEF TypeOK
<1>b. RecordTypeOK /\ WorkersTypeOK
  BY DEF TypeOK
<1>q. q \in Required
  BY DEF Required
<1>t. Queueing
  BY <1>b DEF RecordTypeOK, Queueing
<1>n. /\ attempt[q] \in 0..MaxRetries
      /\ attempt[q] < MaxRetries => attempt[q] + 1 \in 0..MaxRetries
  BY <1>b, PipelineAssumption DEF WorkersTypeOK
<1> USE <1>b
<1>1. CASE StageTakes(q)
  <2>1. RecordTypeOK'
    BY <1>1, TakeType, <1>q DEF StageTakes, RecordTypeOK, recordVars, Queueing
  <2>2. WorkersTypeOK'
    BY <1>1, TakeType, <1>q, <1>t DEF StageTakes, WorkersTypeOK, entryVars
  <2> QED
    BY <2>1, <2>2
<1>2. CASE StageAborts(q)
  <2>1. RecordTypeOK'
    BY <1>2 DEF StageAborts, RecordTypeOK, recordVars
  <2>2. WorkersTypeOK'
    BY <1>2, StageEndsType DEF StageAborts
  <2> QED
    BY <2>1, <2>2
<1>3. CASE StageStores(q)
  <2>1. RecordTypeOK'
    BY <1>3, <1>q DEF StageStores, RecordTypeOK, recordVars
  <2>2. WorkersTypeOK'
    BY <1>3 DEF StageStores, WorkersTypeOK, stageVars, entryVars
  <2> QED
    BY <2>1, <2>2
<1>4. CASE StageFindsNothing(q)
  <2>1. RecordTypeOK'
    BY <1>4, StatusValues DEF StageFindsNothing, RecordTypeOK, recordVars
  <2>2. WorkersTypeOK'
    BY <1>4, StageEndsType DEF StageFindsNothing
  <2> QED
    BY <2>1, <2>2
<1>5. CASE StageAnnounces(q)
  <2>1. RecordTypeOK'
    BY <1>5 DEF StageAnnounces, RecordTypeOK, recordVars, Publish
  <2>2. WorkersTypeOK'
    BY <1>5 DEF StageAnnounces, WorkersTypeOK, stageVars, entryVars
  <2> QED
    BY <2>1, <2>2
<1>6. CASE StageAcks(q)
  <2>1. RecordTypeOK'
    BY <1>6, StatusValues DEF StageAcks, RecordTypeOK, recordVars
  <2>2. WorkersTypeOK'
    BY <1>6, StageEndsType DEF StageAcks
  <2> QED
    BY <2>1, <2>2
<1>7. CASE StageRetries(q)
  <2>1. RecordTypeOK'
    BY <1>7, FailType, PutType, <1>q, <1>n DEF StageRetries, RecordTypeOK, recordVars, Queueing
  <2>2. WorkersTypeOK'
    BY <1>7, StageEndsType DEF StageRetries
  <2> QED
    BY <2>1, <2>2
<1>8. CASE StageExhausts(q)
  <2>1. RecordTypeOK'
    BY <1>8, FailType, StatusValues DEF StageExhausts, RecordTypeOK, recordVars
  <2>2. WorkersTypeOK'
    BY <1>8, StageEndsType DEF StageExhausts
  <2> QED
    BY <2>1, <2>2
<1>9. CASE StageFails(q)
  <2>1. RecordTypeOK'
    BY <1>9, FailType, StatusValues DEF StageFails, RecordTypeOK, recordVars
  <2>2. WorkersTypeOK'
    BY <1>9, StageEndsType DEF StageFails
  <2> QED
    BY <2>1, <2>2
<1>10. CASE StageCrashes(q)
  <2>1. RecordTypeOK'
    BY <1>10, FailType, PutType, <1>q, <1>n DEF StageCrashes, RecordTypeOK, recordVars, Queueing
  <2>2. WorkersTypeOK'
    BY <1>10, StageEndsType DEF StageCrashes
  <2> QED
    BY <2>1, <2>2
<1>11. CASE StageLosesConnection(q)
  <2>1. RecordTypeOK'
    BY <1>11, FailType, PutType, <1>q, <1>n DEF StageLosesConnection, RecordTypeOK, recordVars, Queueing
  <2>2. WorkersTypeOK'
    BY <1>11 DEF StageLosesConnection, WorkersTypeOK, stageVars, entryVars
  <2> QED
    BY <2>1, <2>2
<1> QED
  BY <1>1, <1>2, <1>3, <1>4, <1>5, <1>6, <1>7, <1>8, <1>9, <1>10, <1>11 DEF StageStep, StageFailure

(* The completion worker keeps them.                                       *)
LEMMA CompletionTypes ==
  ASSUME TypeOK, CompletionNext, UNCHANGED <<apiVars, workerVars>>
  PROVE  TypeOK'
<1> USE DEF TypeOK, RecordTypeOK, ApiTypeOK, WorkersTypeOK, CompletionTypeOK,
            recordVars, apiVars, workerVars, entryVars, stageVars, completionVars, Goes
<1>1. CASE Receives
  BY <1>1 DEF Receives
<1>2. CASE ReadsStatus
  BY <1>2 DEF ReadsStatus
<1>3. CASE ReadsSteps
  BY <1>3 DEF ReadsSteps
<1>4. CASE Fetches
  BY <1>4 DEF Fetches
<1>5. CASE Marks
  BY <1>5, StatusType, StatusValues DEF Marks
<1>6. CASE Saves
  BY <1>6 DEF Saves
<1>7. CASE Notifies
  BY <1>7 DEF Notifies
<1>8. CASE Announces
  BY <1>8 DEF Announces
<1>9. CASE Subscribes
  BY <1>9 DEF Subscribes
<1>10. CASE SaveFault
  BY <1>10, FailType DEF SaveFault
<1>11. CASE FinalizeFails
  BY <1>11, FailType, StatusType, StatusValues DEF FinalizeFails
<1>12. CASE CheckFails
  BY <1>12, FailType DEF CheckFails
<1>13. CASE Unsubscribed
  <2>1. subscribed' \in BOOLEAN
    BY <1>13, Zenon DEF Unsubscribed
  <2> QED
    BY <2>1, <1>13, FailType DEF Unsubscribed
<1>14. CASE Restarts
  <2>1. subscribed' \in BOOLEAN
    BY <1>14, Zenon DEF Restarts
  <2> QED
    BY <2>1, <1>14, FailType DEF Restarts
<1> QED
  BY <1>1, <1>2, <1>3, <1>4, <1>5, <1>6, <1>7, <1>8, <1>9, <1>10, <1>11, <1>12, <1>13, <1>14 DEF CompletionNext, CompletionStep, CompletionFailure

(* Every variable has its type; the retry counts keep to MaxRetries.       *)
THEOREM TypeCorrect == Spec => []TypeOK
<1>1. TypeOK /\ [Next]_vars => TypeOK'
  <2> SUFFICES ASSUME TypeOK, [Next]_vars PROVE TypeOK'
    OBVIOUS
  <2>1. CASE ApiNext /\ UNCHANGED <<env, workerVars, completionVars>>
    BY <2>1, ApiTypes
  <2>2. CASE WorkersNext /\ UNCHANGED <<env, apiVars, completionVars>>
    BY <2>2, EntryTypes, StageTypes DEF WorkersNext
  <2>3. CASE CompletionNext /\ UNCHANGED <<env, apiVars, workerVars>>
    BY <2>3, CompletionTypes
  <2>4. CASE UNCHANGED vars
    BY <2>4 DEF vars, recordVars, apiVars, workerVars, entryVars, stageVars, completionVars,
                TypeOK, RecordTypeOK, ApiTypeOK, WorkersTypeOK, CompletionTypeOK
  <2> QED
    BY <2>1, <2>2, <2>3, <2>4 DEF Next
<1> QED
  BY <1>1, InitTypeOK, PTL DEF Spec

---------------------------------------------------------------------------
(* Benign surroundings.  Nobody but the workers acts on the job, so there  *)
(* is one message for the entry stage and one handler of it at a time.     *)
Quiet ==
    /\ cancel = "none" /\ delete = "none"
    /\ ~old /\ watchdog = "idle" /\ subscribed
    /\ status \notin {"failed", "cancelled"}
    /\ \A x \in Handlers \cup Stages : ~lost[x]

OneEntry ==
    /\ api # "answered" => steps = {} /\ queue[Entry] = <<>> /\ \A h \in Handlers : entry[h] = "idle"
    /\ queue[Entry] # <<>> => Tail(queue[Entry]) = <<>> /\ \A h \in Handlers : entry[h] = "idle"
    /\ \A g, h \in Handlers : entry[g] # "idle" /\ entry[h] # "idle" => g = h
    /\ \A h \in Handlers : entry[h] \in {"stored", "dispatch", "announced"} => chunks

(* The entry stage has written what it writes to the record of the job ... *)
EntryPast ==
    /\ api = "answered" /\ queue[Entry] = <<>> /\ chunks
    /\ \A h \in Handlers : entry[h] \in {"idle", "dispatch", "announced"}

(* ... before anything happens downstream of it.                           *)
EntryFirst ==
    \/ EntryPast
    \/ /\ events = 0 /\ comp = "idle" /\ notices = 0
       /\ status \notin {"completed", "string"}
       /\ \A q \in Stages : queue[q] = <<>> /\ worker[q] = "idle"

(* The webhook is sent between Marks and the status nobody overwrites.     *)
Notices ==
    /\ notices <= 1
    /\ notices = 1 => comp \notin {"mark", "save", "notify"}
    /\ notices = 1 \/ comp \in {"save", "notify"} => status \in {"completed", "string"}

QuietParts == Quiet /\ OneEntry /\ EntryFirst /\ Notices
QuietInv == Benign => QuietParts

(* No message has been retried more often than something failed.           *)
Retried ==
    /\ \A q \in Stages : attempt[q] <= failures
    /\ \A q \in Stages : \A i \in DOMAIN queue[q] : queue[q][i] <= failures

Delivered(q) == q \in steps \/ queue[q] # <<>> \/ worker[q] # "idle"

(* The fan-out reaches every stage, and a worker stores before it leaves.  *)
FannedOut ==
    /\ \A h \in Handlers : \A i \in 1..sent[h] : Delivered(Queues[i])
    /\ \A h \in Handlers : entry[h] = "announced" => sent[h] = Len(Queues)
    /\ api = "answered" /\ ~EntryOpen => \A q \in Stages : Delivered(q)
    /\ \A q \in Stages : worker[q] \in {"stored", "announced"} => q \in steps

(* Who has yet to announce, or to look, once the last step is stored.      *)
Awake ==
    \/ events > 0 \/ comp \in {"status", "steps", "fetch", "mark"}
    \/ queue[Entry] # <<>>
    \/ \E h \in Handlers : entry[h] \notin {"idle", "announced"}
    \/ \E q \in Stages : queue[q] # <<>> \/ worker[q] \in {"working", "stored"}

FewParts ==
    /\ status # "string"
    /\ Retried
    /\ FannedOut
    /\ Required \subseteq steps /\ status # "completed" => Awake
FewInv == Benign => FewParts

(* Nobody runs out of retries.                                             *)
FewFailures == MaxFailures <= MaxRetries

(* A message put into one queue takes none from another.                   *)
LEMMA PutOthers ==
  ASSUME Queueing, NEW q \in Required, NEW n \in 0..MaxRetries, Put(q, n)
  PROVE  queue'[q] # <<>> /\ \A r \in Required : queue[r] # <<>> => queue'[r] # <<>>
<1>1. /\ queue'[q] = Append(queue[q], n)
      /\ \A r \in Required : r # q => queue'[r] = queue[r]
  BY DEF Queueing, Put
<1>2. Append(queue[q], n) # <<>>
  BY DEF Queueing
<1> QED
  BY <1>1, <1>2

(* The retry counts of the queues stay within what bounded them ...        *)
LEMMA PutWithin ==
  ASSUME Queueing, NEW f, NEW q \in Stages, NEW n \in 0..MaxRetries, Put(q, n), n <= f,
         \A r \in Stages : \A i \in DOMAIN queue[r] : queue[r][i] <= f
  PROVE  \A r \in Stages : \A i \in DOMAIN queue'[r] : queue'[r][i] <= f
<1>q. Stages \subseteq Required
  BY DEF Required
<1>1. /\ queue'[q] = Append(queue[q], n)
      /\ \A r \in Stages : r # q => queue'[r] = queue[r]
  BY <1>q DEF Queueing, Put
<1>2. queue[q] \in Seq(0..MaxRetries)
  BY <1>q DEF Queueing
<1>3. \A i \in DOMAIN Append(queue[q], n) : Append(queue[q], n)[i] = n \/ (i \in DOMAIN queue[q] /\ Append(queue[q], n)[i] = queue[q][i])
  BY <1>2
<1> QED
  BY <1>1, <1>3

(* ... and so does the one that is taken.                                  *)
LEMMA TakeWithin ==
  ASSUME Queueing, NEW f, NEW q \in Stages, Take(q),
         \A r \in Stages : \A i \in DOMAIN queue[r] : queue[r][i] <= f
  PROVE  /\ Head(queue[q]) <= f
         /\ \A r \in Stages : \A i \in DOMAIN queue'[r] : queue'[r][i] <= f
<1>q. Stages \subseteq Required
  BY DEF Required
<1>1. /\ queue[q] # <<>> /\ queue'[q] = Tail(queue[q])
      /\ \A r \in Stages : r # q => queue'[r] = queue[r]
  BY <1>q DEF Queueing, Take
<1>2. queue[q] \in Seq(0..MaxRetries)
  BY <1>q DEF Queueing
<1>3. Head(queue[q]) = queue[q][1] /\ 1 \in DOMAIN queue[q]
  BY <1>1, <1>2
<1>4. \A i \in DOMAIN Tail(queue[q]) : i + 1 \in DOMAIN queue[q] /\ Tail(queue[q])[i] = queue[q][i + 1]
  BY <1>1, <1>2
<1>5. \A i \in DOMAIN queue[q] : queue[q][i] <= f
  OBVIOUS
<1>6. Head(queue[q]) <= f
  BY <1>3, <1>5
<1>7. \A i \in DOMAIN queue'[q] : queue'[q][i] <= f
  BY <1>1, <1>4, <1>5
<1> QED
  BY <1>1, <1>6, <1>7

(* What can fail in benign surroundings.                                   *)
LEMMA BenignFailures ==
  ASSUME Benign, NEW kind, Fail(kind)
  PROVE  kind \in {"transient", "crash"}
  BY DEF Benign, Fail

(* Neither queue nor handlers: the job does not exist yet.                 *)
LEMMA InitQuiet == Init => QuietInv
<1> SUFFICES ASSUME Init PROVE QuietParts
  BY DEF QuietInv
<1>1. Quiet
  BY DEF Init, RecordInit, ApiInit, WorkersInit, Quiet
<1>2. OneEntry
  BY DEF Init, RecordInit, ApiInit, WorkersInit, OneEntry, Required
<1>3. EntryFirst
  BY DEF Init, RecordInit, WorkersInit, CompletionInit, EntryFirst, Required
<1>4. Notices
  BY DEF Init, RecordInit, CompletionInit, Notices
<1> QED
  BY <1>1, <1>2, <1>3, <1>4 DEF QuietParts

(* The orchestrator publishes the one message, once.                       *)
LEMMA ApiQuiet ==
  ASSUME TypeOK, Benign, QuietParts, ApiNext, UNCHANGED <<env, workerVars, completionVars>>
  PROVE  QuietParts'
<1> USE DEF QuietParts, Quiet, OneEntry, EntryFirst, EntryPast, Notices, recordVars,
            workerVars, entryVars, stageVars, completionVars
<1>t. queue \in [Required -> Seq(0..MaxRetries)] /\ Entry \in Required
  BY DEF TypeOK, RecordTypeOK, Required
<1>s. \A q \in Stages : q # Entry
  BY PipelineAssumption DEF Stages
<1>1. CASE CreatePending
  BY <1>1 DEF CreatePending, SetJobStatus, TrySetStatus
<1>2. CASE CreateMeta
  BY <1>2 DEF CreateMeta
<1>3. CASE PublishJob
  BY <1>3, <1>t, <1>s DEF PublishJob, Put
<1>4. CASE CancelWrites
  BY <1>4 DEF CancelWrites
<1>5. CASE DeleteWrites
  BY <1>5 DEF DeleteWrites
<1>6. CASE WatchdogReads
  BY <1>6 DEF WatchdogReads
<1>7. CASE WatchdogScans
  BY <1>7 DEF WatchdogScans
<1>8. CASE WatchdogExpires
  BY <1>8 DEF WatchdogExpires
<1>9. CASE WatchdogRemoves
  BY <1>9 DEF WatchdogRemoves
<1>10. CASE JobTimeout
  BY <1>10 DEF JobTimeout, Benign
<1>11. CASE CancelReads
  BY <1>11 DEF CancelReads, Benign
<1>12. CASE DeleteReads
  BY <1>12 DEF DeleteReads, Benign
<1>13. CASE CreateFault
  BY <1>13, BenignFailures DEF CreateFault
<1>14. CASE PublishFault
  BY <1>14, BenignFailures DEF PublishFault
<1> QED
  BY <1>1, <1>2, <1>3, <1>4, <1>5, <1>6, <1>7, <1>8, <1>9, <1>10, <1>11, <1>12, <1>13, <1>14
  DEF ApiNext, ApiSteps, WatchdogSteps

(* The one entry handler comes first.                                      *)
LEMMA EntryQuiet ==
  ASSUME TypeOK, Benign, QuietParts, NEW h \in Handlers, EntryStep(h) \/ EntryFailure(h),
         UNCHANGED <<env, apiVars, completionVars>>
  PROVE  QuietParts'
<1> USE DEF QuietParts, Quiet, OneEntry, EntryFirst, EntryPast, Notices, recordVars,
            apiVars, stageVars, completionVars, EntryGoes, EntryEnds
<1>t. queue \in [Required -> Seq(0..MaxRetries)] /\ Entry \in Required
  BY DEF TypeOK, RecordTypeOK, Required
<1>w. /\ entry \in [Handlers -> {"idle", "taken", "working", "checked", "stored", "dispatch", "announced"}]
      /\ lost \in [Handlers \cup Stages -> BOOLEAN] /\ events \in Nat
  BY DEF TypeOK, WorkersTypeOK, RecordTypeOK
<1>s. \A q \in Stages : q # Entry
  BY PipelineAssumption DEF Stages
<1>e. EntryStatus \notin {"completed", "string", "failed", "cancelled"}
  BY PipelineAssumption DEF EntryStatus
<1>d. sent[h] < Len(Queues) => Queues[sent[h] + 1] \in Stages
  <2>1. ASSUME sent[h] < Len(Queues) PROVE sent[h] + 1 \in DOMAIN Queues
    BY <2>1, PipelineAssumption DEF TypeOK, WorkersTypeOK
  <2> QED
    BY <2>1 DEF Stages
<1>1. CASE EntryTakes(h)
  BY <1>1, <1>t, <1>w, <1>s DEF EntryTakes, Take
<1>2. CASE EntryStarts(h)
  BY <1>2, <1>t, <1>w, <1>s, <1>e DEF EntryStarts
<1>3. CASE EntryCancelled(h)
  BY <1>3 DEF EntryCancelled
<1>4. CASE EntryChecks(h)
  <2>1. /\ UNCHANGED <<recordVars, sent, stageVars, lost>>
        /\ \/ EntryGoes(h, "working", "checked")
           \/ EntryGoes(h, "stored", "dispatch")
    BY <1>4 DEF EntryChecks
  <2>2. CASE EntryGoes(h, "working", "checked")
    BY <2>1, <2>2, <1>t, <1>w, <1>s DEF EntryGoes
  <2>3. CASE EntryGoes(h, "stored", "dispatch")
    BY <2>1, <2>3, <1>t, <1>w, <1>s DEF EntryGoes
  <2> QED
    BY <2>1, <2>2, <2>3
<1>5. CASE EntryStores(h)
  BY <1>5, <1>t, <1>w, <1>s DEF EntryStores
<1>6. CASE EntryDispatches(h)
  BY <1>6, <1>t, <1>w, <1>s, <1>d DEF EntryDispatches, Put
<1>7. CASE EntryAnnounces(h)
  BY <1>7, <1>t, <1>w, <1>s DEF EntryAnnounces, Publish
<1>8. CASE EntryAcks(h)
  BY <1>8, <1>t, <1>w, <1>s DEF EntryAcks
<1>9. CASE EntryRefused(h)
  BY <1>9 DEF EntryRefused
<1>10. CASE EntryFails(h)
  BY <1>10, BenignFailures DEF EntryFails
<1>11. CASE EntryCrashes(h)
  BY <1>11, BenignFailures DEF EntryCrashes
<1>12. CASE EntryRedelivered(h)
  BY <1>12, BenignFailures DEF EntryRedelivered
<1> QED
  BY <1>1, <1>2, <1>3, <1>4, <1>5, <1>6, <1>7, <1>8, <1>9, <1>10, <1>11, <1>12
  DEF EntryStep, EntryFailure

(* A stage has a message only when the entry stage is past.                *)
LEMMA StageQuiet ==
  ASSUME TypeOK, Benign, QuietParts, NEW q \in Stages, StageStep(q) \/ StageFailure(q),
         UNCHANGED <<env, apiVars, completionVars>>
  PROVE  QuietParts'
<1> USE DEF QuietParts, Quiet, OneEntry, EntryFirst, EntryPast, Notices, recordVars,
            apiVars, entryVars, completionVars, StageEnds
<1>t. queue \in [Required -> Seq(0..MaxRetries)] /\ Entry \in Required
  BY DEF TypeOK, RecordTypeOK, Required
<1>w. /\ entry \in [Handlers -> {"idle", "taken", "working", "checked", "stored", "dispatch", "announced"}]
      /\ lost \in [Handlers \cup Stages -> BOOLEAN] /\ events \in Nat
  BY DEF TypeOK, WorkersTypeOK, RecordTypeOK
<1>s. \A r \in Stages : r # Entry
  BY PipelineAssumption DEF Stages
<1>1. CASE StageTakes(q)
  BY <1>1, <1>t, <1>w, <1>s DEF StageTakes, Take
<1>2. CASE StageAborts(q)
  BY <1>2 DEF StageAborts
<1>3. CASE StageStores(q)
  BY <1>3, <1>t, <1>w, <1>s DEF StageStores
<1>4. CASE StageFindsNothing(q)
  BY <1>4 DEF StageFindsNothing
<1>5. CASE StageAnnounces(q)
  BY <1>5, <1>t, <1>w, <1>s DEF StageAnnounces, Publish
<1>6. CASE StageAcks(q)
  BY <1>6, <1>t, <1>w, <1>s DEF StageAcks
<1>7. CASE StageRetries(q)
  BY <1>7, <1>t, <1>w, <1>s DEF StageRetries, Put
<1>8. CASE StageExhausts(q)
  BY <1>8, <1>t, <1>w, <1>s DEF StageExhausts
<1>9. CASE StageFails(q)
  BY <1>9, BenignFailures DEF StageFails
<1>10. CASE StageCrashes(q)
  BY <1>10, <1>t, <1>w, <1>s DEF StageCrashes, Put
<1>11. CASE StageLosesConnection(q)
  BY <1>11, BenignFailures DEF StageLosesConnection
<1> QED
  BY <1>1, <1>2, <1>3, <1>4, <1>5, <1>6, <1>7, <1>8, <1>9, <1>10, <1>11
  DEF StageStep, StageFailure

(* The completion worker marks before it notifies.                         *)
LEMMA CompletionQuiet ==
  ASSUME TypeOK, Benign, QuietParts, CompletionNext, UNCHANGED <<env, apiVars, workerVars>>
  PROVE  QuietParts'
<1> USE DEF QuietParts, Quiet, OneEntry, EntryFirst, EntryPast, Notices, recordVars,
            apiVars, workerVars, entryVars, stageVars, completionVars, Goes
<1>t. events \in Nat /\ notices \in Nat
  BY DEF TypeOK, RecordTypeOK, CompletionTypeOK
<1>1. CASE Receives
  BY <1>1, <1>t DEF Receives
<1>2. CASE ReadsStatus
  BY <1>2, <1>t DEF ReadsStatus
<1>3. CASE ReadsSteps
  BY <1>3, <1>t DEF ReadsSteps
<1>4. CASE Fetches
  BY <1>4, <1>t DEF Fetches
<1>5. CASE Marks
  BY <1>5, <1>t DEF Marks, TrySetStatus
<1>6. CASE Saves
  BY <1>6 DEF Saves
<1>7. CASE Notifies
  BY <1>7, <1>t DEF Notifies
<1>8. CASE Announces
  BY <1>8 DEF Announces
<1>9. CASE Subscribes
  BY <1>9 DEF Subscribes
<1>10. CASE SaveFault
  BY <1>10, BenignFailures DEF SaveFault
<1>11. CASE FinalizeFails
  BY <1>11, BenignFailures DEF FinalizeFails
<1>12. CASE CheckFails
  BY <1>12, BenignFailures DEF CheckFails
<1>13. CASE Unsubscribed
  BY <1>13, BenignFailures DEF Unsubscribed
<1>14. CASE Restarts
  BY <1>14, BenignFailures DEF Restarts
<1> QED
  BY <1>1, <1>2, <1>3, <1>4, <1>5, <1>6, <1>7, <1>8, <1>9, <1>10, <1>11, <1>12, <1>13, <1>14
  DEF CompletionNext, CompletionStep, CompletionFailure

(* QuietInv is inductive, given the types.                                 *)
THEOREM QuietInductive == Spec => []QuietInv
<1>1. TypeOK /\ QuietInv /\ [Next]_vars => QuietInv'
  <2> SUFFICES ASSUME TypeOK, QuietInv, [Next]_vars, Benign' PROVE QuietParts'
    BY DEF QuietInv
  <2>e. env' = env
    BY DEF Next, vars
  <2>b. Benign
    BY <2>e DEF Benign
  <2>q. QuietParts
    BY <2>b DEF QuietInv
  <2>1. CASE ApiNext /\ UNCHANGED <<env, workerVars, completionVars>>
    BY <2>1, <2>b, <2>q, ApiQuiet
  <2>2. CASE WorkersNext /\ UNCHANGED <<env, apiVars, completionVars>>
    BY <2>2, <2>b, <2>q, EntryQuiet, StageQuiet DEF WorkersNext
  <2>3. CASE CompletionNext /\ UNCHANGED <<env, apiVars, workerVars>>
    BY <2>3, <2>b, <2>q, CompletionQuiet
  <2>4. CASE UNCHANGED vars
    BY <2>4, <2>q DEF vars, recordVars, apiVars, workerVars, entryVars, stageVars, completionVars,
                QuietParts, Quiet, OneEntry, EntryFirst, EntryPast, Notices
  <2> QED
    BY <2>1, <2>2, <2>3, <2>4 DEF Next
<1> QED
  BY <1>1, InitQuiet, TypeCorrect, PTL DEF Spec

(* One webhook, whatever number of events, retries, handlers and stages    *)
(* (finalize_job).                                                         *)
THEOREM JobNotifiedOnce == Spec => []NotifiedOnce
<1>1. QuietInv => NotifiedOnce
  BY DEF QuietInv, QuietParts, Notices, NotifiedOnce
<1> QED
  BY <1>1, QuietInductive, PTL


(* The orchestrator leaves the work to the others.                         *)
LEMMA ApiFew ==
  ASSUME TypeOK, FewFailures, Benign, QuietParts, FewParts, ApiNext, UNCHANGED <<env, workerVars, completionVars>>
  PROVE  FewParts'
<1> USE DEF FewParts, Retried, FannedOut, Delivered, Awake, EntryOpen, QuietParts, Quiet, OneEntry,
            EntryFirst, EntryPast, Notices, recordVars,
            workerVars, entryVars, stageVars, completionVars
<1>t. /\ queue \in [Required -> Seq(0..MaxRetries)] /\ Entry \in Required
      /\ failures \in Nat /\ MaxRetries \in Nat /\ MaxFailures \in Nat /\ events \in Nat
      /\ Stages \subseteq Required /\ \A q \in Stages : q # Entry
  BY PipelineAssumption DEF TypeOK, RecordTypeOK, Required, Stages
<1>w. /\ entry \in [Handlers -> {"idle", "taken", "working", "checked", "stored", "dispatch", "announced"}]
      /\ worker \in [Stages -> {"idle", "working", "stored", "announced"}]
      /\ sent \in [Handlers -> 0..Len(Queues)] /\ attempt \in [Stages -> 0..MaxRetries]
      /\ Len(Queues) \in Nat /\ Stages = {Queues[i] : i \in 1..Len(Queues)}
      /\ lost \in [Handlers \cup Stages -> BOOLEAN]
  BY PipelineAssumption DEF TypeOK, WorkersTypeOK, Stages
<1>1. CASE CreatePending
  BY <1>1, <1>t, <1>w DEF CreatePending, SetJobStatus, TrySetStatus
<1>2. CASE CreateMeta
  BY <1>2 DEF CreateMeta
<1>3. CASE PublishJob
  <2>1. status' # "string"
    BY <1>3, <1>t, <1>w DEF PublishJob, Put
  <2>2. Retried'
    BY <1>3, <1>t, <1>w DEF PublishJob, Put
  <2>3. (\A h_ \in Handlers : \A i \in 1..sent[h_] : Delivered(Queues[i]))'
    BY <1>3, <1>t, <1>w DEF PublishJob, Put
  <2>4. (\A h_ \in Handlers : entry[h_] = "announced" => sent[h_] = Len(Queues))'
    BY <1>3, <1>t, <1>w DEF PublishJob, Put
  <2>5. (api = "answered" /\ ~EntryOpen => \A r \in Stages : Delivered(r))'
    <3>1. queue'[Entry] # <<>>
      BY <1>3, <1>t, PutOthers DEF PublishJob, Queueing
    <3> QED
      BY <3>1
  <2>6. (\A r \in Stages : worker[r] \in {"stored", "announced"} => r \in steps)'
    BY <1>3, <1>t, <1>w DEF PublishJob, Put
  <2>7. (Required \subseteq steps /\ status # "completed" => Awake)'
    BY <1>3, <1>t, <1>w DEF PublishJob, Put
  <2> QED
    BY <2>1, <2>2, <2>3, <2>4, <2>5, <2>6, <2>7
<1>4. CASE CancelWrites
  BY <1>4 DEF CancelWrites
<1>5. CASE DeleteWrites
  BY <1>5 DEF DeleteWrites
<1>6. CASE WatchdogReads
  BY <1>6 DEF WatchdogReads
<1>7. CASE WatchdogScans
  BY <1>7 DEF WatchdogScans
<1>8. CASE WatchdogExpires
  BY <1>8 DEF WatchdogExpires
<1>9. CASE WatchdogRemoves
  BY <1>9 DEF WatchdogRemoves
<1>10. CASE JobTimeout
  BY <1>10 DEF JobTimeout, Benign
<1>11. CASE CancelReads
  BY <1>11 DEF CancelReads, Benign
<1>12. CASE DeleteReads
  BY <1>12 DEF DeleteReads, Benign
<1>13. CASE CreateFault
  BY <1>13, BenignFailures DEF CreateFault
<1>14. CASE PublishFault
  BY <1>14, BenignFailures DEF PublishFault
<1> QED
  BY <1>1, <1>2, <1>3, <1>4, <1>5, <1>6, <1>7, <1>8, <1>9, <1>10, <1>11, <1>12, <1>13, <1>14
  DEF ApiNext, ApiSteps, WatchdogSteps

(* The entry handler reaches every stage before it lets go.                *)
LEMMA EntryFew ==
  ASSUME TypeOK, FewFailures, Benign, QuietParts, FewParts, NEW h \in Handlers, EntryStep(h) \/ EntryFailure(h),
         UNCHANGED <<env, apiVars, completionVars>>
  PROVE  FewParts'
<1> USE DEF FewParts, Retried, FannedOut, Delivered, Awake, EntryOpen, QuietParts, Quiet, OneEntry,
            EntryFirst, EntryPast, Notices, recordVars,
            apiVars, stageVars, completionVars, EntryGoes, EntryEnds
<1>t. /\ queue \in [Required -> Seq(0..MaxRetries)] /\ Entry \in Required
      /\ failures \in Nat /\ MaxRetries \in Nat /\ MaxFailures \in Nat /\ events \in Nat
      /\ Stages \subseteq Required /\ \A q \in Stages : q # Entry
  BY PipelineAssumption DEF TypeOK, RecordTypeOK, Required, Stages
<1>w. /\ entry \in [Handlers -> {"idle", "taken", "working", "checked", "stored", "dispatch", "announced"}]
      /\ worker \in [Stages -> {"idle", "working", "stored", "announced"}]
      /\ sent \in [Handlers -> 0..Len(Queues)] /\ attempt \in [Stages -> 0..MaxRetries]
      /\ Len(Queues) \in Nat /\ Stages = {Queues[i] : i \in 1..Len(Queues)}
      /\ lost \in [Handlers \cup Stages -> BOOLEAN]
  BY PipelineAssumption DEF TypeOK, WorkersTypeOK, Stages
<1>e. EntryStatus \notin {"completed", "string"}
  BY PipelineAssumption DEF EntryStatus
<1>d. sent[h] < Len(Queues) => Queues[sent[h] + 1] \in Stages
  <2>1. ASSUME sent[h] < Len(Queues) PROVE sent[h] + 1 \in 1..Len(Queues)
    BY <2>1, <1>w
  <2> QED
    BY <2>1, <1>w
<1>1. CASE EntryTakes(h)
  <2>1. status' # "string"
    BY <1>1, <1>t, <1>w DEF EntryTakes, Take
  <2>2. Retried'
    BY <1>1, <1>t, <1>w DEF EntryTakes, Take
  <2>3. (\A h_ \in Handlers : \A i \in 1..sent[h_] : Delivered(Queues[i]))'
    BY <1>1, <1>t, <1>w DEF EntryTakes, Take
  <2>4. (\A h_ \in Handlers : entry[h_] = "announced" => sent[h_] = Len(Queues))'
    BY <1>1, <1>t, <1>w DEF EntryTakes, Take
  <2>5. (api = "answered" /\ ~EntryOpen => \A r \in Stages : Delivered(r))'
    BY <1>1, <1>t, <1>w DEF EntryTakes, Take
  <2>6. (\A r \in Stages : worker[r] \in {"stored", "announced"} => r \in steps)'
    BY <1>1, <1>t, <1>w DEF EntryTakes, Take
  <2>7. (Required \subseteq steps /\ status # "completed" => Awake)'
    <3>1. entry'[h] = "taken"
      BY <1>1, <1>w DEF EntryTakes
    <3> QED
      BY <3>1, <1>t
  <2> QED
    BY <2>1, <2>2, <2>3, <2>4, <2>5, <2>6, <2>7
<1>2. CASE EntryStarts(h)
  BY <1>2, <1>t, <1>w, <1>e DEF EntryStarts
<1>3. CASE EntryCancelled(h)
  BY <1>3 DEF EntryCancelled
<1>4. CASE EntryChecks(h)
  <2>1. status' # "string"
    BY <1>4, <1>t, <1>w DEF EntryChecks
  <2>2. Retried'
    BY <1>4, <1>t, <1>w DEF EntryChecks
  <2>3. (\A h_ \in Handlers : \A i \in 1..sent[h_] : Delivered(Queues[i]))'
    BY <1>4, <1>t, <1>w DEF EntryChecks
  <2>4. (\A h_ \in Handlers : entry[h_] = "announced" => sent[h_] = Len(Queues))'
    BY <1>4, <1>t, <1>w DEF EntryChecks
  <2>5. (api = "answered" /\ ~EntryOpen => \A r \in Stages : Delivered(r))'
    BY <1>4, <1>t, <1>w DEF EntryChecks
  <2>6. (\A r \in Stages : worker[r] \in {"stored", "announced"} => r \in steps)'
    BY <1>4, <1>t, <1>w DEF EntryChecks
  <2>7. (Required \subseteq steps /\ status # "completed" => Awake)'
    BY <1>4, <1>t, <1>w DEF EntryChecks
  <2> QED
    BY <2>1, <2>2, <2>3, <2>4, <2>5, <2>6, <2>7
<1>5. CASE EntryStores(h)
  BY <1>5, <1>t, <1>w DEF EntryStores
<1>6. CASE EntryDispatches(h)
  <2>1. status' # "string"
    BY <1>6, <1>t, <1>w, <1>d DEF EntryDispatches, Put
  <2>2. Retried'
    <3>1. /\ Put(Queues[sent[h] + 1], 0) /\ Queues[sent[h] + 1] \in Stages
          /\ UNCHANGED <<attempt, failures>>
      BY <1>6, <1>d DEF EntryDispatches
    <3>2. 0 \in 0..MaxRetries /\ 0 <= failures
      BY <1>t
    <3>3. \A r \in Stages : \A i \in DOMAIN queue'[r] : queue'[r][i] <= failures
      BY <3>1, <3>2, <1>t, PutWithin DEF Queueing
    <3> QED
      BY <3>1, <3>3
  <2>3. (\A h_ \in Handlers : \A i \in 1..sent[h_] : Delivered(Queues[i]))'
    <3>1. /\ queue'[Queues[sent[h] + 1]] # <<>>
          /\ \A r \in Stages : queue[r] # <<>> => queue'[r] # <<>>
      BY <1>6, <1>t, <1>d, PutOthers DEF EntryDispatches, Queueing
    <3>2. \A g \in Handlers : \A i \in 1..sent'[g] : i \in 1..sent[g] \/ i = sent[h] + 1
      BY <1>6, <1>w DEF EntryDispatches
    <3>3. \A i \in 1..Len(Queues) : Queues[i] \in Stages
      BY <1>w
    <3>4. \A g \in Handlers : \A i \in 1..sent[g] : i \in 1..Len(Queues)
      BY <1>w
    <3>5. UNCHANGED <<steps, worker>>
      BY <1>6 DEF EntryDispatches
    <3> QED
      BY <3>1, <3>2, <3>3, <3>4, <3>5
  <2>4. (\A h_ \in Handlers : entry[h_] = "announced" => sent[h_] = Len(Queues))'
    BY <1>6, <1>t, <1>w, <1>d DEF EntryDispatches, Put
  <2>5. (api = "answered" /\ ~EntryOpen => \A r \in Stages : Delivered(r))'
    BY <1>6, <1>t, <1>w, <1>d DEF EntryDispatches, Put
  <2>6. (\A r \in Stages : worker[r] \in {"stored", "announced"} => r \in steps)'
    BY <1>6, <1>t, <1>w, <1>d DEF EntryDispatches, Put
  <2>7. (Required \subseteq steps /\ status # "completed" => Awake)'
    BY <1>6, <1>t, <1>w, <1>d DEF EntryDispatches, Put
  <2> QED
    BY <2>1, <2>2, <2>3, <2>4, <2>5, <2>6, <2>7
<1>7. CASE EntryAnnounces(h)
  BY <1>7, <1>t, <1>w DEF EntryAnnounces, Publish
<1>8. CASE EntryAcks(h)
  BY <1>8, <1>t, <1>w DEF EntryAcks
<1>9. CASE EntryRefused(h)
  BY <1>9, <1>t, <1>w DEF EntryRefused
<1>10. CASE EntryFails(h)
  BY <1>10, BenignFailures DEF EntryFails
<1>11. CASE EntryCrashes(h)
  BY <1>11, BenignFailures DEF EntryCrashes
<1>12. CASE EntryRedelivered(h)
  BY <1>12, BenignFailures DEF EntryRedelivered
<1> QED
  BY <1>1, <1>2, <1>3, <1>4, <1>5, <1>6, <1>7, <1>8, <1>9, <1>10, <1>11, <1>12
  DEF EntryStep, EntryFailure

(* A stage worker stores, announces, or hands the message on.              *)
LEMMA StageFew ==
  ASSUME TypeOK, FewFailures, Benign, QuietParts, FewParts, NEW q \in Stages, StageStep(q) \/ StageFailure(q),
         UNCHANGED <<env, apiVars, completionVars>>
  PROVE  FewParts'
<1> USE DEF FewParts, Retried, FannedOut, Delivered, Awake, EntryOpen, QuietParts, Quiet, OneEntry,
            EntryFirst, EntryPast, Notices, recordVars,
            apiVars, entryVars, completionVars, StageEnds
<1>t. /\ queue \in [Required -> Seq(0..MaxRetries)] /\ Entry \in Required
      /\ failures \in Nat /\ MaxRetries \in Nat /\ MaxFailures \in Nat /\ events \in Nat
      /\ Stages \subseteq Required /\ \A r \in Stages : r # Entry
  BY PipelineAssumption DEF TypeOK, RecordTypeOK, Required, Stages
<1>w. /\ entry \in [Handlers -> {"idle", "taken", "working", "checked", "stored", "dispatch", "announced"}]
      /\ worker \in [Stages -> {"idle", "working", "stored", "announced"}]
      /\ sent \in [Handlers -> 0..Len(Queues)] /\ attempt \in [Stages -> 0..MaxRetries]
      /\ Len(Queues) \in Nat /\ Stages = {Queues[i] : i \in 1..Len(Queues)}
      /\ lost \in [Handlers \cup Stages -> BOOLEAN]
  BY PipelineAssumption DEF TypeOK, WorkersTypeOK, Stages
<1>1. CASE StageTakes(q)
  <2>1. status' # "string"
    BY <1>1, <1>t, <1>w DEF StageTakes, Take
  <2>2. Retried'
    <3>1. Take(q) /\ UNCHANGED failures /\ attempt' \in {attempt, [attempt EXCEPT ![q] = Head(queue[q])]}
      BY <1>1 DEF StageTakes
    <3>2. /\ Head(queue[q]) <= failures
          /\ \A r \in Stages : \A i \in DOMAIN queue'[r] : queue'[r][i] <= failures
      BY <3>1, <1>t, TakeWithin DEF Queueing
    <3>3. \A r \in Stages : attempt'[r] <= failures
      BY <3>1, <3>2, <1>w, <1>t
    <3> QED
      BY <3>1, <3>2, <3>3
  <2>3. /\ worker'[q] # "idle" /\ worker'[q] = "working"
        /\ UNCHANGED <<steps, sent, entry, events, comp, api, status>>
    BY <1>1, <1>w DEF StageTakes
  <2>4. /\ \A r \in Stages : r # q => queue'[r] = queue[r] /\ worker'[r] = worker[r]
        /\ queue'[Entry] = queue[Entry]
    BY <1>1, <1>w, <1>t DEF StageTakes, Take
  <2>5. \A r \in Stages : Delivered(r) => Delivered(r)'
    BY <2>3, <2>4
  <2>6. (\A h_ \in Handlers : \A i \in 1..sent[h_] : Delivered(Queues[i]))'
    <3>1. \A g \in Handlers : \A i \in 1..sent[g] : Queues[i] \in Stages
      BY <1>w
    <3> QED
      BY <2>3, <2>5, <3>1
  <2>7. (\A h_ \in Handlers : entry[h_] = "announced" => sent[h_] = Len(Queues))'
    BY <2>3
  <2>8. (api = "answered" /\ ~EntryOpen => \A r \in Stages : Delivered(r))'
    BY <2>3, <2>4, <2>5
  <2>9. (\A r \in Stages : worker[r] \in {"stored", "announced"} => r \in steps)'
    BY <2>3, <2>4
  <2>10. (Required \subseteq steps /\ status # "completed" => Awake)'
    BY <2>3
  <2> QED
    BY <2>1, <2>2, <2>6, <2>7, <2>8, <2>9, <2>10
<1>2. CASE StageAborts(q)
  BY <1>2 DEF StageAborts
<1>3. CASE StageStores(q)
  <2>1. status' # "string"
    BY <1>3, <1>t, <1>w DEF StageStores
  <2>2. Retried'
    BY <1>3, <1>t, <1>w DEF StageStores
  <2>3. (\A h_ \in Handlers : \A i \in 1..sent[h_] : Delivered(Queues[i]))'
    BY <1>3, <1>t, <1>w DEF StageStores
  <2>4. (\A h_ \in Handlers : entry[h_] = "announced" => sent[h_] = Len(Queues))'
    BY <1>3, <1>t, <1>w DEF StageStores
  <2>5. (api = "answered" /\ ~EntryOpen => \A r \in Stages : Delivered(r))'
    BY <1>3, <1>t, <1>w DEF StageStores
  <2>6. (\A r \in Stages : worker[r] \in {"stored", "announced"} => r \in steps)'
    BY <1>3, <1>t, <1>w DEF StageStores
  <2>7. (Required \subseteq steps /\ status # "completed" => Awake)'
    BY <1>3, <1>t, <1>w DEF StageStores
  <2> QED
    BY <2>1, <2>2, <2>3, <2>4, <2>5, <2>6, <2>7
<1>4. CASE StageFindsNothing(q)
  BY <1>4, <1>t, <1>w DEF StageFindsNothing
<1>5. CASE StageAnnounces(q)
  BY <1>5, <1>t, <1>w DEF StageAnnounces, Publish
<1>6. CASE StageAcks(q)
  <2>1. status' # "string"
    BY <1>6, <1>t, <1>w DEF StageAcks
  <2>2. Retried'
    <3>1. UNCHANGED <<queue, failures>> /\ attempt' = [attempt EXCEPT ![q] = 0]
      BY <1>6 DEF StageAcks
    <3>2. \A r \in Stages : attempt'[r] <= failures
      BY <3>1, <1>w, <1>t
    <3> QED
      BY <3>1, <3>2
  <2>3. (\A h_ \in Handlers : \A i \in 1..sent[h_] : Delivered(Queues[i]))'
    BY <1>6, <1>t, <1>w DEF StageAcks
  <2>4. (\A h_ \in Handlers : entry[h_] = "announced" => sent[h_] = Len(Queues))'
    BY <1>6, <1>t, <1>w DEF StageAcks
  <2>5. (api = "answered" /\ ~EntryOpen => \A r \in Stages : Delivered(r))'
    BY <1>6, <1>t, <1>w DEF StageAcks
  <2>6. (\A r \in Stages : worker[r] \in {"stored", "announced"} => r \in steps)'
    BY <1>6, <1>t, <1>w DEF StageAcks
  <2>7. (Required \subseteq steps /\ status # "completed" => Awake)'
    BY <1>6, <1>t, <1>w DEF StageAcks
  <2> QED
    BY <2>1, <2>2, <2>3, <2>4, <2>5, <2>6, <2>7
<1>7. CASE StageRetries(q)
  <2>1. status' # "string"
    BY <1>7, <1>t, <1>w, BenignFailures DEF StageRetries, Put, Fail
  <2>2. Retried'
    <3>1. /\ Put(q, attempt[q] + 1) /\ failures' = failures + 1
          /\ attempt' = [attempt EXCEPT ![q] = 0]
      BY <1>7, <1>w DEF StageRetries, Fail
    <3>2. attempt[q] + 1 \in 0..MaxRetries /\ attempt[q] + 1 <= failures + 1
      BY <1>7, <1>w, <1>t DEF StageRetries
    <3>3. \A r \in Stages : \A i \in DOMAIN queue[r] : queue[r][i] <= failures + 1
      <4>1. \A r \in Stages : \A i \in DOMAIN queue[r] : queue[r][i] \in Nat
        BY <1>t
      <4> QED
        BY <4>1, <1>t
    <3>4. \A r \in Stages : \A i \in DOMAIN queue'[r] : queue'[r][i] <= failures + 1
      BY <3>1, <3>2, <3>3, <1>t, PutWithin DEF Queueing
    <3>5. \A r \in Stages : attempt'[r] <= failures + 1
      BY <3>1, <1>w, <1>t
    <3> QED
      BY <3>1, <3>4, <3>5
  <2>3. /\ UNCHANGED <<steps, entry, api>> /\ queue'[Entry] = queue[Entry]
        /\ \A r \in Stages : r # q => worker'[r] = worker[r]
    BY <1>7, <1>w, <1>t DEF StageRetries, Put
  <2>4. \A r \in Stages : Delivered(r) => Delivered(r)'
    <3>1. queue'[q] # <<>> /\ \A r \in Stages : queue[r] # <<>> => queue'[r] # <<>>
      <4>1. Put(q, attempt[q] + 1)
        BY <1>7, <1>w DEF StageRetries
      <4>2. attempt[q] + 1 \in 0..MaxRetries
        BY <1>7, <1>w, <1>t DEF StageRetries
      <4> QED
        BY <4>1, <4>2, <1>t, PutOthers DEF Queueing
    <3> QED
      BY <2>3, <3>1
  <2>5. (\A h_ \in Handlers : \A i \in 1..sent[h_] : Delivered(Queues[i]))'
    <3>1. UNCHANGED sent /\ \A g \in Handlers : \A i \in 1..sent[g] : Queues[i] \in Stages
      BY <1>7, <1>w DEF StageRetries
    <3> QED
      BY <2>4, <3>1
  <2>6. (\A h_ \in Handlers : entry[h_] = "announced" => sent[h_] = Len(Queues))'
    BY <1>7, <1>t, <1>w, BenignFailures DEF StageRetries, Put, Fail
  <2>7. (api = "answered" /\ ~EntryOpen => \A r \in Stages : Delivered(r))'
    BY <2>4, <2>3
  <2>8. (\A r \in Stages : worker[r] \in {"stored", "announced"} => r \in steps)'
    BY <1>7, <1>t, <1>w, BenignFailures DEF StageRetries, Put, Fail
  <2>9. (Required \subseteq steps /\ status # "completed" => Awake)'
    BY <1>7, <1>t, <1>w, BenignFailures DEF StageRetries, Put, Fail
  <2> QED
    BY <2>1, <2>2, <2>5, <2>6, <2>7, <2>8, <2>9
<1>8. CASE StageExhausts(q)
  <2>1. failures < MaxFailures /\ attempt[q] = MaxRetries
    BY <1>8 DEF StageExhausts, Fail
  <2>2. attempt[q] <= failures
    OBVIOUS
  <2> QED
    BY <2>1, <2>2, <1>t DEF FewFailures
<1>9. CASE StageFails(q)
  BY <1>9, BenignFailures DEF StageFails
<1>10. CASE StageCrashes(q)
  <2>1. status' # "string"
    BY <1>10, <1>t, <1>w, BenignFailures DEF StageCrashes, Put, Fail
  <2>2. Retried'
    <3>1. /\ Put(q, attempt[q]) /\ failures' = failures + 1
          /\ attempt' = [attempt EXCEPT ![q] = 0]
      BY <1>10, <1>w DEF StageCrashes, Fail
    <3>2. attempt[q] \in 0..MaxRetries /\ attempt[q] <= failures + 1
      BY <1>10, <1>w, <1>t DEF StageCrashes
    <3>3. \A r \in Stages : \A i \in DOMAIN queue[r] : queue[r][i] <= failures + 1
      <4>1. \A r \in Stages : \A i \in DOMAIN queue[r] : queue[r][i] \in Nat
        BY <1>t
      <4> QED
        BY <4>1, <1>t
    <3>4. \A r \in Stages : \A i \in DOMAIN queue'[r] : queue'[r][i] <= failures + 1
      BY <3>1, <3>2, <3>3, <1>t, PutWithin DEF Queueing
    <3>5. \A r \in Stages : attempt'[r] <= failures + 1
      BY <3>1, <1>w, <1>t
    <3> QED
      BY <3>1, <3>4, <3>5
  <2>3. /\ UNCHANGED <<steps, entry, api>> /\ queue'[Entry] = queue[Entry]
        /\ \A r \in Stages : r # q => worker'[r] = worker[r]
    BY <1>10, <1>w, <1>t DEF StageCrashes, Put
  <2>4. \A r \in Stages : Delivered(r) => Delivered(r)'
    <3>1. queue'[q] # <<>> /\ \A r \in Stages : queue[r] # <<>> => queue'[r] # <<>>
      <4>1. Put(q, attempt[q])
        BY <1>10, <1>w DEF StageCrashes
      <4>2. attempt[q] \in 0..MaxRetries
        BY <1>10, <1>w, <1>t DEF StageCrashes
      <4> QED
        BY <4>1, <4>2, <1>t, PutOthers DEF Queueing
    <3> QED
      BY <2>3, <3>1
  <2>5. (\A h_ \in Handlers : \A i \in 1..sent[h_] : Delivered(Queues[i]))'
    <3>1. UNCHANGED sent /\ \A g \in Handlers : \A i \in 1..sent[g] : Queues[i] \in Stages
      BY <1>10, <1>w DEF StageCrashes
    <3> QED
      BY <2>4, <3>1
  <2>6. (\A h_ \in Handlers : entry[h_] = "announced" => sent[h_] = Len(Queues))'
    BY <1>10, <1>t, <1>w, BenignFailures DEF StageCrashes, Put, Fail
  <2>7. (api = "answered" /\ ~EntryOpen => \A r \in Stages : Delivered(r))'
    BY <2>4, <2>3
  <2>8. (\A r \in Stages : worker[r] \in {"stored", "announced"} => r \in steps)'
    BY <1>10, <1>t, <1>w, BenignFailures DEF StageCrashes, Put, Fail
  <2>9. (Required \subseteq steps /\ status # "completed" => Awake)'
    BY <1>10, <1>t, <1>w, BenignFailures DEF StageCrashes, Put, Fail
  <2> QED
    BY <2>1, <2>2, <2>5, <2>6, <2>7, <2>8, <2>9
<1>11. CASE StageLosesConnection(q)
  BY <1>11, BenignFailures DEF StageLosesConnection
<1> QED
  BY <1>1, <1>2, <1>3, <1>4, <1>5, <1>6, <1>7, <1>8, <1>9, <1>10, <1>11
  DEF StageStep, StageFailure

(* An event is only used up by looking at the steps.                       *)
LEMMA CompletionFew ==
  ASSUME TypeOK, FewFailures, Benign, QuietParts, FewParts, CompletionNext, UNCHANGED <<env, apiVars, workerVars>>
  PROVE  FewParts'
<1> USE DEF FewParts, Retried, FannedOut, Delivered, Awake, EntryOpen, QuietParts, Quiet, OneEntry,
            EntryFirst, EntryPast, Notices, recordVars,
            apiVars, workerVars, entryVars, stageVars, completionVars, Goes
<1>t. /\ queue \in [Required -> Seq(0..MaxRetries)] /\ Entry \in Required
      /\ failures \in Nat /\ MaxRetries \in Nat /\ MaxFailures \in Nat /\ events \in Nat
      /\ Stages \subseteq Required /\ \A q \in Stages : q # Entry
  BY PipelineAssumption DEF TypeOK, RecordTypeOK, Required, Stages
<1>w. /\ entry \in [Handlers -> {"idle", "taken", "working", "checked", "stored", "dispatch", "announced"}]
      /\ worker \in [Stages -> {"idle", "working", "stored", "announced"}]
      /\ sent \in [Handlers -> 0..Len(Queues)] /\ attempt \in [Stages -> 0..MaxRetries]
      /\ Len(Queues) \in Nat /\ Stages = {Queues[i] : i \in 1..Len(Queues)}
      /\ lost \in [Handlers \cup Stages -> BOOLEAN]
  BY PipelineAssumption DEF TypeOK, WorkersTypeOK, Stages
<1>1. CASE Receives
  BY <1>1, <1>t, <1>w DEF Receives
<1>2. CASE ReadsStatus
  BY <1>2, <1>t, <1>w DEF ReadsStatus
<1>3. CASE ReadsSteps
  BY <1>3, <1>t, <1>w DEF ReadsSteps
<1>4. CASE Fetches
  BY <1>4, <1>t, <1>w DEF Fetches
<1>5. CASE Marks
  BY <1>5, <1>t, <1>w DEF Marks, TrySetStatus
<1>6. CASE Saves
  BY <1>6, <1>t, <1>w DEF Saves
<1>7. CASE Notifies
  BY <1>7, <1>t, <1>w DEF Notifies
<1>8. CASE Announces
  BY <1>8, <1>t, <1>w DEF Announces
<1>9. CASE Subscribes
  BY <1>9 DEF Subscribes
<1>10. CASE SaveFault
  BY <1>10, BenignFailures DEF SaveFault
<1>11. CASE FinalizeFails
  BY <1>11, BenignFailures DEF FinalizeFails
<1>12. CASE CheckFails
  BY <1>12, BenignFailures DEF CheckFails
<1>13. CASE Unsubscribed
  BY <1>13, BenignFailures DEF Unsubscribed
<1>14. CASE Restarts
  BY <1>14, BenignFailures DEF Restarts
<1> QED
  BY <1>1, <1>2, <1>3, <1>4, <1>5, <1>6, <1>7, <1>8, <1>9, <1>10, <1>11, <1>12, <1>13, <1>14
  DEF CompletionNext, CompletionStep, CompletionFailure


(* Nothing has been asked of anybody yet.                                  *)
LEMMA InitFew == Init => FewInv
<1> SUFFICES ASSUME Init PROVE FewParts
  BY DEF FewInv
<1>1. status # "string"
  BY DEF Init, RecordInit
<1>2. Retried
  BY DEF Init, RecordInit, WorkersInit, Retried, Required
<1>3. FannedOut
  BY DEF Init, ApiInit, WorkersInit, FannedOut
<1>4. ~(Required \subseteq steps)
  BY DEF Init, RecordInit, Required
<1> QED
  BY <1>1, <1>2, <1>3, <1>4 DEF FewParts

(* FewInv is inductive, given QuietInv.                                    *)
THEOREM FewInductive ==
  ASSUME FewFailures
  PROVE  Spec => []FewInv
<1>1. TypeOK /\ QuietInv /\ FewInv /\ [Next]_vars => FewInv'
  <2> SUFFICES ASSUME TypeOK, QuietInv, FewInv, [Next]_vars, Benign' PROVE FewParts'
    BY DEF FewInv
  <2>e. env' = env
    BY DEF Next, vars
  <2>b. Benign
    BY <2>e DEF Benign
  <2>q. QuietParts /\ FewParts
    BY <2>b DEF QuietInv, FewInv
  <2>1. CASE ApiNext /\ UNCHANGED <<env, workerVars, completionVars>>
    BY <2>1, <2>b, <2>q, ApiFew
  <2>2. CASE WorkersNext /\ UNCHANGED <<env, apiVars, completionVars>>
    BY <2>2, <2>b, <2>q, EntryFew, StageFew DEF WorkersNext
  <2>3. CASE CompletionNext /\ UNCHANGED <<env, apiVars, workerVars>>
    BY <2>3, <2>b, <2>q, CompletionFew
  <2>4. CASE UNCHANGED vars
    BY <2>4, <2>q DEF vars, recordVars, apiVars, workerVars, entryVars, stageVars, completionVars,
                FewParts, Retried, FannedOut, Delivered, EntryOpen, Awake
  <2> QED
    BY <2>1, <2>2, <2>3, <2>4 DEF Next
<1> QED
  BY <1>1, InitFew, TypeCorrect, QuietInductive, PTL DEF Spec

(* A stage that has not delivered is in somebody's hands, in every         *)
(* pipeline and for any number of handlers, as long as no message runs out *)
(* of retries (the fan-out, BaseWorker._handle_transient_error).           *)
THEOREM EveryStageAccounted ==
  ASSUME FewFailures
  PROVE  Spec => []StageAccounted
<1>1. FewInv => StageAccounted
  BY DEF FewInv, FewParts, FannedOut, Delivered, StageAccounted
<1> QED
  BY <1>1, FewInductive, PTL

(* Somebody will still look once the last step is stored: whatever the     *)
(* order in which stages store, announce and retry, the last event comes   *)
(* after the last step (check_job_completion).                             *)
THEOREM NoWakeupLost ==
  ASSUME FewFailures
  PROVE  Spec => []NoLostWakeup
<1>1. FewInv => NoLostWakeup
  BY DEF FewInv, FewParts, Awake, NoLostWakeup, EntryOpen, Ended, Terminal
<1> QED
  BY <1>1, FewInductive, PTL

(* Nobody overwrites "completed", the late retries of a stage included.    *)
THEOREM CompletedIsFinal ==
  ASSUME FewFailures
  PROVE  Spec => CompletedStays
<1> DEFINE Stays == Benign /\ status = "completed" => status' \in {"completed", "absent"}
<1>1. TypeOK /\ QuietInv /\ FewInv /\ FewInv' /\ [Next]_vars => [Stays]_vars
  <2> SUFFICES ASSUME TypeOK, QuietInv, FewInv', Next, Benign, status = "completed"
               PROVE  status' = "completed"
    OBVIOUS
  <2>q. QuietParts
    BY DEF QuietInv
  <2>b. status' # "string"
    <3>1. env' = env
      BY DEF Next
    <3> QED
      BY <3>1 DEF FewInv, FewParts, Benign
  <2>p. EntryPast /\ Quiet
    BY <2>q DEF QuietParts, EntryFirst
  <2>f. ~Fail("entry_error") /\ ~Fail("redis")
    BY DEF Benign, Fail
  <2> USE <2>b, <2>p DEF recordVars, apiVars, completionVars, EntryPast, Quiet
  <2>1. CASE ApiNext /\ UNCHANGED <<env, workerVars, completionVars>>
    BY <2>1, BenignFailures
    DEF ApiNext, ApiSteps, WatchdogSteps, CreatePending, CreateMeta, PublishJob, CancelWrites, DeleteWrites,
        WatchdogReads, WatchdogScans, WatchdogExpires, WatchdogRemoves, JobTimeout, CancelReads, DeleteReads,
        CreateFault, PublishFault
  <2>2. ASSUME NEW h \in Handlers, EntryStep(h) \/ EntryFailure(h) PROVE status' = "completed"
    <3>1. ~EntryStarts(h) /\ ~EntryStores(h) /\ ~EntryCancelled(h) /\ ~EntryFails(h)
      BY <2>f DEF EntryStarts, EntryStores, EntryCancelled, EntryFails, EntryGoes
    <3> QED
      BY <2>2, <3>1
      DEF EntryStep, EntryFailure, EntryTakes, EntryChecks, EntryDispatches, EntryAnnounces, EntryAcks, EntryRefused,
          EntryCrashes, EntryRedelivered
  <2>3. ASSUME NEW q \in Stages, StageStep(q) \/ StageFailure(q) PROVE status' = "completed"
    BY <2>3
    DEF StageStep, StageFailure, StageTakes, StageAborts, StageStores, StageFindsNothing, StageAnnounces, StageAcks,
        StageRetries, StageExhausts, StageFails, StageCrashes, StageLosesConnection
  <2>4. CASE CompletionNext
    BY <2>4, <2>f
    DEF CompletionNext, CompletionStep, CompletionFailure, Receives, ReadsStatus, ReadsSteps, Fetches, Marks, Saves,
        Notifies, Announces, Subscribes, SaveFault, FinalizeFails, CheckFails, Unsubscribed, Restarts, TrySetStatus
  <2> QED
    BY <2>1, <2>2, <2>3, <2>4 DEF Next, WorkersNext
<1> QED
  BY <1>1, TypeCorrect, QuietInductive, FewInductive, PTL DEF Spec, CompletedStays

=============================================================================
