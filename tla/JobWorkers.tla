----------------------------- MODULE JobWorkers -----------------------------
(***************************************************************************)
(* The workers of a job.  The entry stage (extraction, audio or image)     *)
(* turns the document into text and chunks and publishes one message per   *)
(* downstream stage; the stages (embeddings, entities, metadata) each add  *)
(* their part and announce it.  Entry workers are asyncio consumers (aio_  *)
(* pika), stage workers are BaseWorker consumers (pika).                   *)
(*                                                                         *)
(* One handler's consecutive writes to different keys are one step when no *)
(* other process reads them apart.                                         *)
(***************************************************************************)
EXTENDS JobRecord

CONSTANT Handlers       \* handlers of entry messages: replicas, prefetch

ASSUME HandlersAssumption == Handlers \cap Stages = {}

VARIABLES
    entry,              \* where each entry handler is
    sent,               \* downstream messages it has published
    worker,             \* where each stage worker is
    attempt,            \* x-retry-count of the message it handles
    lost                \* whose connection is gone, its message redelivered

entryVars == <<entry, sent>>
stageVars == <<worker, attempt>>
workerVars == <<entryVars, stageVars, lost>>

WorkersInit ==
    /\ entry = [h \in Handlers |-> "idle"]
    /\ sent = [h \in Handlers |-> 0]
    /\ worker = [q \in Stages |-> "idle"]
    /\ attempt = [q \in Stages |-> 0]
    /\ lost = [x \in Handlers \cup Stages |-> FALSE]

EntryGoes(h, from, to) == entry[h] = from /\ entry' = [entry EXCEPT ![h] = to]

EntryEnds(h) ==
    /\ entry' = [entry EXCEPT ![h] = "idle"]
    /\ sent' = [sent EXCEPT ![h] = 0]
    /\ lost' = [lost EXCEPT ![h] = FALSE]

---------------------------------------------------------------------------
(* The entry stage.                                                        *)

(* Only BaseAsyncWorker (audio, image) looks at the status first.          *)
EntryTakes(h) ==
    /\ IF Entry # "extraction" /\ status = "cancelled"
       THEN entry[h] = "idle" /\ UNCHANGED entry
       ELSE EntryGoes(h, "idle", "taken")
    /\ Take(Entry)
    /\ UNCHANGED <<status, steps, chunks, created, active, events, subscribed, failures, sent, stageVars, lost>>

EntryStarts(h) ==
    /\ EntryGoes(h, "taken", "working")
    /\ status # "string"
    /\ status' = EntryStatus
    /\ UNCHANGED <<steps, chunks, created, active, queue, events, subscribed, failures, sent, stageVars, lost>>

(* _raise_if_cancelled.  The audio and image workers handle the exception  *)
(* like any other and write "failed" over "cancelled".                     *)
EntryCancelled(h) ==
    /\ entry[h] \in {"working", "stored"}
    /\ status = "cancelled"
    /\ EntryEnds(h)
    /\ status' = IF Entry = "extraction" THEN "cancelled" ELSE "failed"
    /\ UNCHANGED <<steps, chunks, created, active, queue, events, subscribed, failures, stageVars>>

EntryChecks(h) ==
    /\ status # "cancelled"
    /\ EntryGoes(h, "working", "checked") \/ EntryGoes(h, "stored", "dispatch")
    /\ UNCHANGED <<recordVars, sent, stageVars, lost>>

(* Only extraction writes the status here.                                 *)
EntryStores(h) ==
    /\ EntryGoes(h, "checked", "stored")
    /\ \/ Entry = "extraction" /\ status # "string" /\ status' = "processing"
       \/ Entry # "extraction" /\ UNCHANGED status
    /\ chunks' = TRUE
    /\ steps' = steps \cup {Entry}
    /\ UNCHANGED <<created, active, queue, events, subscribed, failures, sent, stageVars, lost>>

EntryDispatches(h) ==
    /\ entry[h] = "dispatch"
    /\ sent[h] < Len(Queues)
    /\ sent' = [sent EXCEPT ![h] = @ + 1]
    /\ Put(Queues[sent[h] + 1], 0)
    /\ UNCHANGED <<status, steps, chunks, created, active, events, subscribed, failures, entry, stageVars, lost>>

(* Mutant: "processing" is written after the fan-out.                      *)
EntryMarksLate(h) ==
    /\ EntryGoes(h, "dispatch", "announced")
    /\ sent[h] = Len(Queues)
    /\ TrySetStatus("processing")
    /\ Publish
    /\ UNCHANGED <<steps, chunks, created, active, queue, subscribed, failures, sent, stageVars, lost>>

EntryAnnounces(h) ==
    /\ EntryGoes(h, "dispatch", "announced")
    /\ sent[h] = Len(Queues)
    /\ Publish
    /\ UNCHANGED <<status, steps, chunks, created, active, queue, subscribed, failures, sent, stageVars, lost>>

EntryAcks(h) ==
    /\ entry[h] = "announced"
    /\ EntryEnds(h)
    /\ UNCHANGED <<recordVars, stageVars>>

(* Its HSET of the status is answered with WRONGTYPE, and so is the one in *)
(* the exception handler: the message is rejected and nothing else.        *)
EntryRefused(h) ==
    /\ status = "string"
    /\ entry[h] = "taken" \/ (entry[h] = "checked" /\ Entry = "extraction")
    /\ EntryEnds(h)
    /\ UNCHANGED <<recordVars, stageVars>>

(* Any other exception: the message is dead-lettered.                      *)
EntryFails(h) ==
    /\ entry[h] \in {"working", "checked", "stored", "dispatch"}
    /\ Fail("entry_error")
    /\ EntryEnds(h)
    /\ TrySetStatus("failed")
    /\ UNCHANGED <<steps, chunks, created, active, queue, events, subscribed, stageVars>>

EntryCrashes(h) ==
    /\ entry[h] # "idle"
    /\ Fail("entry_crash")
    /\ EntryEnds(h)
    /\ IF lost[h] THEN UNCHANGED queue ELSE Put(Entry, 0)
    /\ UNCHANGED <<status, steps, chunks, created, active, events, subscribed, stageVars>>

(* The connection is lost and the message goes to another handler, or to   *)
(* this one once it is done.  This one goes on: the connection is robust,  *)
(* and only its ack comes to nothing.                                      *)
EntryRedelivered(h) ==
    /\ entry[h] # "idle" /\ ~lost[h]
    /\ Fail("entry_drop")
    /\ lost' = [lost EXCEPT ![h] = TRUE]
    /\ Put(Entry, 0)
    /\ UNCHANGED <<status, steps, chunks, created, active, events, subscribed, entryVars, stageVars>>

---------------------------------------------------------------------------
(* The downstream stages: BaseWorker._on_message and process_message.      *)

StageEnds(q) ==
    /\ worker' = [worker EXCEPT ![q] = "idle"]
    /\ attempt' = [attempt EXCEPT ![q] = 0]
    /\ lost' = [lost EXCEPT ![q] = FALSE]

StageTakes(q) ==
    /\ worker[q] = "idle"
    /\ Take(q)
    /\ IF status = "cancelled"
       THEN UNCHANGED <<worker, attempt>>
       ELSE /\ worker' = [worker EXCEPT ![q] = "working"]
            /\ attempt' = [attempt EXCEPT ![q] = Head(queue[q])]
    /\ UNCHANGED <<status, steps, chunks, created, active, events, subscribed, failures, entryVars, lost>>

(* Only the entities worker has a safe point of its own.                   *)
StageAborts(q) ==
    /\ q = "entities"
    /\ worker[q] = "working"
    /\ chunks /\ status = "cancelled"
    /\ StageEnds(q)
    /\ UNCHANGED <<recordVars, entryVars>>

StageStores(q) ==
    /\ worker[q] = "working"
    /\ chunks
    /\ steps' = steps \cup {q}
    /\ worker' = [worker EXCEPT ![q] = "stored"]
    /\ UNCHANGED <<status, chunks, created, active, queue, events, subscribed, failures, entryVars, attempt, lost>>

(* The keys are gone: metadata raises, the others acknowledge.             *)
StageFindsNothing(q) ==
    /\ worker[q] = "working"
    /\ ~chunks
    /\ StageEnds(q)
    /\ status' = IF q = "metadata" THEN "string" ELSE status
    /\ UNCHANGED <<steps, chunks, created, active, queue, events, subscribed, failures, entryVars>>

(* Mutant: a retried message is not announced any more.                    *)
StageAnnouncesOnce(q) ==
    /\ worker[q] = "stored"
    /\ worker' = [worker EXCEPT ![q] = "announced"]
    /\ IF attempt[q] > 0 THEN UNCHANGED events ELSE Publish
    /\ UNCHANGED <<status, steps, chunks, created, active, queue, subscribed, failures, entryVars, attempt, lost>>

StageAnnounces(q) ==
    /\ worker[q] = "stored"
    /\ worker' = [worker EXCEPT ![q] = "announced"]
    /\ Publish
    /\ UNCHANGED <<status, steps, chunks, created, active, queue, subscribed, failures, entryVars, attempt, lost>>

(* On a lost connection basic_ack may raise, which counts as a permanent   *)
(* error of the job.                                                       *)
StageAcks(q) ==
    /\ worker[q] = "announced"
    /\ StageEnds(q)
    /\ UNCHANGED status \/ (lost[q] /\ status' = "string")
    /\ UNCHANGED <<steps, chunks, created, active, queue, events, subscribed, failures, entryVars>>

(* Mutant: acknowledged without being published again.                     *)
StageRetriesNot(q) ==
    /\ worker[q] \in {"working", "stored"}
    /\ Fail("transient")
    /\ attempt[q] < MaxRetries
    /\ StageEnds(q)
    /\ UNCHANGED <<status, steps, chunks, created, active, queue, events, subscribed, entryVars>>

(* ConnectionError, TimeoutError: a copy goes to the delayed exchange and  *)
(* the message is acknowledged; on a lost connection neither works, and    *)
(* the redelivered message is the only one.                                *)
StageRetries(q) ==
    /\ worker[q] \in {"working", "stored"}
    /\ Fail("transient")
    /\ attempt[q] < MaxRetries
    /\ IF lost[q] THEN UNCHANGED queue ELSE Put(q, attempt[q] + 1)
    /\ StageEnds(q)
    /\ UNCHANGED <<status, steps, chunks, created, active, events, subscribed, entryVars>>

(* Out of retries: SET of the status, which may fail like what led here.   *)
StageExhausts(q) ==
    /\ worker[q] \in {"working", "stored"}
    /\ Fail("transient")
    /\ attempt[q] = MaxRetries
    /\ StageEnds(q)
    /\ status' \in {status, "string"}
    /\ UNCHANGED <<steps, chunks, created, active, queue, events, subscribed, entryVars>>

(* Any other exception: SET of the status, and the message is rejected.    *)
StageFails(q) ==
    /\ worker[q] \in {"working", "stored"}
    /\ Fail("permanent")
    /\ StageEnds(q)
    /\ status' = "string"
    /\ UNCHANGED <<steps, chunks, created, active, queue, events, subscribed, entryVars>>

StageCrashes(q) ==
    /\ worker[q] # "idle"
    /\ Fail("crash")
    /\ IF lost[q] THEN UNCHANGED queue ELSE Put(q, attempt[q])
    /\ StageEnds(q)
    /\ UNCHANGED <<status, steps, chunks, created, active, events, subscribed, entryVars>>

StageLosesConnection(q) ==
    /\ worker[q] # "idle" /\ ~lost[q]
    /\ Fail("drop")
    /\ lost' = [lost EXCEPT ![q] = TRUE]
    /\ Put(q, attempt[q])
    /\ UNCHANGED <<status, steps, chunks, created, active, events, subscribed, entryVars, worker, attempt>>

---------------------------------------------------------------------------

EntryStep(h) ==
    \/ EntryTakes(h) \/ EntryStarts(h) \/ EntryCancelled(h) \/ EntryChecks(h)
    \/ EntryStores(h) \/ EntryDispatches(h) \/ EntryAnnounces(h)
    \/ EntryAcks(h) \/ EntryRefused(h)
EntryFailure(h) == EntryFails(h) \/ EntryCrashes(h) \/ EntryRedelivered(h)

StageStep(q) ==
    \/ StageTakes(q) \/ StageAborts(q) \/ StageStores(q) \/ StageFindsNothing(q)
    \/ StageAnnounces(q) \/ StageAcks(q)
StageFailure(q) ==
    \/ StageRetries(q) \/ StageExhausts(q) \/ StageFails(q)
    \/ StageCrashes(q) \/ StageLosesConnection(q)

WorkersNext ==
    \/ \E h \in Handlers : EntryStep(h) \/ EntryFailure(h)
    \/ \E q \in Stages : StageStep(q) \/ StageFailure(q)

WorkersTypeOK ==
    /\ entry \in [Handlers -> {"idle", "taken", "working", "checked", "stored", "dispatch", "announced"}]
    /\ sent \in [Handlers -> 0..Len(Queues)]
    /\ worker \in [Stages -> {"idle", "working", "stored", "announced"}]
    /\ attempt \in [Stages -> 0..MaxRetries]
    /\ lost \in [Handlers \cup Stages -> BOOLEAN]
=============================================================================
