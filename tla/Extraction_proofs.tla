-------------------------- MODULE Extraction_proofs --------------------------
(***************************************************************************)
(* An acknowledged message is one whose job went on, a message that can be *)
(* delivered has its document, and the collector leaves a dangling         *)
(* reference only where put had met an old file -- for any number of       *)
(* replicas, tasks, jobs and contents, whatever the connections do: proofs.*)
(*                                                                         *)
(* The invariant IInv has two halves that need each other's types only:    *)
(* who holds which delivery (Deliveries), and what the collector can see   *)
(* of what the tasks are about to reference (References).                  *)
(***************************************************************************)
EXTENDS ExtractionWorker, TLAPS

Deliveries == HeldByOne /\ AcksWithReason /\ AckedIsDone /\ Orphaned /\ RemovedInTime
References == PutIsFresh /\ CollectorSees /\ OrphansAreOld /\ DanglingWasOld

LEMMA InitIInv == Init => IInv
<1> SUFFICES ASSUME Init PROVE IInv
  OBVIOUS
<1> USE DEF Init, StoreInit
<1>1. TypeOK
  BY StoreAssumption, WorkerAssumption
  DEF TypeOK, Tasks, StoreTypeOK, Free, Steps, At, Job, Keys, Digests
<1>2. Deliveries
  BY DEF Deliveries, HeldByOne, AcksWithReason, AckedIsDone, Orphaned, RemovedInTime, Free, At, Job, document
<1>3. References
  BY DEF References, PutIsFresh, CollectorSees, OrphansAreOld, DanglingWasOld, Free, At
<1> QED
  BY <1>1, <1>2, <1>3 DEF IInv, Deliveries, References

---------------------------------------------------------------------------
(* Types.                                                                  *)

LEMMA StepNames ==
  /\ {"free", "begun", "read", "converted", "looked", "described", "storing", "put"} \subseteq Steps
  /\ {"reported", "dispatch", "cleaning", "settling"} \subseteq Steps
  BY DEF Steps

(* Several fields changed at once.                                         *)
LEMMA TaskFields ==
  ASSUME NEW t \in Tasks
  PROVE  /\ \A j \in Jobs : [t EXCEPT !.job = j, !.at = "begun", !.holds = TRUE, !.wired = TRUE] \in Tasks
         /\ \A b \in BOOLEAN : t.at # "free" => [t EXCEPT !.at = "looked", !.owns = b] \in Tasks
         /\ \A b \in BOOLEAN : t.at # "free" /\ t.kept \in 0..1 => [t EXCEPT !.at = "put", !.old = b] \in Tasks
         /\ t.at # "free" /\ t.kept \in 0..1 => [t EXCEPT !.at = "storing", !.kept = @ + 1] \in Tasks
         /\ t.at # "free" => [t EXCEPT !.at = "cleaning", !.verdict = "reject"] \in Tasks
         /\ [t EXCEPT !.holds = FALSE] \in Tasks
         /\ [t EXCEPT !.holds = FALSE, !.wired = FALSE] \in Tasks
<1> USE StepNames DEF Tasks
<1>1. ASSUME NEW b \in BOOLEAN, t.at # "free" PROVE [t EXCEPT !.at = "looked", !.owns = b] \in Tasks
  BY <1>1
<1>2. ASSUME NEW b \in BOOLEAN, t.at # "free", t.kept \in 0..1 PROVE [t EXCEPT !.at = "put", !.old = b] \in Tasks
  BY <1>2
<1>3. ASSUME t.at # "free" PROVE [t EXCEPT !.at = "cleaning", !.verdict = "reject"] \in Tasks
  BY <1>3
<1>4. [t EXCEPT !.holds = FALSE] \in Tasks
  OBVIOUS
<1>5. [t EXCEPT !.holds = FALSE, !.wired = FALSE] \in Tasks
  OBVIOUS
<1>6. ASSUME NEW j \in Jobs PROVE [t EXCEPT !.job = j, !.at = "begun", !.holds = TRUE, !.wired = TRUE] \in Tasks
  OBVIOUS
<1>7. ASSUME t.at # "free", t.kept \in 0..1 PROVE [t EXCEPT !.at = "storing", !.kept = @ + 1] \in Tasks
  <2>1. t.kept + 1 \in 0..2
    BY <1>7
  <2> QED
    BY <1>7, <2>1
<1> QED
  BY <1>1, <1>2, <1>3, <1>4, <1>5, <1>6, <1>7

(* An idle slot.                                                           *)
LEMMA FreeTask == Free \in Tasks
  BY StepNames DEF Free, Tasks

(* The artifact a task is at is one of the store's.                        *)
LEMMA DigestOfTask ==
  ASSUME TypeOK, NEW s \in Slots, ~At(s, "free"), task[s].kept \in 0..1
  PROVE  Digest(s) \in Digests /\ <<Job(s), Kind(s)>> \in Keys /\ Digest(s) # NoDigest
<1>1. Kind(s) \in {"text", "chunks"}
  BY DEF Kind, Kinds
<1>2. Job(s) \in Jobs
  BY DEF TypeOK, Tasks, At, Job
<1>3. document[Job(s)].content \in Contents
  BY <1>2, WorkerAssumption DEF TypeOK, document
<1>4. Digest(s) \in Digests /\ <<Job(s), Kind(s)>> \in Keys
  BY <1>1, <1>2, <1>3 DEF Digest, Digests, Keys
<1> QED
  BY <1>4, StoreAssumption

(* A step of a task keeps the types.                                       *)
LEMMA TaskTypes ==
  ASSUME TypeOK, NEW s \in Slots, TaskStep(s) \/ Errs(s), UNCHANGED env
  PROVE  TypeOK'
<1> USE DEF TypeOK, StoreTypeOK, At, Job, jobVars, storeVars, gcVars
<1> USE StepNames
<1>j. ~At(s, "free") => Job(s) \in Jobs
  BY DEF Tasks
<1>1. ASSUME NEW j \in Jobs, Takes(s, j) PROVE TypeOK'
  <2>1. [Free EXCEPT !.job = j, !.at = "begun", !.holds = TRUE, !.wired = TRUE] \in Tasks
    BY FreeTask, TaskFields
  <2>2. task' \in [Slots -> Tasks]
    BY <1>1, <2>1 DEF Takes
  <2> QED
    BY <1>1, <2>2 DEF Takes
<1>2. CASE Reads(s) \/ Decodes(s) \/ Fetches(s) \/ Converts(s)
  BY <1>2 DEF Reads, Decodes, Fetches, Converts, Goes, Tasks
<1>3. CASE Looks(s)
  <2>1. task' \in [Slots -> Tasks]
    <3>1. [task[s] EXCEPT !.at = "looked", !.owns = (Source(s) = "path")] \in Tasks
      BY <1>3, TaskFields DEF Looks
    <3> QED
      BY <1>3, <3>1 DEF Looks
  <2> QED
    BY <1>3, <2>1 DEF Looks
<1>4. CASE Describes(s) \/ Reports(s) \/ LooksAgain(s)
  BY <1>4 DEF Describes, Reports, LooksAgain, Goes, Tasks
<1>5. CASE Analyzes(s)
  BY <1>5 DEF Analyzes, Goes, SetStatus, Tasks
<1>6. CASE Puts(s)
  <2>1. task[s].kept \in 0..1
    BY <1>6 DEF Puts, Kinds, Tasks
  <2>2. task' \in [Slots -> Tasks]
    <3>1. [task[s] EXCEPT !.at = "put", !.old = (file[Digest(s)] = "old")] \in Tasks
      BY <1>6, <2>1, TaskFields DEF Puts
    <3> QED
      BY <1>6, <3>1 DEF Puts
  <2>3. StoreTypeOK'
    BY <1>6 DEF Puts, PutArtifact
  <2> QED
    BY <1>6, <2>2, <2>3 DEF Puts
<1>7. CASE Keeps(s)
  <2>1. task[s].kept \in 0..1 /\ ~At(s, "free")
    BY <1>7 DEF Keeps, Tasks
  <2>2. Digest(s) \in Digests /\ <<Job(s), Kind(s)>> \in Keys
    BY <2>1, DigestOfTask
  <2>3. ref' \in [Keys -> Digests \cup {NoDigest}] /\ reused' \subseteq Keys
    BY <1>7, <2>2 DEF Keeps, SetRef
  <2>4. [task[s] EXCEPT !.at = "storing", !.kept = @ + 1] \in Tasks
    BY <2>1, TaskFields
  <2> QED
    BY <1>7, <2>3, <2>4 DEF Keeps
<1>8. CASE Publishes(s)
  BY <1>8 DEF Publishes, Goes, Tasks
<1>9. CASE FindsCancelled(s)
  BY <1>9 DEF FindsCancelled, Goes, Tasks
<1>10. CASE FindsNoDocument(s) \/ FindsChannelClosed(s)
  BY <1>10 DEF FindsNoDocument, FindsChannelClosed, FailsJob, SetStatus, Tasks
<1>11. CASE Cleans(s)
  BY <1>11 DEF Cleans, Goes, Tasks
<1>12. CASE Settles(s)
  BY <1>12, FreeTask DEF Settles
<1>13. CASE Errs(s)
  <2>1. faults' \in 0..env.most
    BY <1>13, WorkerAssumption DEF Errs, Happens
  <2>2. task' \in [Slots -> Tasks]
    <3>1. [task[s] EXCEPT !.at = "cleaning", !.verdict = "reject"] \in Tasks
      BY <1>13, TaskFields DEF Errs
    <3> QED
      BY <1>13, <3>1 DEF Errs, FailsJob
  <2>3. status' \in [Jobs -> {"pending", "extracting", "processing", "completed", "failed", "cancelled", "absent"}]
    BY <1>13 DEF Errs, FailsJob, SetStatus
  <2> QED
    BY <1>13, <2>1, <2>2, <2>3 DEF Errs, FailsJob
<1> QED
  BY <1>1, <1>2, <1>3, <1>4, <1>5, <1>6, <1>7, <1>8, <1>9, <1>10, <1>11, <1>12, <1>13 DEF TaskStep

(* So does a step of a replica, of a connection ...                        *)
LEMMA ReplicaTypes ==
  ASSUME TypeOK, NEW w \in Workers, UNCHANGED env,
         ReplicaStep(w) \/ Drops(w) \/ ConnectsAnew(w) \/ IsToldToStop(w) \/ Dies(w)
  PROVE  TypeOK'
<1> USE DEF TypeOK, StoreTypeOK, At, Job, jobVars, storeVars, gcVars
<1>h. \A what : Happens(what) => faults' \in 0..env.most
  BY WorkerAssumption DEF Happens
<1>j. JobsOf(Held(w)) \subseteq Jobs
  BY DEF JobsOf, Held, SlotsOf, Tasks
<1>m. ASSUME NEW S \in SUBSET Slots, Requeue(S)
      PROVE  msg' \in [Jobs -> {"ready", "held", "acked", "dead"}]
  BY <1>m DEF Requeue
<1>s. Held(w) \subseteq Slots
  BY DEF Held, SlotsOf
<1>u. ASSUME task' = Unwired(w) PROVE task' \in [Slots -> Tasks]
  <2>1. \A s \in Slots : [task[s] EXCEPT !.holds = FALSE, !.wired = FALSE] \in Tasks
    BY TaskFields
  <2> QED
    BY <1>u, <2>1 DEF Unwired
<1>1. CASE Closes(w)
  BY <1>1, <1>j, <1>m, <1>s, <1>u DEF Closes
<1>2. CASE IsReplaced(w)
  BY <1>2 DEF IsReplaced
<1>3. CASE Drops(w)
  <2>1. task' \in [Slots -> Tasks]
    <3>1. \A s \in Slots : [task[s] EXCEPT !.holds = FALSE] \in Tasks
      BY TaskFields
    <3> QED
      BY <1>3, <3>1 DEF Drops
  <2> QED
    BY <1>3, <1>h, <1>j, <1>m, <1>s, <2>1 DEF Drops
<1>4. CASE ConnectsAnew(w)
  BY <1>4, <1>h, <1>j, <1>m, <1>s, <1>u DEF ConnectsAnew
<1>5. CASE IsToldToStop(w)
  BY <1>5, <1>h DEF IsToldToStop
<1>6. CASE Dies(w)
  <2>1. JobsOf({s \in Held(w) : At(s, "settling")}) \subseteq Jobs
    BY <1>j DEF JobsOf
  <2> QED
    BY <1>6, <1>h, <1>m, <1>s, <2>1, FreeTask DEF Dies
<1> QED
  BY <1>1, <1>2, <1>3, <1>4, <1>5, <1>6 DEF ReplicaStep

(* ... of a user, of a day and of the collector.                           *)
LEMMA OtherTypes ==
  ASSUME TypeOK, UNCHANGED env,
         DayPasses \/ Collector \/ \E j \in Jobs : IsCancelled(j) \/ Completes(j) \/ IsDeleted(j)
  PROVE  TypeOK'
<1> USE DEF TypeOK, StoreTypeOK, At, Job, jobVars, workerVars, storeVars, gcVars
<1>h. \A what : Happens(what) => faults' \in 0..env.most
  BY WorkerAssumption DEF Happens
<1>1. CASE DayPasses
  BY <1>1, <1>h DEF DayPasses, FilesAge
<1>2. CASE Collector
  <2>1. faults' \in 0..env.most
    BY <1>2, <1>h DEF Collector
  <2>2. StoreTypeOK'
    <3>1. ASSUME NEW kind \in {"text", "chunks"}, GcCollects(kind) PROVE StoreTypeOK'
      BY <3>1 DEF GcCollects, Keys
    <3>2. ASSUME NEW d \in Digests, GcDeletes(d) PROVE StoreTypeOK'
      BY <3>2 DEF GcDeletes
    <3> QED
      BY <1>2, <3>1, <3>2 DEF Collector, GcNext, GcStarts, GcScans, GcEnds
  <2> QED
    BY <1>2, <2>1, <2>2 DEF Collector
<1>3. ASSUME NEW j \in Jobs, IsCancelled(j) \/ Completes(j) \/ IsDeleted(j) PROVE TypeOK'
  <2>1. CASE IsCancelled(j) \/ Completes(j)
    BY <1>3, <1>h, <2>1 DEF IsCancelled, Completes
  <2>2. CASE IsDeleted(j)
    <3>1. ref' \in [Keys -> Digests \cup {NoDigest}] /\ reused' \subseteq Keys
      BY <2>2 DEF IsDeleted, DropRefs
    <3> QED
      BY <1>h, <2>2, <3>1 DEF IsDeleted
  <2> QED
    BY <1>3, <2>1, <2>2
<1> QED
  BY <1>1, <1>2, <1>3

---------------------------------------------------------------------------
(* Deliveries.                                                             *)

(* A task that goes on with its job and its delivery disturbs nothing, if  *)
(* it acknowledges only what was handed on or cancelled and leaves the     *)
(* last step only by settling.                                             *)
LEMMA TaskGoesOn ==
  ASSUME Deliveries, NEW s \in Slots, ~At(s, "free"), ~At(s, "settling"),
         \A t \in Slots \ {s} : task'[t] = task[t],
         task'[s].job = Job(s), task'[s].holds = task[s].holds, task'[s].at # "free",
         task'[s].at \in {"cleaning", "settling"} /\ task'[s].verdict = "ack"
             => Job(s) \in announced' \cup waived',
         announced \subseteq announced', waived \subseteq waived',
         UNCHANGED <<env, msg, doc, cut>>
  PROVE  Deliveries'
<1> USE DEF Job, At, Deliveries
<1>1. HeldByOne'
  BY DEF HeldByOne
<1>2. AcksWithReason'
  BY DEF AcksWithReason
<1>3. AckedIsDone'
  BY DEF AckedIsDone
<1>4. Orphaned'
  BY DEF Orphaned
<1>5. RemovedInTime'
  BY DEF RemovedInTime, document
<1> QED
  BY <1>1, <1>2, <1>3, <1>4, <1>5

(* Taking, cleaning up and settling.                                       *)
LEMMA TaskDeliveries ==
  ASSUME TypeOK, Deliveries, NEW s \in Slots, TaskStep(s) \/ Errs(s), UNCHANGED env
  PROVE  Deliveries'
<1> USE DEF Job, At
<1>1. ASSUME NEW j \in Jobs, Takes(s, j) PROVE Deliveries'
  <2>1. task'[s].job = j /\ task'[s].holds /\ task'[s].at = "begun" /\ \A t \in Slots \ {s} : task'[t] = task[t]
    BY <1>1 DEF Takes, TypeOK, Free
  <2>2. \A t \in Slots : task[t].holds => Job(t) # j
    BY <1>1 DEF Takes, Deliveries, HeldByOne
  <2>3. msg' = [msg EXCEPT ![j] = "held"] /\ msg[j] = "ready" /\ At(s, "free")
    BY <1>1 DEF Takes
  <2>4. UNCHANGED <<doc, announced, waived, cut>>
    BY <1>1 DEF Takes
  <2> USE DEF Deliveries
  <2>5. HeldByOne'
    BY <2>1, <2>2, <2>3 DEF HeldByOne, TypeOK
  <2>6. AcksWithReason'
    BY <2>1, <2>4 DEF AcksWithReason
  <2>7. AckedIsDone'
    BY <2>3, <2>4 DEF AckedIsDone, TypeOK
  <2>8. Orphaned'
    BY <2>1, <2>4 DEF Orphaned
  <2>9. RemovedInTime'
    BY <2>1, <2>3, <2>4 DEF RemovedInTime, HeldByOne, TypeOK, document
  <2> QED
    BY <2>5, <2>6, <2>7, <2>8, <2>9
<1>2. CASE Reads(s) \/ Decodes(s) \/ Fetches(s) \/ Converts(s)
  <2>1. /\ \A t \in Slots \ {s} : task'[t] = task[t]
        /\ task'[s].job = task[s].job /\ task'[s].holds = task[s].holds
        /\ task'[s].at \notin {"free", "cleaning", "settling"}
        /\ task[s].at \notin {"free", "settling"}
    BY <1>2 DEF Reads, Decodes, Fetches, Converts, Goes, TypeOK, Tasks
  <2> QED
    BY <1>2, <2>1, TaskGoesOn DEF Reads, Decodes, Fetches, Converts, jobVars
<1>3. CASE Looks(s)
  <2>1. /\ \A t \in Slots \ {s} : task'[t] = task[t]
        /\ task'[s].job = task[s].job /\ task'[s].holds = task[s].holds
        /\ task'[s].at \notin {"free", "cleaning", "settling"}
        /\ task[s].at \notin {"free", "settling"}
    BY <1>3 DEF Looks, TypeOK, Tasks
  <2> QED
    BY <1>3, <2>1, TaskGoesOn DEF Looks, jobVars
<1>4. CASE Describes(s) \/ Reports(s) \/ LooksAgain(s)
  <2>1. /\ \A t \in Slots \ {s} : task'[t] = task[t]
        /\ task'[s].job = task[s].job /\ task'[s].holds = task[s].holds
        /\ task'[s].at \notin {"free", "cleaning", "settling"}
        /\ task[s].at \notin {"free", "settling"}
    BY <1>4 DEF Describes, Reports, LooksAgain, Goes, TypeOK, Tasks
  <2> QED
    BY <1>4, <2>1, TaskGoesOn DEF Describes, Reports, LooksAgain, jobVars
<1>5. CASE Analyzes(s)
  <2>1. /\ \A t \in Slots \ {s} : task'[t] = task[t]
        /\ task'[s].job = task[s].job /\ task'[s].holds = task[s].holds
        /\ task'[s].at \notin {"free", "cleaning", "settling"}
        /\ task[s].at \notin {"free", "settling"}
    BY <1>5 DEF Analyzes, Goes, TypeOK, Tasks
  <2> QED
    BY <1>5, <2>1, TaskGoesOn DEF Analyzes, jobVars
<1>6. CASE Puts(s) \/ Keeps(s)
  <2>1. /\ \A t \in Slots \ {s} : task'[t] = task[t]
        /\ task'[s].job = task[s].job /\ task'[s].holds = task[s].holds
        /\ task'[s].at \notin {"free", "cleaning", "settling"}
        /\ task[s].at \notin {"free", "settling"}
    BY <1>6 DEF Puts, Keeps, TypeOK, Tasks
  <2> QED
    BY <1>6, <2>1, TaskGoesOn DEF Puts, Keeps, jobVars
<1>7. CASE Publishes(s)
  <2>1. /\ \A t \in Slots \ {s} : task'[t] = task[t]
        /\ task'[s].job = task[s].job /\ task'[s].holds = task[s].holds
        /\ task'[s].at = "cleaning"
        /\ task[s].at \notin {"free", "settling"}
    BY <1>7 DEF Publishes, Goes, TypeOK, Tasks
  <2> QED
    BY <1>7, <2>1, TaskGoesOn DEF Publishes
<1>8. CASE FindsCancelled(s)
  <2>1. /\ \A t \in Slots \ {s} : task'[t] = task[t]
        /\ task'[s].job = task[s].job /\ task'[s].holds = task[s].holds
        /\ task'[s].at = "cleaning"
        /\ task[s].at \notin {"free", "settling"}
    BY <1>8 DEF FindsCancelled, Goes, TypeOK, Tasks
  <2> QED
    BY <1>8, <2>1, TaskGoesOn DEF FindsCancelled
<1>9. CASE FindsNoDocument(s) \/ FindsChannelClosed(s) \/ Errs(s)
  <2>1. /\ \A t \in Slots \ {s} : task'[t] = task[t]
        /\ task'[s].job = task[s].job /\ task'[s].holds = task[s].holds
        /\ task'[s].at = "cleaning"
        /\ task'[s].verdict = "reject"
        /\ task[s].at \notin {"free", "settling"}
    BY <1>9 DEF FindsNoDocument, FindsChannelClosed, Errs, FailsJob, TypeOK, Tasks
  <2> QED
    BY <1>9, <2>1, TaskGoesOn DEF FindsNoDocument, FindsChannelClosed, Errs, FailsJob
<1>10. CASE Cleans(s)
  <2>1. task'[s] = [task[s] EXCEPT !.at = "settling"] /\ \A t \in Slots \ {s} : task'[t] = task[t]
    BY <1>10 DEF Cleans, Goes, TypeOK
  <2>2. task'[s].job = task[s].job /\ task'[s].holds = task[s].holds /\ task'[s].at = "settling" /\ task'[s].verdict = task[s].verdict
    BY <2>1 DEF TypeOK, Tasks
  <2>3. doc \ {Job(s)} \subseteq doc' /\ At(s, "cleaning") /\ UNCHANGED <<msg, announced, waived, cut>>
    BY <1>10 DEF Cleans
  <2> USE DEF Deliveries
  <2>4. HeldByOne'
    <3>1. \A t \in Slots : task'[t].holds = task[t].holds /\ task'[t].job = task[t].job
      BY <2>1, <2>2
    <3> QED
      BY <2>3, <3>1 DEF HeldByOne
  <2>5. AcksWithReason' /\ AckedIsDone'
    BY <2>1, <2>2, <2>3 DEF AcksWithReason, AckedIsDone
  <2>6. Orphaned'
    BY <2>1, <2>2, <2>3 DEF Orphaned
  <2>7. RemovedInTime'
    <3> SUFFICES ASSUME NEW j \in Jobs \ (doc' \cup cut), document[j].source = "path", ~(msg[j] \in {"acked", "dead"})
                 PROVE  \E t \in Slots : task'[t].holds /\ task'[t].job = j /\ task'[t].at = "settling"
      BY <2>3 DEF RemovedInTime, document
    <3>1. CASE j = Job(s)
      BY <2>2, <2>3, <3>1 DEF Orphaned
    <3>2. CASE j # Job(s)
      BY <2>1, <2>3, <3>2 DEF RemovedInTime
    <3> QED
      BY <3>1, <3>2
  <2> QED
    BY <2>4, <2>5, <2>6, <2>7
<1>11. CASE Settles(s)
  <2>1. task'[s] = Free /\ \A t \in Slots \ {s} : task'[t] = task[t]
    BY <1>11 DEF Settles, TypeOK
  <2>2. ~task'[s].holds /\ task'[s].at = "free"
    BY <2>1 DEF Free
  <2>3. At(s, "settling") /\ UNCHANGED <<doc, announced, waived, cut>>
    BY <1>11 DEF Settles
  <2>4. CASE ~task[s].holds
    <3>1. msg' = msg
      BY <1>11, <2>4 DEF Settles
    <3> QED
      BY <2>1, <2>2, <2>3, <2>4, <3>1
      DEF Deliveries, HeldByOne, AcksWithReason, AckedIsDone, Orphaned, RemovedInTime, document
  <2>5. CASE task[s].holds
    <3>1. msg' = [msg EXCEPT ![Job(s)] = IF task[s].verdict = "ack" THEN "acked" ELSE "dead"]
      BY <1>11, <2>5 DEF Settles
    <3>2. \A t \in Slots \ {s} : task[t].holds => Job(t) # Job(s)
      BY <2>5 DEF Deliveries, HeldByOne
    <3> USE DEF Deliveries
    <3>3. HeldByOne'
      BY <2>1, <2>2, <3>1, <3>2 DEF HeldByOne, TypeOK, Tasks
    <3>4. AcksWithReason' /\ Orphaned'
      BY <2>1, <2>2, <2>3 DEF AcksWithReason, Orphaned
    <3>5. AckedIsDone'
      BY <2>3, <3>1 DEF AckedIsDone, AcksWithReason, TypeOK
    <3>6. RemovedInTime'
      BY <2>1, <2>2, <2>3, <3>1 DEF RemovedInTime, TypeOK, document
    <3> QED
      BY <3>3, <3>4, <3>5, <3>6
  <2> QED
    BY <2>4, <2>5
<1> QED
  BY <1>1, <1>2, <1>3, <1>4, <1>5, <1>6, <1>7, <1>8, <1>9, <1>10, <1>11 DEF TaskStep

(* Deliveries of a replica go back to their queue, its tasks lose them and *)
(* may die: what is left is a task that had no delivery before.            *)
LEMMA DeliveriesGoBack ==
  ASSUME TypeOK, Deliveries, NEW w \in Workers,
         Requeue(Held(w)),
         \A t \in Slots \ SlotsOf(w) : task'[t] = task[t],
         \A t \in SlotsOf(w) :
            /\ ~task'[t].holds
            /\ \/ task'[t].at = "free"
               \/ /\ task'[t].job = task[t].job /\ task'[t].at = task[t].at
                  /\ task'[t].verdict = task[t].verdict
                  /\ Job(t) \in cut' \/ ~task[t].holds,
         cut \subseteq cut',
         \A t \in Held(w) : At(t, "settling") => Job(t) \in cut',
         UNCHANGED <<env, doc, announced, waived>>
  PROVE  Deliveries'
<1> USE DEF Job, At, Deliveries
<1>h. \A t \in Slots : t \in Held(w) <=> t \in SlotsOf(w) /\ task[t].holds
  BY DEF Held, SlotsOf
<1>s. SlotsOf(w) \subseteq Slots
  BY DEF SlotsOf
<1>k. \A t \in Slots : task'[t].holds => t \notin SlotsOf(w) /\ task'[t] = task[t]
  OBVIOUS
<1>m. \A j \in Jobs : msg'[j] = IF \E t \in Held(w) : task[t].job = j THEN "ready" ELSE msg[j]
  BY DEF Requeue, JobsOf
<1>1. HeldByOne'
  <2> SUFFICES ASSUME NEW t \in Slots, task'[t].holds
               PROVE  /\ msg'[task'[t].job] = "held"
                      /\ \A u \in Slots \ {t} : task'[u].holds => task'[u].job # task'[t].job
    BY DEF HeldByOne
  <2>1. task'[t] = task[t] /\ t \notin Held(w) /\ task[t].job \in Jobs
    BY <1>k, <1>h DEF TypeOK, Tasks
  <2>2. \A u \in Held(w) : task[u].job # task[t].job
    BY <1>h, <2>1 DEF HeldByOne, Held, SlotsOf
  <2> QED
    BY <1>m, <1>k, <2>1, <2>2 DEF HeldByOne
<1>2. AcksWithReason'
  <2> SUFFICES ASSUME NEW t \in Slots, task'[t].at \in {"cleaning", "settling"}, task'[t].verdict = "ack"
               PROVE  task'[t].job \in announced \cup waived
    BY DEF AcksWithReason
  <2>1. CASE t \in SlotsOf(w)
    BY <2>1 DEF AcksWithReason
  <2>2. CASE t \notin SlotsOf(w)
    BY <2>2 DEF AcksWithReason
  <2> QED
    BY <2>1, <2>2
<1>3. AckedIsDone'
  BY <1>m DEF AckedIsDone
<1>4. Orphaned'
  <2> SUFFICES ASSUME NEW t \in Slots, task'[t].at # "free", ~task'[t].holds
               PROVE  task'[t].job \in cut'
    BY DEF Orphaned
  <2>1. CASE t \in SlotsOf(w)
    BY <2>1 DEF Orphaned
  <2>2. CASE t \notin SlotsOf(w)
    BY <2>2 DEF Orphaned
  <2> QED
    BY <2>1, <2>2
<1>5. RemovedInTime'
  <2> SUFFICES ASSUME NEW j \in Jobs \ (doc \cup cut'), document[j].source = "path"
               PROVE  \/ msg'[j] \in {"acked", "dead"}
                      \/ \E t \in Slots : task'[t].holds /\ task'[t].job = j /\ task'[t].at = "settling"
    BY DEF RemovedInTime, document
  <2>1. CASE msg[j] \in {"acked", "dead"}
    <3>1. \A t \in Held(w) : task[t].job # j
      BY <1>h, <1>s, <2>1 DEF HeldByOne, Held
    <3> QED
      BY <1>m, <2>1, <3>1
  <2>2. ASSUME NEW t \in Slots, task[t].holds, task[t].job = j, task[t].at = "settling"
        PROVE  task'[t].holds /\ task'[t].job = j /\ task'[t].at = "settling"
    BY <1>h, <2>2
  <2> QED
    BY <2>1, <2>2 DEF RemovedInTime
<1> QED
  BY <1>1, <1>2, <1>3, <1>4, <1>5

LEMMA ReplicaDeliveries ==
  ASSUME TypeOK, Deliveries, NEW w \in Workers, UNCHANGED env,
         ReplicaStep(w) \/ Drops(w) \/ ConnectsAnew(w) \/ IsToldToStop(w) \/ Dies(w)
  PROVE  Deliveries'
<1> USE DEF Job, At
<1>c. \A t \in Held(w) : task[t].job \in JobsOf(Held(w))
  BY DEF JobsOf, Job
<1>h. \A t \in Slots : t \in Held(w) <=> t \in SlotsOf(w) /\ task[t].holds
  BY DEF Held, SlotsOf
<1>s. SlotsOf(w) \subseteq Slots
  BY DEF SlotsOf
<1>0. ASSUME UNCHANGED <<env, doc, msg, announced, waived, cut, task>> PROVE Deliveries'
  BY <1>0 DEF Deliveries, HeldByOne, AcksWithReason, AckedIsDone, Orphaned, RemovedInTime, document
<1>u. ASSUME task' = Unwired(w), Requeue(Held(w)), cut' = cut \cup JobsOf(Held(w)),
             UNCHANGED <<doc, announced, waived>>
      PROVE  Deliveries'
  <2>1. \A t \in Slots \ SlotsOf(w) : task'[t] = task[t]
    BY <1>u DEF Unwired
  <2>2. \A t \in SlotsOf(w) : /\ ~task'[t].holds
                              /\ task'[t].job = task[t].job /\ task'[t].at = task[t].at
                              /\ task'[t].verdict = task[t].verdict
    <3>1. \A t \in Slots : task[t] \in Tasks
      BY DEF TypeOK
    <3> QED
      BY <3>1, <1>u, <1>s DEF Unwired, Tasks
  <2>3. \A t \in SlotsOf(w) : task[t].job \in cut' \/ ~task[t].holds
    BY <1>u, <1>c, <1>h, <1>s
  <2>4. \A t \in Held(w) : task[t].job \in cut'
    BY <1>u, <1>c
  <2> QED
    BY <1>u, <2>1, <2>2, <2>3, <2>4, DeliveriesGoBack
<1>1. CASE Closes(w)
  BY <1>1, <1>u DEF Closes
<1>2. CASE IsReplaced(w)
  BY <1>2, <1>0 DEF IsReplaced, jobVars
<1>3. CASE Drops(w)
  <2>1. \A t \in Slots \ SlotsOf(w) : task'[t] = task[t]
    BY <1>3, <1>h DEF Drops
  <2>2. \A t \in SlotsOf(w) : /\ ~task'[t].holds
                              /\ task'[t].job = task[t].job /\ task'[t].at = task[t].at
                              /\ task'[t].verdict = task[t].verdict
    BY <1>3, <1>h, <1>s DEF Drops, TypeOK, Tasks
  <2>3. cut' = cut \cup JobsOf(Held(w)) /\ Requeue(Held(w)) /\ UNCHANGED <<doc, announced, waived>>
    BY <1>3 DEF Drops
  <2>4. \A t \in SlotsOf(w) : task[t].job \in cut' \/ ~task[t].holds
    BY <2>3, <1>c, <1>h, <1>s
  <2>5. \A t \in Held(w) : task[t].job \in cut'
    BY <2>3, <1>c
  <2> QED
    BY <2>1, <2>2, <2>3, <2>4, <2>5, DeliveriesGoBack
<1>4. CASE ConnectsAnew(w)
  BY <1>4, <1>u DEF ConnectsAnew
<1>5. CASE IsToldToStop(w)
  BY <1>5, <1>0 DEF IsToldToStop, jobVars
<1>6. CASE Dies(w)
  <2>1. \A t \in Slots \ SlotsOf(w) : task'[t] = task[t]
    BY <1>6 DEF Dies
  <2>2. \A t \in SlotsOf(w) : ~task'[t].holds /\ task'[t].at = "free"
    BY <1>6, <1>s DEF Dies, Free
  <2>3. \A t \in Held(w) : task[t].at = "settling" => task[t].job \in cut'
    BY <1>6 DEF Dies, JobsOf
  <2>4. cut \subseteq cut' /\ Requeue(Held(w)) /\ UNCHANGED <<doc, announced, waived>>
    BY <1>6 DEF Dies
  <2> QED
    BY <2>1, <2>2, <2>3, <2>4, DeliveriesGoBack
<1> QED
  BY <1>1, <1>2, <1>3, <1>4, <1>5, <1>6 DEF ReplicaStep

LEMMA OtherDeliveries ==
  ASSUME Deliveries, UNCHANGED env,
         DayPasses \/ Collector \/ \E j \in Jobs : IsCancelled(j) \/ Completes(j) \/ IsDeleted(j)
  PROVE  Deliveries'
<1>1. UNCHANGED <<env, doc, msg, announced, waived, cut, task>>
  BY DEF DayPasses, Collector, IsCancelled, Completes, IsDeleted, jobVars, workerVars
<1> QED
  BY <1>1 DEF Deliveries, HeldByOne, AcksWithReason, AckedIsDone, Orphaned, RemovedInTime, document, Job, At

---------------------------------------------------------------------------
(* References.                                                             *)

(* Whoever leaves the store alone and puts nothing disturbs nothing.       *)
LEMMA StoreLeftAlone ==
  ASSUME References, UNCHANGED <<env, storeVars>>,
         \A t \in Slots : task'[t].at = "put" => task'[t] = task[t]
  PROVE  References'
<1> USE DEF References, storeVars, gcVars
<1>1. PutIsFresh'
  BY DEF PutIsFresh, At, Digest, Job, Kind, document
<1>2. CollectorSees' /\ OrphansAreOld' /\ DanglingWasOld'
  BY DEF CollectorSees, OrphansAreOld, DanglingWasOld, Resolves
<1> QED
  BY <1>1, <1>2

(* A put makes a file, or finds one; it makes none fresh that was old.     *)
LEMMA PutsReferences ==
  ASSUME TypeOK, References, NEW s \in Slots, Puts(s), UNCHANGED env
  PROVE  References'
<1> USE DEF References
<1>1. UNCHANGED <<ref, reused, gc, patterns, live, orphans, doc, msg, status, announced, cut>>
  BY DEF Puts, jobVars, gcVars
<1>2. task'[s].old = (file[Digest(s)] = "old") /\ task'[s].job = task[s].job
      /\ task'[s].kept = task[s].kept /\ \A t \in Slots \ {s} : task'[t] = task[t]
  BY DEF Puts, TypeOK, Tasks
<1>3. task[s].kept \in 0..1 /\ ~At(s, "free")
  BY DEF Puts, TypeOK, Tasks, Kinds, At
<1>4. Digest(s) \in Digests
  BY <1>3, DigestOfTask
<1>5. /\ \A d \in Digests : file[d] # "none" => file'[d] = file[d]
      /\ \A d \in Digests : file[d] = "none" => file'[d] \in {"none", "fresh"}
      /\ file'[Digest(s)] # "none"
  BY <1>4 DEF Puts, PutArtifact, TypeOK, StoreTypeOK
<1>6. file' \in [Digests -> {"none", "fresh", "old"}]
  BY <1>4 DEF Puts, PutArtifact, TypeOK, StoreTypeOK
<1>7. Digest(s)' = Digest(s) /\ \A t \in Slots \ {s} : Digest(t)' = Digest(t)
  BY <1>2 DEF Digest, Kind, Job, document
<1>8. PutIsFresh'
  <2> SUFFICES ASSUME NEW t \in Slots, At(t, "put")'
               PROVE  task'[t].old \/ file'[Digest(t)'] = "fresh"
    BY DEF PutIsFresh
  <2>1. CASE t = s
    BY <1>2, <1>4, <1>5, <1>6, <1>7, <2>1
  <2>2. CASE t # s
    <3>1. At(t, "put") /\ (task[t].old \/ file[Digest(t)] = "fresh")
      BY <1>2, <2>2 DEF At, PutIsFresh
    <3>2. Digest(t) \in Digests
      BY <3>1, DigestOfTask DEF TypeOK, Tasks, At
    <3> QED
      BY <1>2, <1>5, <1>7, <2>2, <3>1, <3>2
  <2> QED
    BY <2>1, <2>2
<1>9. CollectorSees' /\ OrphansAreOld' /\ DanglingWasOld'
  BY <1>1, <1>5 DEF CollectorSees, OrphansAreOld, DanglingWasOld, Resolves, TypeOK, StoreTypeOK
<1> QED
  BY <1>8, <1>9

(* A SET names what is fresh, or is remembered for the old file it names.  *)
LEMMA KeepsReferences ==
  ASSUME TypeOK, References, NEW s \in Slots, Keeps(s), UNCHANGED env
  PROVE  References'
<1> USE DEF References
<1>1. UNCHANGED <<file, gc, patterns, live, orphans>>
  BY DEF Keeps, gcVars
<1>2. At(s, "put") /\ task[s].kept \in 0..1 /\ ~At(s, "free")
  BY DEF Keeps, TypeOK, Tasks, At
<1> DEFINE k == <<Job(s), Kind(s)>>
           d == Digest(s)
<1>3. d \in Digests /\ k \in Keys /\ d # NoDigest
  BY <1>2, DigestOfTask
<1>4. /\ ref'[k] = d /\ \A x \in Keys \ {k} : ref'[x] = ref[x]
      /\ \A x \in Keys \ {k} : x \in reused' <=> x \in reused
      /\ task[s].old => k \in reused'
  BY <1>3 DEF Keeps, SetRef, TypeOK, StoreTypeOK
<1>5. task[s].old \/ file[d] = "fresh"
  BY <1>2 DEF PutIsFresh
<1>6. k \in reused' \/ file'[ref'[k]] = "fresh"
  BY <1>1, <1>4, <1>5
<1> HIDE DEF k, d
<1>7. PutIsFresh'
  <2>1. \A t \in Slots : task'[t].at = "put" => task'[t] = task[t]
    BY DEF Keeps, TypeOK, Tasks
  <2> QED
    BY <1>1, <2>1 DEF PutIsFresh, At, Digest, Job, Kind, document
<1>8. CollectorSees'
  BY <1>1, <1>4, <1>6 DEF CollectorSees
<1>9. OrphansAreOld'
  BY <1>1 DEF OrphansAreOld
<1>10. DanglingWasOld'
  BY <1>1, <1>4, <1>6 DEF DanglingWasOld, Resolves
<1> QED
  BY <1>7, <1>8, <1>9, <1>10

(* The collector removes what is old and was not referenced when it looked.*)
LEMMA CollectorReferences ==
  ASSUME TypeOK, References, Collector, UNCHANGED env
  PROVE  References'
<1> USE DEF References, TypeOK, StoreTypeOK
<1>0. UNCHANGED <<task, ref, reused>>
  BY DEF Collector, GcNext, GcStarts, GcScans, GcEnds, GcCollects, GcDeletes, workerVars
<1>p. UNCHANGED file => PutIsFresh'
  BY <1>0 DEF PutIsFresh, At, Digest, Job, Kind, document
<1>d. UNCHANGED file => DanglingWasOld'
  BY <1>0 DEF DanglingWasOld, Resolves
<1>1. CASE GcStarts
  BY <1>1, <1>p, <1>d DEF GcStarts, CollectorSees, OrphansAreOld
<1>2. CASE GcScans
  BY <1>0, <1>2, <1>p, <1>d DEF GcScans, CollectorSees, OrphansAreOld
<1>3. CASE GcEnds
  BY <1>3, <1>p, <1>d DEF GcEnds, CollectorSees, OrphansAreOld
<1>4. ASSUME NEW kind \in {"text", "chunks"}, GcCollects(kind) PROVE References'
  <2>1. \A x \in Keys : x[2] = kind /\ ref[x] # NoDigest => ref[x] \in live'
    BY <1>4 DEF GcCollects
  <2>2. gc = "collect" /\ gc' = "collect" /\ file' = file /\ live \subseteq live' /\ patterns' = patterns \cup {kind}
    BY <1>4 DEF GcCollects
  <2>3. CollectorSees'
    BY <1>0, <2>1, <2>2 DEF CollectorSees
  <2>4. OrphansAreOld'
    BY <2>2 DEF OrphansAreOld
  <2> QED
    BY <1>p, <1>d, <2>2, <2>3, <2>4
<1>5. ASSUME NEW d \in Digests, GcDeletes(d) PROVE References'
  <2>1. gc = "delete" /\ d \in orphans /\ orphans' = orphans \ {d} /\ UNCHANGED <<gc, patterns, live>>
    BY <1>5 DEF GcDeletes
  <2>2. file[d] = "old" /\ d \notin live /\ patterns = {"text", "chunks"}
    BY <2>1 DEF OrphansAreOld
  <2>3. file'[d] = "none" /\ \A e \in Digests \ {d} : file'[e] = file[e]
    BY <1>5 DEF GcDeletes
  <2>4. PutIsFresh'
    <3> SUFFICES ASSUME NEW t \in Slots, At(t, "put"), ~task[t].old
                 PROVE  file'[Digest(t)] = "fresh"
      BY <1>0 DEF PutIsFresh, At, Digest, Job, Kind, document
    <3>1. Digest(t) \in Digests
      BY DigestOfTask DEF Tasks, At
    <3>2. file[Digest(t)] = "fresh"
      BY DEF PutIsFresh
    <3> QED
      BY <2>2, <2>3, <3>1, <3>2
  <2>5. CollectorSees'
    BY <1>0, <2>1, <2>2, <2>3 DEF CollectorSees
  <2>6. OrphansAreOld'
    BY <2>1, <2>3 DEF OrphansAreOld
  <2>7. DanglingWasOld'
    <3> SUFFICES ASSUME NEW x \in Keys, ref[x] = d, ref[x] # NoDigest PROVE x \in reused
      BY <1>0, <2>3 DEF DanglingWasOld, Resolves
    <3>1. x[2] \in patterns
      BY <2>2 DEF Keys
    <3> QED
      BY <2>1, <2>2, <3>1 DEF CollectorSees
  <2> QED
    BY <2>4, <2>5, <2>6, <2>7
<1> QED
  BY <1>1, <1>2, <1>3, <1>4, <1>5, <1>p, <1>d DEF Collector, GcNext

LEMMA TaskReferences ==
  ASSUME TypeOK, References, NEW s \in Slots, TaskStep(s) \/ Errs(s), UNCHANGED env
  PROVE  References'
<1>1. CASE Puts(s)
  BY <1>1, PutsReferences
<1>2. CASE Keeps(s)
  BY <1>2, KeepsReferences
<1>3. CASE ~Puts(s) /\ ~Keeps(s)
  <2>1. UNCHANGED storeVars
    BY <1>3 DEF TaskStep, Takes, Reads, Decodes, Fetches, Converts, Looks, Describes, Analyzes, Reports,
       LooksAgain, Publishes, FindsCancelled, FindsNoDocument, FindsChannelClosed, Cleans, Settles, Errs, FailsJob
  <2>2. task'[s].at # "put" /\ \A t \in Slots \ {s} : task'[t] = task[t]
    <3>1. ASSUME NEW j \in Jobs, Takes(s, j) PROVE task'[s].at # "put" /\ \A t \in Slots \ {s} : task'[t] = task[t]
      BY <3>1 DEF Takes, TypeOK, Free
    <3>2. CASE \/ Reads(s) \/ Decodes(s) \/ Fetches(s) \/ Converts(s) \/ Describes(s) \/ Analyzes(s)
               \/ Reports(s) \/ LooksAgain(s) \/ Publishes(s) \/ FindsCancelled(s) \/ Cleans(s)
      BY <3>2 DEF Reads, Decodes, Fetches, Converts, Describes, Analyzes, Reports, LooksAgain, Publishes,
         FindsCancelled, Cleans, Goes, TypeOK, Tasks
    <3>3. CASE Looks(s)
      BY <3>3 DEF Looks, TypeOK, Tasks
    <3>4. CASE FindsNoDocument(s) \/ FindsChannelClosed(s) \/ Errs(s)
      BY <3>4 DEF FindsNoDocument, FindsChannelClosed, Errs, FailsJob, TypeOK, Tasks
    <3>5. CASE Settles(s)
      BY <3>5 DEF Settles, Free, TypeOK
    <3> QED
      BY <1>3, <3>1, <3>2, <3>3, <3>4, <3>5 DEF TaskStep
  <2> QED
    BY <2>1, <2>2, StoreLeftAlone
<1> QED
  BY <1>1, <1>2, <1>3

LEMMA ReplicaReferences ==
  ASSUME TypeOK, References, NEW w \in Workers, UNCHANGED env,
         ReplicaStep(w) \/ Drops(w) \/ ConnectsAnew(w) \/ IsToldToStop(w) \/ Dies(w)
  PROVE  References'
<1>1. UNCHANGED storeVars
  BY DEF ReplicaStep, Closes, IsReplaced, Drops, ConnectsAnew, IsToldToStop, Dies
(* A slot at "put" that is cut off keeps what PutIsFresh speaks of.        *)
<1>2. \A t \in Slots : task'[t].at = "put" =>
          /\ task[t].at = "put" /\ task'[t].job = task[t].job
          /\ task'[t].kept = task[t].kept /\ task'[t].old = task[t].old
  <2>1. CASE Closes(w) \/ ConnectsAnew(w)
    <3>1. task' = Unwired(w)
      BY <2>1 DEF Closes, ConnectsAnew
    <3>2. \A t \in Slots : task[t] \in Tasks
      BY DEF TypeOK
    <3> QED
      BY <3>1, <3>2 DEF Unwired, Tasks
  <2>2. CASE IsReplaced(w) \/ IsToldToStop(w)
    BY <2>2 DEF IsReplaced, IsToldToStop
  <2>3. CASE Drops(w)
    BY <2>3 DEF Drops, TypeOK, Tasks
  <2>4. CASE Dies(w)
    BY <2>4 DEF Dies, Free
  <2> QED
    BY <2>1, <2>2, <2>3, <2>4 DEF ReplicaStep
<1>3. PutIsFresh'
  BY <1>1, <1>2 DEF References, PutIsFresh, At, Digest, Job, Kind, document, storeVars
<1>4. CollectorSees' /\ OrphansAreOld' /\ DanglingWasOld'
  BY <1>1 DEF References, CollectorSees, OrphansAreOld, DanglingWasOld, Resolves, storeVars, gcVars
<1> QED
  BY <1>3, <1>4 DEF References

LEMMA OtherReferences ==
  ASSUME TypeOK, References, UNCHANGED env,
         DayPasses \/ Collector \/ \E j \in Jobs : IsCancelled(j) \/ Completes(j) \/ IsDeleted(j)
  PROVE  References'
<1>1. CASE DayPasses
  BY <1>1 DEF DayPasses, FilesAge, References, PutIsFresh, CollectorSees, OrphansAreOld, DanglingWasOld, Resolves,
     gcVars, workerVars, At, TypeOK, StoreTypeOK
<1>2. CASE Collector
  BY <1>2, CollectorReferences
<1>3. ASSUME NEW j \in Jobs, IsCancelled(j) \/ Completes(j) PROVE References'
  BY <1>3, StoreLeftAlone DEF IsCancelled, Completes, workerVars
<1>4. ASSUME NEW j \in Jobs, IsDeleted(j) PROVE References'
  <2>1. UNCHANGED <<file, gc, patterns, live, orphans, task>>
    BY <1>4 DEF IsDeleted, workerVars, gcVars
  <2>2. \A x \in Keys : ref'[x] # NoDigest => ref'[x] = ref[x] /\ (x \in reused => x \in reused')
    BY <1>4 DEF IsDeleted, DropRefs
  <2>3. PutIsFresh' /\ OrphansAreOld'
    BY <2>1 DEF References, PutIsFresh, OrphansAreOld, At, Digest, Job, Kind, document
  <2>4. CollectorSees' /\ DanglingWasOld'
    BY <2>1, <2>2 DEF References, CollectorSees, DanglingWasOld, Resolves
  <2> QED
    BY <2>3, <2>4 DEF References
<1> QED
  BY <1>1, <1>2, <1>3, <1>4

---------------------------------------------------------------------------
LEMMA NextIInv == IInv /\ [Next]_vars => IInv'
<1> SUFFICES ASSUME IInv, [Next]_vars PROVE IInv'
  OBVIOUS
<1>i. TypeOK /\ Deliveries /\ References
  BY DEF IInv, Deliveries, References
<1>1. ASSUME UNCHANGED env, NEW s \in Slots, TaskStep(s) \/ Errs(s) PROVE TypeOK' /\ Deliveries' /\ References'
  BY <1>i, <1>1, TaskTypes, TaskDeliveries, TaskReferences
<1>2. ASSUME UNCHANGED env, NEW w \in Workers,
             ReplicaStep(w) \/ Drops(w) \/ ConnectsAnew(w) \/ IsToldToStop(w) \/ Dies(w)
      PROVE  TypeOK' /\ Deliveries' /\ References'
  BY <1>i, <1>2, ReplicaTypes, ReplicaDeliveries, ReplicaReferences
<1>3. ASSUME UNCHANGED env,
             DayPasses \/ Collector \/ \E j \in Jobs : IsCancelled(j) \/ Completes(j) \/ IsDeleted(j)
      PROVE  TypeOK' /\ Deliveries' /\ References'
  BY <1>i, <1>3, OtherTypes, OtherDeliveries, OtherReferences
<1>4. CASE UNCHANGED vars
  <2>1. TypeOK'
    BY <1>4, <1>i DEF vars, jobVars, workerVars, storeVars, gcVars, TypeOK, StoreTypeOK
  <2>2. Deliveries'
    BY <1>4, <1>i DEF vars, jobVars, workerVars, Deliveries, HeldByOne, AcksWithReason, AckedIsDone,
       Orphaned, RemovedInTime, document, Job, At
  <2>3. References'
    BY <1>4, <1>i, StoreLeftAlone DEF vars, workerVars
  <2> QED
    BY <2>1, <2>2, <2>3 DEF IInv, Deliveries, References
<1> QED
  BY <1>1, <1>2, <1>3, <1>4 DEF Next, IInv, Deliveries, References

(* The state of workers, store and collector is what it should be (TypeOK),*)
(* deliveries are held by one task each, and references are protected.     *)
THEOREM Invariance == Spec => []IInv
  BY InitIInv, NextIInv, PTL DEF Spec

(* No message of a document is acknowledged whose job does not go on or is *)
(* not cancelled, however connections drop and replicas stop or die        *)
(* (_process_message_async, _run).                                         *)
THEOREM AckedSafe == Spec => []AckedIsDone
<1>1. IInv => AckedIsDone
  BY DEF IInv
<1> QED
  BY <1>1, Invariance, PTL

(* A message that can be delivered has its document, unless its handler    *)
(* was cut off (the finally clause of _process_message_async).             *)
THEOREM DocumentSafe == Spec => []DocumentThere
<1>1. IInv => DocumentThere
  BY DEF IInv, DocumentThere, RemovedInTime, HeldByOne, document
<1> QED
  BY <1>1, Invariance, PTL

(* The collector leaves a reference dangling only where put met a file     *)
(* that was already old (FSStore.put, artifact_gc.gc).                     *)
THEOREM CollectionSafe == Spec => []DanglingWasOld
<1>1. IInv => DanglingWasOld
  BY DEF IInv
<1> QED
  BY <1>1, Invariance, PTL
=============================================================================
