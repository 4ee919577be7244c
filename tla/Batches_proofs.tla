---------------------------- MODULE Batches_proofs ----------------------------
(***************************************************************************)
(* The batch is announced after all of its jobs, and admission keeps its   *)
(* limit but for simultaneous requests, for any number of documents and of *)
(* uploads, any limit and any number of failures: proofs.                  *)
(*                                                                         *)
(* The first rests on the exactness of the Redis counter: it is the number *)
(* of the jobs that were counted, plus the times one was counted again.    *)
(* The second on the uploads on their way, which nothing counts but the    *)
(* places of the handlers.                                                 *)
(***************************************************************************)
EXTENDS Batches, FiniteSetTheorems, TLAPS

USE DEF Jobs, Doing

LEMMA InitIInv == Init => IInv
<1> SUFFICES ASSUME Init PROVE IInv
  OBVIOUS
<1> USE DEF Init
<1>0. env.most \in Nat /\ MaxConcurrentJobs \in Nat /\ Handlers \in Nat \ {0}
  BY BatchesAssumption
<1>1. TypeOK
  <2>1. happened \subseteq env.may /\ faults \in 0..env.most
    BY <1>0
  <2>2. at \in [Jobs -> {"new"}] /\ status \in [Jobs -> {"none"}]
    OBVIOUS
  <2> QED
    BY <2>1, <2>2 DEF TypeOK, Nobody
<1>2. CountIsExact /\ AnnouncedAfterAll
  BY FS_EmptySet DEF CountIsExact, AnnouncedAfterAll, Nobody
<1>3. AdmittedBound
  <2>1. (active \cap Uploads) \cup InFlight = {}
    BY BatchesAssumption DEF InFlight
  <2> QED
    BY <2>1, <1>0, FS_EmptySet DEF AdmittedBound
<1> QED
  BY <1>1, <1>2, <1>3 DEF IInv

---------------------------------------------------------------------------
(* Types.                                                                  *)

(* A failure is one of those that may happen, and within their number.     *)
LEMMA FaultsCounted ==
  ASSUME TypeOK, env' = env, Calm \/ (\E w \in env.may : Happens(w))
  PROVE  happened' \subseteq env'.may /\ faults' \in 0..env'.most
<1>1. env.most \in Nat
  BY BatchesAssumption DEF TypeOK
<1> QED
  BY <1>1 DEF TypeOK, Happens, Calm

LEMMA AnswersAre ==
  ASSUME NEW ok \in BOOLEAN, Answers(ok)
  PROVE  Calm \/ (\E w \in env.may : Happens(w))
  BY DEF Answers, Happens

LEMMA TypeStep ==
  ASSUME TypeOK, Next
  PROVE  TypeOK'
<1> USE DEF TypeOK, Accepted
<1>e. env' = env
  BY DEF Next
<1>a. Accepted \subseteq Documents /\ env.uploads \subseteq Uploads /\ Cardinality(Accepted) \in Nat
  <2>1. Accepted \subseteq Documents /\ env.uploads \subseteq Uploads
    BY BatchesAssumption
  <2> QED
    BY <2>1, BatchesAssumption, FS_Subset, FS_CardinalityType
<1> HIDE DEF Accepted
<1>1. CASE CreatesBatch
  BY <1>1, <1>e, <1>a, AnswersAre, FaultsCounted DEF CreatesBatch, countVars
<1>2. CASE RefusesBatch
  <2>1. Calm \/ (\E w \in env.may : Happens(w))
    BY <1>2, AnswersAre DEF RefusesBatch
  <2> QED
    BY <1>2, <2>1, <1>e, FaultsCounted DEF RefusesBatch, countVars
<1>3. CASE AnswersBatch
  BY <1>3, <1>e DEF AnswersBatch, countVars
<1>4. CASE ClientLeaves
  BY <1>4, <1>e, FaultsCounted DEF ClientLeaves, countVars, Happens
<1>5. ASSUME NEW j \in Documents, CreateStep(j) PROVE TypeOK'
  <2> USE DEF batchVars, countVars, Goes
  <2>1. CASE SetsPending(j)
    <3>1. PICK ok \in BOOLEAN : Answers(ok) /\ status' = IF ok THEN [status EXCEPT ![j] = "pending"] ELSE status
      BY <2>1 DEF SetsPending
    <3>2. Calm \/ (\E w \in env.may : Happens(w))
      BY <3>1, AnswersAre
    <3> QED
      BY <2>1, <3>1, <3>2, <1>e, FaultsCounted DEF SetsPending
  <2>2. CASE SetsCreated(j)
    <3>1. PICK ok \in BOOLEAN : Answers(ok) /\ active' = IF ok THEN active \cup {j} ELSE active
      BY <2>2 DEF SetsCreated
    <3>2. Calm \/ (\E w \in env.may : Happens(w))
      BY <3>1, AnswersAre
    <3> QED
      BY <2>2, <3>1, <3>2, <1>e, FaultsCounted DEF SetsCreated
  <2>3. CASE Links(j)
    <3>1. PICK ok \in BOOLEAN : Answers(ok) /\ linked' = IF ok THEN linked \cup {j} ELSE linked
      BY <2>3 DEF Links
    <3>2. Calm \/ (\E w \in env.may : Happens(w))
      BY <3>1, AnswersAre
    <3> QED
      BY <2>3, <3>1, <3>2, <1>e, FaultsCounted DEF Links
  <2>4. CASE Joins(j)
    <3>1. PICK ok \in BOOLEAN : Answers(ok) /\ members' = IF ok THEN members \cup {j} ELSE members
      BY <2>4 DEF Joins
    <3>2. Calm \/ (\E w \in env.may : Happens(w))
      BY <3>1, AnswersAre
    <3> QED
      BY <2>4, <3>1, <3>2, <1>e, FaultsCounted DEF Joins
  <2>5. CASE Publishes(j)
    BY <2>5, <1>e DEF Publishes
  <2>6. CASE CannotPublish(j)
    <3>1. Calm \/ (\E w \in env.may : Happens(w))
      BY <2>6 DEF CannotPublish, Happens
    <3>2. status' \in [Jobs -> {"none", "pending", "completed", "failed"}] /\ active' \subseteq Jobs
      BY <2>6 DEF CannotPublish
    <3> QED
      BY <2>6, <3>1, <3>2, <1>e, FaultsCounted DEF CannotPublish
  <2> QED
    BY <1>5, <2>1, <2>2, <2>3, <2>4, <2>5, <2>6 DEF CreateStep
<1>6. ASSUME NEW j \in Documents, Fails(j) \/ RunsAgain(j) PROVE TypeOK'
  BY <1>6, <1>e, FaultsCounted DEF Fails, RunsAgain, batchVars, countVars, Goes, Happens
<1>7. ASSUME NEW u \in Uploads, IsAdmitted(u) PROVE TypeOK'
  <2>1. Calm \/ (\E w \in env.may : Happens(w))
    BY <1>7 DEF IsAdmitted, Happens
  <2> QED
    BY <1>7, <2>1, <1>e, FaultsCounted DEF IsAdmitted, batchVars, countVars
<1>8. ASSUME NEW u \in Uploads, IsPending(u) \/ IsCreated(u) PROVE TypeOK'
  BY <1>8, <1>e DEF IsPending, IsCreated, batchVars, countVars, Goes
<1>9. ASSUME NEW j \in Jobs, Finishes(j) \/ IsRetired(j) PROVE TypeOK'
  BY <1>9, <1>e DEF Finishes, IsRetired, batchVars, countVars, Goes
<1>10. CASE CompletionStep
  <2> USE DEF batchVars, countVars, Then, Nobody
  <2>1. CASE Marks
    BY <2>1, <1>e DEF Marks
  <2>2. CASE Counts
    BY <2>2, <1>e DEF Counts
  <2>3. CASE Checks
    BY <2>3, <1>e DEF Checks
  <2>4. CASE Announces
    BY <2>4, <1>e DEF Announces
  <2>5. ASSUME NEW j \in Jobs, Receives(j) PROVE TypeOK'
    BY <2>5, <1>e DEF Receives
  <2> QED
    BY <1>10, <2>1, <2>2, <2>3, <2>4, <2>5 DEF CompletionStep
<1>11. CASE FinalizeFails
  <2>1. Calm \/ (\E w \in env.may : Happens(w))
    BY <1>11 DEF FinalizeFails, Happens
  <2> QED
    BY <1>11, <2>1, <1>e, FaultsCounted DEF FinalizeFails, batchVars, countVars, Nobody
<1>12. CASE CompletionDies
  <2>1. Calm \/ (\E w \in env.may : Happens(w))
    BY <1>12 DEF CompletionDies, Happens
  <2> QED
    BY <1>12, <2>1, <1>e, FaultsCounted DEF CompletionDies, batchVars, countVars, Nobody
<1> QED
  BY <1>1, <1>2, <1>3, <1>4, <1>5, <1>6, <1>7, <1>8, <1>9, <1>10, <1>11, <1>12 DEF Next

---------------------------------------------------------------------------
(* The counter.                                                            *)

(* No document of a batch is under way before its total is written.        *)
LEMMA OnlyWhenOpen ==
  ASSUME TypeOK, CountIsExact, NEW j \in Documents, at[j] # "new"
  PROVE  request \in {"open", "answered"}
  BY DEF CountIsExact, TypeOK

LEMMA CountsTheJob ==
  ASSUME TypeOK, CountIsExact, AnnouncedAfterAll, Counts, env' = env, comp.job \in linked
  PROVE  CountIsExact' /\ AnnouncedAfterAll'
<1> USE DEF Counts, Then, batchVars, Accepted
<1>1. IsFiniteSet(counted) /\ Cardinality(counted) \in Nat
  BY BatchesAssumption, FS_Subset, FS_CardinalityType DEF TypeOK
<1>2. counter' = Cardinality(counted') + recounts'
  <2>1. CASE comp.job \in counted
    <3>1. counted' = counted
      BY <2>1
    <3> QED
      BY <2>1, <3>1, <1>1 DEF CountIsExact, TypeOK
  <2>2. CASE comp.job \notin counted
    BY <2>2, <1>1, FS_AddElement DEF CountIsExact, TypeOK
  <2> QED
    BY <2>1, <2>2
<1>3. sent' > 0 => recounts' # 0
  <2> SUFFICES ASSUME sent > 0 PROVE recounts' # 0
    OBVIOUS
  <2>1. CASE recounts = 0
    BY <2>1 DEF AnnouncedAfterAll, CountIsExact, TypeOK
  <2>2. CASE recounts # 0
    BY <2>2 DEF TypeOK
  <2> QED
    BY <2>1, <2>2
<1>4. CountIsExact'
  <2>1. comp'.job = comp.job /\ comp'.job \in counted'
    BY DEF TypeOK, Nobody
  <2>2. recounts' = 0 => sent' = 0
    BY <1>3 DEF TypeOK
  <2> QED
    BY <1>2, <2>1, <2>2 DEF CountIsExact, TypeOK
<1> QED
  BY <1>3, <1>4 DEF AnnouncedAfterAll

(* The webhook is sent at the count of the last job, of all of them.       *)
LEMMA ChecksAfterAll ==
  ASSUME TypeOK, CountIsExact, AnnouncedAfterAll, Checks, env' = env
  PROVE  CountIsExact' /\ AnnouncedAfterAll'
<1> USE DEF Checks, Then, batchVars, Accepted
<1>0. Accepted \subseteq Documents
  BY BatchesAssumption DEF TypeOK
<1>1. IsFiniteSet(Accepted) /\ Cardinality(Accepted) \in Nat
  BY <1>0, BatchesAssumption, FS_Subset, FS_CardinalityType
<1>2. counted \subseteq Accepted /\ total = Cardinality(Accepted) /\ (recounts = 0 => sent = 0)
  BY DEF CountIsExact, TypeOK
<1>3. counted \in SUBSET Accepted /\ Cardinality(counted) \in Nat
  BY <1>1, <1>2, FS_Subset, FS_CardinalityType
<1>4. ASSUME recounts = 0, counter >= total PROVE counted = Accepted /\ sent' = 1
  <2>1. Cardinality(counted) >= Cardinality(Accepted)
    BY <1>2, <1>3, <1>4 DEF CountIsExact
  <2> HIDE DEF Accepted
  <2>2. counted = Accepted
    BY <2>1, <1>1, <1>3, FS_Subset
  <2> QED
    BY <2>2, <1>2, <1>4 DEF TypeOK
<1>5. CountIsExact'
  BY DEF CountIsExact, TypeOK
<1>6. AnnouncedAfterAll'
  BY <1>2, <1>4 DEF AnnouncedAfterAll, TypeOK
<1> QED
  BY <1>5, <1>6

LEMMA CountStep ==
  ASSUME TypeOK, CountIsExact, AnnouncedAfterAll, Next
  PROVE  CountIsExact' /\ AnnouncedAfterAll'
<1>e. env' = env
  BY DEF Next
<1> USE DEF Accepted
<1>s. ASSUME UNCHANGED <<counter, sent, counted, recounts, total>>, linked' \subseteq Accepted,
             request' = request,
             request \in {"open", "answered"} \/ (linked' = {} /\ \A j \in Documents : at'[j] = "new"),
             comp'.next = "check" => comp' = comp
      PROVE  CountIsExact' /\ AnnouncedAfterAll'
  BY <1>s, <1>e DEF CountIsExact, AnnouncedAfterAll, TypeOK
<1>d. ASSUME NEW j \in Documents, at[j] # "new" PROVE request \in {"open", "answered"}
  BY <1>d, OnlyWhenOpen
<1>o. request \in {"open", "answered"} \/ (linked = {} /\ \A j \in Documents : at[j] = "new")
  BY DEF CountIsExact
<1>l. linked \subseteq Accepted
  BY DEF CountIsExact
<1>1. CASE CreatesBatch
  BY <1>1, <1>e DEF CreatesBatch, countVars, CountIsExact, AnnouncedAfterAll, TypeOK
<1>2. CASE RefusesBatch
  BY <1>2, <1>e DEF RefusesBatch, countVars, CountIsExact, AnnouncedAfterAll, TypeOK
<1>3. CASE AnswersBatch
  BY <1>3, <1>e DEF AnswersBatch, countVars, CountIsExact, AnnouncedAfterAll, TypeOK
<1>4. CASE ClientLeaves
  BY <1>4, <1>s, <1>l, <1>o DEF ClientLeaves, countVars
<1>5. ASSUME NEW j \in Documents, CreateStep(j) PROVE CountIsExact' /\ AnnouncedAfterAll'
  <2> USE DEF Goes, batchVars, countVars
  <2>1. CASE SetsPending(j)
    BY <2>1, <1>s, <1>l DEF SetsPending
  <2>2. CASE Links(j)
    <3>1. linked' \subseteq Accepted
      BY <2>2, <1>l DEF Links
    <3>2. request \in {"open", "answered"}
      BY <2>2, <1>d DEF Links
    <3> QED
      BY <2>2, <3>1, <3>2, <1>s DEF Links
  <2>3. CASE SetsCreated(j) \/ Joins(j) \/ Publishes(j) \/ CannotPublish(j)
    <3>1. request \in {"open", "answered"}
      BY <2>3, <1>d DEF SetsCreated, Joins, Publishes, CannotPublish
    <3>2. UNCHANGED <<counter, sent, counted, recounts, total, linked, request, comp>>
      BY <2>3 DEF SetsCreated, Joins, Publishes, CannotPublish
    <3> QED
      BY <3>1, <3>2, <1>s, <1>l
  <2> QED
    BY <1>5, <2>1, <2>2, <2>3 DEF CreateStep
<1>6. ASSUME NEW j \in Documents, Fails(j) \/ RunsAgain(j) PROVE CountIsExact' /\ AnnouncedAfterAll'
  <2>1. request \in {"open", "answered"}
    BY <1>6, <1>d DEF Fails, RunsAgain, Goes
  <2> QED
    BY <1>6, <2>1, <1>s, <1>l DEF Fails, RunsAgain, batchVars, countVars
<1>7. ASSUME NEW u \in Uploads, IsAdmitted(u) \/ IsPending(u) \/ IsCreated(u)
      PROVE  CountIsExact' /\ AnnouncedAfterAll'
  <2>1. u \notin Documents
    BY BatchesAssumption
  <2>2. \A j \in Documents : at'[j] = at[j]
    BY <1>7, <2>1 DEF IsAdmitted, IsPending, IsCreated, Goes, TypeOK
  <2> QED
    BY <1>7, <2>2, <1>s, <1>l, <1>o DEF IsAdmitted, IsPending, IsCreated, batchVars, countVars
<1>8. ASSUME NEW j \in Jobs, Finishes(j) \/ IsRetired(j) PROVE CountIsExact' /\ AnnouncedAfterAll'
  <2>1. request \in {"open", "answered"} \/ (linked = {} /\ \A i \in Documents : at'[i] = "new")
    <3>1. CASE IsRetired(j)
      BY <3>1, <1>o DEF IsRetired
    <3>2. CASE Finishes(j) /\ j \in Documents
      BY <3>2, <1>d DEF Finishes, Goes
    <3>3. CASE Finishes(j) /\ j \notin Documents
      BY <3>3, <1>o DEF Finishes, Goes, TypeOK
    <3> QED
      BY <1>8, <3>1, <3>2, <3>3
  <2> QED
    BY <1>8, <2>1, <1>s, <1>l DEF Finishes, IsRetired, batchVars, countVars
<1>9. CASE CompletionStep
  <2>1. CASE Marks
    <3>1. comp'.next = "count"
      BY <2>1 DEF Marks, Then, TypeOK, Nobody
    <3> QED
      BY <2>1, <3>1, <1>s, <1>l, <1>o DEF Marks, batchVars, countVars
  <2>2. CASE Counts /\ comp.job \in linked
    BY <2>2, <1>e, CountsTheJob
  <2>3. CASE Counts /\ comp.job \notin linked
    <3>1. comp'.next = "publish"
      BY <2>3 DEF Counts, Then, TypeOK, Nobody
    <3> QED
      BY <2>3, <3>1, <1>s, <1>l, <1>o DEF Counts, batchVars
  <2>4. CASE Checks
    BY <2>4, <1>e, ChecksAfterAll
  <2>5. CASE Announces
    BY <2>5, <1>s, <1>l, <1>o DEF Announces, batchVars, countVars, Nobody
  <2>6. ASSUME NEW j \in Jobs, Receives(j) PROVE CountIsExact' /\ AnnouncedAfterAll'
    <3>1. comp'.next # "check"
      BY <2>6 DEF Receives, Nobody
    <3> QED
      BY <2>6, <3>1, <1>s, <1>l, <1>o DEF Receives, batchVars, countVars
  <2> QED
    BY <1>9, <2>1, <2>2, <2>3, <2>4, <2>5, <2>6 DEF CompletionStep
<1>10. CASE FinalizeFails \/ CompletionDies
  BY <1>10, <1>s, <1>l, <1>o DEF FinalizeFails, CompletionDies, batchVars, countVars, Nobody
<1> QED
  BY <1>1, <1>2, <1>3, <1>4, <1>5, <1>6, <1>7, <1>8, <1>9, <1>10 DEF Next

---------------------------------------------------------------------------
(* Admission.                                                              *)

LEMMA FiniteLoad ==
  ASSUME TypeOK
  PROVE  /\ IsFiniteSet(active \cap Uploads) /\ IsFiniteSet(InFlight)
         /\ IsFiniteSet(active)
         /\ IsFiniteSet((active \cap Uploads) \cup InFlight)
<1>1. IsFiniteSet(Jobs)
  BY BatchesAssumption, FS_Union
<1>2. InFlight \in SUBSET Uploads /\ active \in SUBSET Jobs
  BY DEF InFlight, TypeOK
<1>3. IsFiniteSet(active) /\ IsFiniteSet(InFlight)
  BY <1>1, <1>2, BatchesAssumption, FS_Subset
<1>4. IsFiniteSet(active \cap Uploads)
  BY <1>3, FS_Intersection
<1> QED
  BY <1>3, <1>4, FS_Union

(* Fewer uploads on their way or active are within the limit too.          *)
LEMMA LoadShrinks ==
  ASSUME TypeOK, AdmittedBound,
         (active' \cap Uploads) \cup InFlight' \subseteq (active \cap Uploads) \cup InFlight,
         "redis" \in happened => "redis" \in happened'
  PROVE  AdmittedBound'
<1> DEFINE L == (active \cap Uploads) \cup InFlight
           M == (active' \cap Uploads) \cup InFlight'
<1>1. IsFiniteSet(L)
  BY FiniteLoad
<1>2. M \in SUBSET L
  OBVIOUS
<1> HIDE DEF L, M
<1>3. Cardinality(M) <= Cardinality(L) /\ Cardinality(M) \in Nat /\ Cardinality(L) \in Nat
  BY <1>1, <1>2, FS_Subset, FS_CardinalityType
<1>4. MaxConcurrentJobs \in Nat /\ Handlers \in Nat
  BY BatchesAssumption
<1>5. ASSUME "redis" \notin happened' PROVE Cardinality(M) <= MaxConcurrentJobs + Handlers - 1
  <2>1. Cardinality(L) <= MaxConcurrentJobs + Handlers - 1
    BY <1>5 DEF AdmittedBound, L
  <2> QED
    BY <2>1, <1>3, <1>4
<1> QED
  BY <1>5 DEF AdmittedBound, M

(* An upload is let in when there is room, but for those on their way.     *)
LEMMA AdmittedInTime ==
  ASSUME TypeOK, AdmittedBound, NEW u \in Uploads, IsAdmitted(u)
  PROVE  AdmittedBound'
<1> DEFINE A == active \cap Uploads
           B == InFlight \cup {u}
<1>1. IsFiniteSet(A) /\ IsFiniteSet(InFlight) /\ IsFiniteSet(active)
  BY FiniteLoad
<1>2. InFlight' = B /\ active' = active
  BY DEF IsAdmitted, InFlight, TypeOK
<1>3. u \notin InFlight
  BY DEF IsAdmitted, InFlight
<1>4. MaxConcurrentJobs \in Nat /\ Handlers \in Nat \ {0}
  BY BatchesAssumption
<1>5. CASE Cardinality(active) < MaxConcurrentJobs
  <2>1. A \in SUBSET active
    OBVIOUS
  <2>2. Cardinality(A) <= MaxConcurrentJobs - 1 /\ Cardinality(A) \in Nat
    BY <2>1, <1>1, <1>4, <1>5, FS_Subset, FS_CardinalityType
  <2>3. IsFiniteSet(B) /\ Cardinality(B) = Cardinality(InFlight) + 1 /\ Cardinality(InFlight) \in Nat
    BY <1>1, <1>3, FS_AddElement, FS_CardinalityType
  <2>4. Cardinality(B) <= Handlers /\ Cardinality(B) \in Nat
    BY <2>3, <1>4 DEF IsAdmitted
  <2> HIDE DEF A, B
  <2>5. Cardinality(A \cup B) = Cardinality(A) + Cardinality(B) - Cardinality(A \cap B)
    BY <1>1, <2>3, FS_Union
  <2>6. Cardinality(A \cap B) \in Nat
    BY <1>1, FS_Intersection, FS_CardinalityType
  <2>7. Cardinality(A \cup B) <= MaxConcurrentJobs + Handlers - 1
    BY <2>2, <2>4, <2>5, <2>6, <1>4
  <2> QED
    BY <2>7, <1>2 DEF AdmittedBound, A
<1>6. CASE Happens("redis")
  BY <1>6 DEF AdmittedBound, Happens
<1> QED
  BY <1>5, <1>6 DEF IsAdmitted

LEMMA AdmissionStep ==
  ASSUME TypeOK, AdmittedBound, Next
  PROVE  AdmittedBound'
<1>h. "redis" \in happened => "redis" \in happened'
  <2>1. \A ok \in BOOLEAN : Answers(ok) => ("redis" \in happened => "redis" \in happened')
    BY DEF Answers, Happens, Calm
  <2>2. ASSUME NEW j \in Documents, CreateStep(j) PROVE "redis" \in happened => "redis" \in happened'
    BY <2>1, <2>2 DEF CreateStep, SetsPending, SetsCreated, Links, Joins, Publishes, CannotPublish, Happens, Calm
  <2>3. ASSUME CompletionStep PROVE happened' = happened
    BY <2>3 DEF CompletionStep, Marks, Counts, Checks, Announces, Receives
  <2> QED
    BY <2>1, <2>2, <2>3 DEF Next, CreatesBatch, RefusesBatch, AnswersBatch, ClientLeaves, Fails, RunsAgain,
       IsAdmitted, IsPending, IsCreated, Finishes, IsRetired, FinalizeFails, CompletionDies, Happens, Calm
<1>d. \A j \in Documents : j \notin Uploads
  BY BatchesAssumption
<1>s. ASSUME active' \cap Uploads \subseteq active \cap Uploads,
             \A u \in Uploads : at'[u] \in {"admitted", "pending"} => at[u] \in {"admitted", "pending"}
      PROVE  AdmittedBound'
  <2>1. InFlight' \subseteq InFlight
    BY <1>s DEF InFlight
  <2> QED
    BY <2>1, <1>s, <1>h, LoadShrinks
<1>1. CASE CreatesBatch \/ RefusesBatch \/ AnswersBatch \/ ClientLeaves
  BY <1>1, <1>s DEF CreatesBatch, RefusesBatch, AnswersBatch, ClientLeaves
<1>2. ASSUME NEW j \in Documents, CreateStep(j) PROVE AdmittedBound'
  <2>1. \A u \in Uploads : at'[u] = at[u]
    BY <1>2, <1>d DEF CreateStep, SetsPending, SetsCreated, Links, Joins, Publishes, CannotPublish, Goes, TypeOK
  <2>2. active' \subseteq active \cup {j}
    BY <1>2 DEF CreateStep, SetsPending, SetsCreated, Links, Joins, Publishes, CannotPublish
  <2> QED
    BY <2>1, <2>2, <1>d, <1>s
<1>3. ASSUME NEW j \in Documents, Fails(j) \/ RunsAgain(j) PROVE AdmittedBound'
  BY <1>3, <1>s, <1>d DEF Fails, RunsAgain, Goes, TypeOK
<1>4. ASSUME NEW u \in Uploads, IsAdmitted(u) PROVE AdmittedBound'
  BY <1>4, AdmittedInTime
<1>5. ASSUME NEW u \in Uploads, IsPending(u) PROVE AdmittedBound'
  BY <1>5, <1>s DEF IsPending, Goes, TypeOK
<1>6. ASSUME NEW u \in Uploads, IsCreated(u) PROVE AdmittedBound'
  <2>1. (active' \cap Uploads) \cup InFlight' \subseteq (active \cap Uploads) \cup InFlight
    BY <1>6 DEF IsCreated, Goes, InFlight, TypeOK
  <2> QED
    BY <2>1, <1>h, LoadShrinks
<1>7. ASSUME NEW j \in Jobs, Finishes(j) \/ IsRetired(j) PROVE AdmittedBound'
  BY <1>7, <1>s DEF Finishes, IsRetired, Goes, TypeOK
<1>8. CASE CompletionStep
  BY <1>8, <1>s DEF CompletionStep, Marks, Counts, Checks, Announces, Receives
<1>9. CASE FinalizeFails \/ CompletionDies
  BY <1>9, <1>s DEF FinalizeFails, CompletionDies
<1> QED
  BY <1>1, <1>2, <1>3, <1>4, <1>5, <1>6, <1>7, <1>8, <1>9 DEF Next

---------------------------------------------------------------------------
LEMMA NextIInv == IInv /\ [Next]_vars => IInv'
<1>1. ASSUME IInv, Next PROVE IInv'
  BY <1>1, TypeStep, CountStep, AdmissionStep DEF IInv
<1>2. ASSUME IInv, UNCHANGED vars PROVE IInv'
  BY <1>2 DEF vars, batchVars, countVars, IInv, TypeOK, CountIsExact, AnnouncedAfterAll, AdmittedBound, InFlight, Accepted
<1> QED
  BY <1>1, <1>2

(* The Redis counter is that of the jobs, and no upload is on its way      *)
(* beyond the limit but for those of the handlers.                         *)
THEOREM Invariance == Spec => []IInv
  BY InitIInv, NextIInv, PTL DEF Spec

(* The webhook of a batch is sent once and after the last of its accepted  *)
(* documents, unless one was counted again (_check_and_notify_batch).      *)
THEOREM WebhookAfterAll == Spec => []AnnouncedAfterAll
<1>1. IInv => AnnouncedAfterAll
  BY DEF IInv
<1> QED
  BY <1>1, Invariance, PTL

(* The uploads that are active exceed the limit by those at most that were *)
(* let in at the same time (CanAcceptJob, SetJobCreated).                  *)
THEOREM LimitOfUploads == Spec => []AdmissionBound
<1>1. ASSUME IInv PROVE AdmissionBound
  <2> DEFINE A == active \cap Uploads
             L == A \cup InFlight
  <2>1. IsFiniteSet(L) /\ A \in SUBSET L
    BY <1>1, FiniteLoad DEF IInv
  <2>2. MaxConcurrentJobs \in Nat /\ Handlers \in Nat
    BY BatchesAssumption
  <2>3. "redis" \notin happened => Cardinality(L) <= MaxConcurrentJobs + Handlers - 1
    BY <1>1 DEF IInv, AdmittedBound
  <2> HIDE DEF A, L
  <2>4. Cardinality(A) <= Cardinality(L) /\ Cardinality(A) \in Nat /\ Cardinality(L) \in Nat
    BY <2>1, FS_Subset, FS_CardinalityType
  <2> QED
    BY <2>2, <2>3, <2>4 DEF AdmissionBound, A
<1> QED
  BY <1>1, Invariance, PTL

---------------------------------------------------------------------------
(* The status of a batch to which nothing happened.                        *)

(* The request is answered when every job is published and a member ...    *)
OnTheWay ==
    /\ ~gone
    /\ request \in {"open", "answered"} => Accepted # {}
    /\ request = "answered" => \A j \in Accepted : at[j] \in {"running", "ended"}
    /\ members \subseteq Accepted
    /\ \A j \in Documents : at[j] # "answered" /\ (at[j] \in {"member", "running", "ended"} => j \in members)

(* ... and each is finalized once: told of, in the hands of the completion *)
(* worker, or completed.                                                   *)
Finalizing(j) == comp.next # "idle" /\ comp.job = j

OnceFinalized ==
    /\ \A j \in Jobs : status[j] = "completed" \/ j \in progress \/ Finalizing(j) => at[j] = "ended"
    /\ \A j \in progress : status[j] # "completed" /\ ~Finalizing(j)
    /\ \A j \in counted : status[j] = "completed"
    /\ comp.next \in {"mark", "count"} => comp.job \notin counted
    /\ comp.next \in {"count", "check", "publish"} => status[comp.job] = "completed"
    /\ recounts = 0

CalmParts == OnTheWay /\ OnceFinalized
CalmInv == happened = {} => CalmParts

LEMMA InitCalm == Init => CalmInv
  BY DEF Init, CalmInv, CalmParts, OnTheWay, OnceFinalized, Finalizing, Nobody

(* What does not happen.                                                   *)
LEMMA CalmIs ==
  ASSUME happened' = {}
  PROVE  /\ \A w : ~Happens(w)
         /\ \A ok \in BOOLEAN : Answers(ok) /\ ~gone => ok /\ Calm
<1>1. \A w : ~Happens(w)
  BY DEF Happens
<1> QED
  BY <1>1 DEF Answers

(* A creation that only writes its own job, until it is published.         *)
LEMMA CalmCreation ==
  ASSUME TypeOK, CountIsExact, CalmParts, happened' = {}, env' = env, NEW j \in Documents, CreateStep(j)
  PROVE  CalmParts'
<1> USE DEF CalmParts, OnTheWay, OnceFinalized, Finalizing, Accepted, Goes, batchVars, countVars, TypeOK
<1>c. /\ \A w : ~Happens(w)
      /\ \A ok \in BOOLEAN : Answers(ok) => ok /\ Calm
  BY CalmIs
<1>1. CASE SetsPending(j)
  <2>1. request = "open" /\ status' = [status EXCEPT ![j] = "pending"] /\ at' = [at EXCEPT ![j] = "pending"]
        /\ at[j] = "new"
    BY <1>1, <1>c DEF SetsPending
  <2> QED
    BY <1>1, <2>1 DEF SetsPending
<1>2. CASE SetsCreated(j)
  BY <1>2 DEF SetsCreated
<1>3. CASE Links(j)
  BY <1>3 DEF Links
<1>4. CASE Joins(j)
  <2>1. members' = members \cup {j}
    BY <1>4, <1>c DEF Joins
  <2> QED
    BY <1>4, <2>1 DEF Joins
<1>5. CASE Publishes(j)
  BY <1>5 DEF Publishes
<1>6. CASE CannotPublish(j)
  BY <1>6, <1>c DEF CannotPublish
<1> QED
  BY <1>1, <1>2, <1>3, <1>4, <1>5, <1>6 DEF CreateStep

LEMMA CalmStep ==
  ASSUME TypeOK, CountIsExact, CalmInv, Next, happened' = {}
  PROVE  CalmParts'
<1>e. env' = env
  BY DEF Next
<1>c. /\ \A w : ~Happens(w)
      /\ \A ok \in BOOLEAN : Answers(ok) /\ ~gone => ok /\ Calm
  BY CalmIs
<1>h. happened = {}
  <2>1. \A ok \in BOOLEAN : Answers(ok) => Calm
    BY <1>c DEF Answers
  <2>2. ASSUME NEW j \in Documents, CreateStep(j) PROVE happened = {}
    BY <1>c, <2>1, <2>2 DEF CreateStep, SetsPending, SetsCreated, Links, Joins, Publishes, CannotPublish, Calm
  <2>3. ASSUME CompletionStep PROVE happened' = happened
    BY <2>3 DEF CompletionStep, Marks, Counts, Checks, Announces, Receives
  <2> QED
    BY <1>c, <2>1, <2>2, <2>3 DEF Next, CreatesBatch, RefusesBatch, AnswersBatch, ClientLeaves, Fails, RunsAgain,
       IsAdmitted, IsPending, IsCreated, Finishes, IsRetired, FinalizeFails, CompletionDies, Calm
<1>p. CalmParts
  BY <1>h DEF CalmInv
<1>d. Accepted \subseteq Documents /\ \A u \in Uploads : u \notin Documents
  BY BatchesAssumption DEF Accepted, TypeOK
<1> USE <1>p DEF CalmParts, OnTheWay, OnceFinalized, Finalizing, batchVars, countVars, Goes, TypeOK
<1>1. CASE CreatesBatch
  BY <1>1, <1>e DEF CreatesBatch, Accepted
<1>2. CASE RefusesBatch
  BY <1>2, <1>e DEF RefusesBatch, Accepted
<1>3. CASE AnswersBatch
  BY <1>3, <1>e, <1>d DEF AnswersBatch, Accepted
<1>4. CASE ClientLeaves
  BY <1>4, <1>c DEF ClientLeaves
<1>5. ASSUME NEW j \in Documents, CreateStep(j) PROVE CalmParts'
  BY <1>5, <1>e, CalmCreation
<1>6. ASSUME NEW j \in Documents, Fails(j) \/ RunsAgain(j) PROVE CalmParts'
  BY <1>6, <1>c DEF Fails, RunsAgain
<1>7. ASSUME NEW u \in Uploads, IsAdmitted(u) \/ IsPending(u) \/ IsCreated(u) PROVE CalmParts'
  <2>d. u \notin Documents /\ Accepted' = Accepted
    BY <1>d, <1>e DEF Accepted
  <2>n. Accepted \subseteq Documents
    BY <1>d
  <2>1. CASE IsAdmitted(u)
    <3>1. at' = [at EXCEPT ![u] = "admitted"] /\ at[u] = "new"
      BY <2>1 DEF IsAdmitted
    <3>2. UNCHANGED <<gone, request, members, status, progress, comp, counted, recounts>>
      BY <2>1 DEF IsAdmitted
    <3>3. OnTheWay'
      BY <2>d, <2>n, <3>1, <3>2
    <3>4. OnceFinalized'
      BY <3>1, <3>2
    <3> QED
      BY <3>3, <3>4
  <2>2. CASE IsPending(u)
    BY <2>2, <2>d, <2>n DEF IsPending
  <2>3. CASE IsCreated(u)
    BY <2>3, <2>d, <2>n DEF IsCreated
  <2> QED
    BY <1>7, <2>1, <2>2, <2>3
<1>8. ASSUME NEW j \in Jobs, Finishes(j) PROVE CalmParts'
  BY <1>8, <1>e, <1>d DEF Finishes, Accepted
<1>9. ASSUME NEW j \in Jobs, IsRetired(j) PROVE CalmParts'
  BY <1>9, <1>e DEF IsRetired, Accepted
<1>10. CASE CompletionStep
  <2> USE DEF Then, Nobody
  <2>1. CASE Marks
    BY <2>1, <1>e DEF Marks, Accepted
  <2>2. CASE Counts
    BY <2>2, <1>e DEF Counts, Accepted
  <2>3. CASE Checks
    BY <2>3, <1>e DEF Checks, Accepted
  <2>4. CASE Announces
    BY <2>4, <1>e DEF Announces, Accepted
  <2>5. ASSUME NEW j \in Jobs, Receives(j) PROVE CalmParts'
    BY <2>5, <1>e DEF Receives, Accepted
  <2> QED
    BY <1>10, <2>1, <2>2, <2>3, <2>4, <2>5 DEF CompletionStep
<1>11. CASE FinalizeFails \/ CompletionDies
  BY <1>11, <1>c DEF FinalizeFails, CompletionDies
<1> QED
  BY <1>1, <1>2, <1>3, <1>4, <1>5, <1>6, <1>7, <1>8, <1>9, <1>10, <1>11 DEF Next

(* In a batch to which nothing happened every job is finalized once.       *)
THEOREM CalmInvariance == Spec => []CalmInv
<1>1. ASSUME IInv, CalmInv, [Next]_vars PROVE CalmInv'
  <2>1. CASE Next
    BY <1>1, <2>1, CalmStep DEF IInv, CalmInv
  <2>2. CASE UNCHANGED vars
    BY <1>1, <2>2 DEF vars, batchVars, countVars, CalmInv, CalmParts, OnTheWay, OnceFinalized, Finalizing, Accepted
  <2> QED
    BY <1>1, <2>1, <2>2
<1> QED
  BY <1>1, InitCalm, Invariance, PTL DEF Spec

(* What the status of a batch says, which goes by its members, and what    *)
(* the webhook says, which goes by the counter, agree for any number of    *)
(* documents (GetBatchStatusHandler, _check_and_notify_batch).             *)
THEOREM StatusAndWebhook == Spec => []StatusAgrees
<1>1. ASSUME IInv, CalmInv PROVE StatusAgrees
  <2> SUFFICES ASSUME request = "answered", happened = {}
               PROVE  /\ sent > 0 => StatusOfBatch = "completed"
                      /\ StatusOfBatch = "completed" => \A j \in Accepted : status[j] = "completed"
    BY DEF StatusAgrees
  <2>1. CalmParts
    BY <1>1 DEF CalmInv
  <2>2. Accepted \subseteq Documents
    BY <1>1, BatchesAssumption DEF IInv, TypeOK, Accepted
  <2>3. members = Accepted /\ Accepted # {}
    BY <2>1, <2>2 DEF CalmParts, OnTheWay
  <2>4. sent > 0 => \A j \in Accepted : status[j] = "completed"
    BY <1>1, <2>1 DEF IInv, AnnouncedAfterAll, CalmParts, OnceFinalized
  <2>5. (\A j \in Accepted : status[j] = "completed") => StatusOfBatch = "completed"
    BY <2>3 DEF StatusOfBatch
  <2>6. StatusOfBatch = "completed" => \A j \in Accepted : status[j] = "completed"
    BY <2>3 DEF StatusOfBatch
  <2> QED
    BY <2>4, <2>5, <2>6
<1> QED
  BY <1>1, Invariance, CalmInvariance, PTL

=============================================================================
