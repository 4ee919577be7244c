--------------------------- MODULE Consumers_proofs ---------------------------
(***************************************************************************)
(* No message vanishes from the queues of the workers and no job is marked *)
(* as failed without a cause, for any number of messages, retries, copies, *)
(* replicas and tasks: proofs.                                             *)
(*                                                                         *)
(* That a message is acknowledged after a retry was published rests on the *)
(* copy that was published; that this copy is not itself acknowledged with *)
(* the first one for its reason rests on its larger count (EndsWithReason).*)
(***************************************************************************)
EXTENDS Consumers, TLAPS

LEMMA InitIInv == Init => IInv
<1> SUFFICES ASSUME Init PROVE IInv
  OBVIOUS
<1> USE DEF Init, Comes
<1>0. Idle \in Tasks
  BY ConsumersAssumption DEF Idle, Tasks, NextSteps
<1>c. \A j \in Jobs : <<j, 0>> \in Copies
  BY ConsumersAssumption DEF Copies
<1>1. TypeOK
  <2>1. at \in [Copies -> {"none", "ready", "held", "delayed"}] /\ count \in [Copies -> 0..MaxRetries]
    BY ConsumersAssumption
  <2>2. task \in [Slots -> Tasks] /\ \A s \in Slots : task[s].next = "idle"
    BY <1>0 DEF Idle
  <2>3. faults \in 0..env.most
    BY ConsumersAssumption
  <2> QED
    BY <2>1, <2>2, <2>3 DEF TypeOK
<1>2. HeldByOne /\ RetriesOfBase /\ EndsWithReason
  BY DEF HeldByOne, RetriesOfBase, EndsWithReason, Reason, Idle
<1>3. NothingVanishes
  BY <1>c DEF NothingVanishes, Alive
<1>4. FailedForCause
  BY DEF FailedForCause
<1> QED
  BY <1>1, <1>2, <1>3, <1>4 DEF IInv

---------------------------------------------------------------------------
LEMMA StepNames ==
  NextSteps = {"idle", "look", "process", "fail", "again"} \cup {"over", "sleep", "ack", "leave", "reject"}
  BY DEF NextSteps

LEMMA IdleTask == Idle \in Tasks
  BY ConsumersAssumption, StepNames DEF Idle, Tasks

LEMMA TaskFields ==
  ASSUME NEW t \in Tasks
  PROVE  /\ \A n \in NextSteps : [t EXCEPT !.next = n] \in Tasks
         /\ [t EXCEPT !.wired = FALSE] \in Tasks
  BY DEF Tasks

(* What makes a message safe lasts, and so does the cause of a failure.    *)
Grows ==
    /\ done \subseteq done' /\ waived \subseteq waived' /\ dead \subseteq dead'
    /\ hopeless \subseteq hopeless' /\ cut \subseteq cut' /\ happened \subseteq happened'
    /\ \A j \in Jobs : status[j] = "failed" => status'[j] = "failed"

LEMMA TaskGrows ==
  ASSUME TypeOK, NEW s \in Slots, TaskStep(s)
  PROVE  Grows
<1> USE DEF Grows, Calm, Happens, jobVars, Release, TypeOK
<1>1. ASSUME NEW c \in Copies, Takes(s, c) PROVE Grows
  BY <1>1 DEF Takes
<1>2. CASE Looks(s)
  BY <1>2 DEF Looks
<1>3. CASE Succeeds(s) \/ FindsCancelled(s) \/ FailsForNow(s) \/ FailsForGood(s)
  BY <1>3 DEF Succeeds, FindsCancelled, FailsForNow, FailsForGood
<1>4. CASE Marks(s)
  BY <1>4 DEF Marks
<1>5. CASE Republishes(s) \/ CannotRepublish(s) \/ CannotAck(s)
  BY <1>5 DEF Republishes, CannotRepublish, CannotAck
<1>6. CASE Acks(s) \/ Rejects(s) \/ Requeues(s) \/ Escapes(s)
  BY <1>6 DEF Acks, Rejects, Requeues, Escapes
<1> QED
  BY <1>1, <1>2, <1>3, <1>4, <1>5, <1>6 DEF TaskStep

LEMMA NextGrows ==
  ASSUME TypeOK, Next
  PROVE  Grows
<1> USE DEF Grows, Happens, jobVars, TypeOK
<1>1. ASSUME NEW s \in Slots, TaskStep(s) PROVE Grows
  BY <1>1, TaskGrows
<1>2. ASSUME NEW w \in Replicas, Closes(w) \/ Ends(w) \/ Drops(w) \/ IsToldToStop(w) \/ Dies(w) PROVE Grows
  BY <1>2 DEF Closes, Ends, Drops, IsToldToStop, Dies, Cut
<1>3. ASSUME NEW c \in Copies, Fires(c) \/ Overflows(c) PROVE Grows
  BY <1>3 DEF Fires, Overflows
<1>4. ASSUME NEW j \in Jobs, IsCancelled(j) PROVE Grows
  BY <1>4 DEF IsCancelled
<1> QED
  BY <1>1, <1>2, <1>3, <1>4 DEF Next, SystemStep

LEMMA SafeLasts ==
  ASSUME Grows, env' = env, NEW j \in Jobs, Safe(j)
  PROVE  Safe(j)'
  BY DEF Grows, Safe, Settled, Losses, Base

---------------------------------------------------------------------------
(* Types.                                                                  *)

LEMMA TaskTypes ==
  ASSUME TypeOK, RetriesOfBase, NEW s \in Slots, TaskStep(s), env' = env
  PROVE  TypeOK'
<1> USE DEF TypeOK, Comes, Job, jobVars
<1>e. env \in Environments /\ env.most \in Nat /\ env.replica \in [Slots -> Replicas]
  BY ConsumersAssumption
<1>h. \A what : Happens(what) => happened' \subseteq env.may /\ faults' \in 0..env.most
  BY <1>e DEF Happens
<1>c. Calm => happened' \subseteq env.may /\ faults' \in 0..env.most
  BY DEF Calm
<1>j. ~Comes(s, "idle") => Job(s) \in Jobs
  BY DEF Copies
<1>g. ASSUME NEW n \in NextSteps, Goes(s, n), ~Comes(s, "idle")
      PROVE  /\ task' \in [Slots -> Tasks]
             /\ \A t \in Slots : task'[t].next # "idle" => task'[t].copy \in Copies
  <2>1. [task[s] EXCEPT !.next = n] \in Tasks
    BY TaskFields
  <2>2. task' = [task EXCEPT ![s] = [task[s] EXCEPT !.next = n]]
    BY <1>g DEF Goes
  <2>3. [task[s] EXCEPT !.next = n].copy = task[s].copy
    BY DEF Tasks
  <2> QED
    BY <1>g, <2>1, <2>2, <2>3
<1>i. ASSUME task' = [task EXCEPT ![s] = Idle]
      PROVE  /\ task' \in [Slots -> Tasks]
             /\ \A t \in Slots : task'[t].next # "idle" => task'[t].copy \in Copies
  BY <1>i, IdleTask DEF Idle
<1>r. Release(s) => stopping' \subseteq Replicas
  BY DEF Release
<1>1. ASSUME NEW c \in Copies, Takes(s, c) PROVE TypeOK'
  <2>1. [copy |-> c, count |-> count[c], wired |-> TRUE, next |-> First(s)] \in Tasks
    BY StepNames DEF Tasks, First
  <2> QED
    BY <1>1, <2>1 DEF Takes, Settle
<1>2. CASE Looks(s)
  BY <1>2, <1>h, <1>c, <1>j, <1>g, StepNames DEF Looks
<1>3. CASE Succeeds(s) \/ FindsCancelled(s) \/ FailsForGood(s)
  BY <1>3, <1>j, <1>g, StepNames DEF Succeeds, FindsCancelled, FailsForGood
<1>4. CASE FailsForNow(s)
  BY <1>4, <1>j, <1>g, StepNames DEF FailsForNow
<1>5. CASE Marks(s)
  BY <1>5, <1>h, <1>c, <1>j, <1>g, StepNames DEF Marks
<1>6. CASE CannotRepublish(s) \/ CannotAck(s)
  BY <1>6, <1>g, StepNames DEF CannotRepublish, CannotAck
<1>7. CASE Republishes(s)
  <2>1. FreeCopy(Job(s)) \in Copies
    BY <1>7 DEF Republishes, FreeCopy
  <2>2. task[s].count + 1 \in 0..MaxRetries
    BY <1>7, ConsumersAssumption DEF Republishes, RetriesOfBase, MayRetry, Tasks
  <2> QED
    BY <1>7, <1>g, <2>1, <2>2, StepNames DEF Republishes, Settle
<1>8. CASE Acks(s) \/ Requeues(s) \/ Escapes(s)
  BY <1>8, <1>i, <1>r DEF Acks, Requeues, Escapes, Release, Settle
<1>9. CASE Rejects(s)
  BY <1>9, <1>i, <1>j, <1>r DEF Rejects, Release, Settle
<1> QED
  BY <1>1, <1>2, <1>3, <1>4, <1>5, <1>6, <1>7, <1>8, <1>9 DEF TaskStep

LEMMA OtherTypes ==
  ASSUME TypeOK, HeldByOne, env' = env,
         \/ \E w \in Replicas : Closes(w) \/ Ends(w) \/ Drops(w) \/ IsToldToStop(w) \/ Dies(w)
         \/ \E c \in Copies : Fires(c) \/ Overflows(c)
         \/ \E j \in Jobs : IsCancelled(j)
  PROVE  TypeOK'
<1> USE DEF TypeOK, Comes, jobVars
<1>h. \A what : Happens(what) => happened' \subseteq env.may /\ faults' \in 0..env.most
  BY ConsumersAssumption DEF Happens
<1>1. ASSUME NEW w \in Replicas, Closes(w) \/ Drops(w) PROVE TypeOK'
  <2>1. at' = TakenBack(w) /\ task' = Unwired(w) /\ cut' = Cut(w)
    BY <1>1 DEF Closes, Drops
  <2>2. \A t \in Wired(w) : t \in Slots /\ [task[t] EXCEPT !.wired = FALSE] \in Tasks
    BY TaskFields DEF Wired
  <2>3. task' \in [Slots -> Tasks] /\ \A t \in Slots : task'[t].next = task[t].next /\ task'[t].copy = task[t].copy
    BY <2>1, <2>2 DEF Unwired, Tasks
  <2>4. at' \in [Copies -> {"none", "ready", "held", "delayed"}]
    BY <2>1 DEF TakenBack
  <2>5. cut' \subseteq Jobs
    <3>1. InHand(w) \subseteq Copies
      BY DEF InHand, Wired, HeldByOne
    <3> QED
      BY <2>1, <3>1 DEF Cut, Copies
  <2> QED
    BY <1>1, <1>h, <2>3, <2>4, <2>5 DEF Closes, Drops
<1>2. ASSUME NEW w \in Replicas, Ends(w) \/ Dies(w) PROVE TypeOK'
  <2>1. task' \in [Slots -> Tasks] /\ \A t \in Slots : task'[t] = Idle \/ task'[t] = task[t]
    BY <1>2, IdleTask DEF Ends, Dies
  <2>2. \A t \in Slots : task'[t].next # "idle" => task'[t].copy \in Copies
    BY <2>1 DEF Idle
  <2>3. at' \in [Copies -> {"none", "ready", "held", "delayed"}]
    BY <1>2 DEF Ends, Dies, TakenBack
  <2> QED
    BY <1>2, <1>h, <2>1, <2>2, <2>3 DEF Ends, Dies
<1>3. ASSUME NEW w \in Replicas, IsToldToStop(w) PROVE TypeOK'
  BY <1>3, <1>h DEF IsToldToStop
<1>4. ASSUME NEW c \in Copies, Fires(c) \/ Overflows(c) PROVE TypeOK'
  BY <1>4, <1>h DEF Fires, Overflows, Settle
<1>5. ASSUME NEW j \in Jobs, IsCancelled(j) PROVE TypeOK'
  BY <1>5, <1>h DEF IsCancelled
<1> QED
  BY <1>1, <1>2, <1>3, <1>4, <1>5

---------------------------------------------------------------------------
(* The claims.                                                             *)

Claims == HeldByOne /\ RetriesOfBase /\ EndsWithReason /\ NothingVanishes /\ FailedForCause

(* The reason of a task that does nothing lasts while its copies do.       *)
LEMMA ReasonLasts ==
  ASSUME TypeOK, Grows, env' = env, NEW t \in Slots, Reason(t), task'[t] = task[t],
         \A c \in Copies : at[c] # "none" => at'[c] # "none" /\ count'[c] = count[c]
  PROVE  Reason(t)'
<1> USE DEF Comes, Job
<1>1. task[t].next # "idle" => task[t].copy[1] \in Jobs
  BY DEF TypeOK, Copies
<1>2. \A j \in Jobs : Safe(j) => Safe(j)'
  BY SafeLasts
<1>3. task[t].next # "idle" /\ Safe(Job(t)) => Safe(Job(t))'
  BY <1>1, <1>2
<1>4. hopeless \cup cut \subseteq hopeless' \cup cut'
  BY DEF Grows
<1> QED
  BY <1>3, <1>4 DEF Reason

(* A task that goes on with its copy, says why it is going to end, and     *)
(* fails a job only with a cause.                                          *)
LEMMA TaskGoesOn ==
  ASSUME TypeOK, Claims, Grows, env' = env, NEW s \in Slots,
         \A t \in Slots \ {s} : task'[t] = task[t],
         task'[s].copy = task[s].copy, task'[s].count = task[s].count, task'[s].wired = task[s].wired,
         ~Comes(s, "idle"), task'[s].next \notin {"idle", "over"},
         task'[s].next = "again" => MayRetry(s), task'[s].next \in {"again", "sleep"} => Base,
         task'[s].next \in {"ack", "leave"} /\ task[s].wired => Safe(Job(s))',
         task'[s].next = "fail" => Job(s) \in hopeless' \cup cut',
         \A j \in Jobs : status'[j] = "failed" => status[j] = "failed" \/ j \in hopeless' \cup cut',
         UNCHANGED <<at, count, stopping, closed>>
  PROVE  Claims'
<1> USE DEF Claims, Comes, Job
<1>1. HeldByOne'
  BY DEF HeldByOne, Grows
<1>2. RetriesOfBase'
  BY DEF RetriesOfBase, MayRetry, Base
<1>j. \A t \in Slots : task[t].next # "idle" => task[t].copy[1] \in Jobs
  BY DEF TypeOK, Copies
<1>s. \A j \in Jobs : Safe(j) => Safe(j)'
  BY SafeLasts
<1>3. EndsWithReason'
  <2>1. stopping' # {} => "stop" \in happened'
    BY DEF EndsWithReason, Grows
  <2>2. ASSUME NEW t \in Slots PROVE Reason(t)'
    <3>1. CASE t = s
      <4>1. task'[t].copy = task[s].copy /\ task'[t].next # "over" /\ task'[t].wired = task[s].wired
        BY <3>1
      <4>2. task'[t].next \in {"ack", "leave"} /\ task'[t].wired => Safe(Job(t))'
        BY <3>1, <4>1
      <4>3. task'[t].next = "fail" => Job(t)' \in (hopeless \cup cut)'
        BY <3>1, <4>1
      <4> QED
        BY <4>1, <4>2, <4>3 DEF Reason
    <3>2. CASE t # s
      BY <3>2, <1>j, ReasonLasts DEF EndsWithReason
    <3> QED
      BY <3>1, <3>2
  <2> QED
    BY <2>1, <2>2 DEF EndsWithReason
<1>4. NothingVanishes'
  BY <1>s DEF NothingVanishes, Alive
<1>5. FailedForCause'
  BY DEF FailedForCause, Grows
<1> QED
  BY <1>1, <1>2, <1>3, <1>4, <1>5

(* A task that lets go of its copy: if the copy is gone, its job is safe   *)
(* or has a copy with a larger count, and that one stays.                  *)
LEMMA TaskReleases ==
  ASSUME TypeOK, Claims, Grows, env' = env, NEW s \in Slots, NEW job \in Jobs, Job(s) = job,
         \A t \in Slots \ {s} : task'[t] = task[t], task'[s] = Idle, ~Comes(s, "idle"),
         \A c \in Copies : at'[c] = at[c] \/ (task[s].wired /\ c = task[s].copy /\ at'[c] # "held" /\ at'[c] # "delayed"),
         at'[task[s].copy] # "none" \/ ~task[s].wired \/ Safe(job)'
             \/ \E c \in Copies : c[1] = job /\ at[c] # "none" /\ count[c] > task[s].count,
         count' = count, status' = status, closed' = closed, stopping' \subseteq stopping
  PROVE  Claims'
<1> USE DEF Claims, Comes, Job
<1>i. task'[s].next = "idle" /\ ~task'[s].wired
  BY DEF Idle
<1>s. \A j \in Jobs : Safe(j) => Safe(j)'
  BY SafeLasts
<1>t. /\ \A t \in Slots : task[t].next # "idle" => task[t].copy \in Copies /\ task[t].copy[1] \in Jobs
      /\ \A t \in Slots : task[t].count \in Nat /\ \A c \in Copies : count[c] \in Nat
  BY ConsumersAssumption DEF TypeOK, Copies, Tasks
(* Whoever had a copy of this job that has one more retry still has one.   *)
<1>m. ASSUME NEW n \in Nat, NEW c \in Copies, at[c] # "none", count[c] > n
      PROVE  \/ \E d \in Copies : d[1] = c[1] /\ at'[d] # "none" /\ count'[d] > n
             \/ task[s].wired /\ c = task[s].copy /\ Safe(job)'
  <2>1. CASE at'[c] # "none"
    BY <1>m, <2>1
  <2>2. CASE at'[c] = "none"
    <3>1. task[s].wired /\ c = task[s].copy /\ count[c] = task[s].count
      BY <1>m, <2>2 DEF HeldByOne
    <3>2. ASSUME NEW d \in Copies, d[1] = task[s].copy[1], at[d] # "none", count[d] > task[s].count
          PROVE  d # c /\ at'[d] # "none" /\ count'[d] > n
      BY <1>m, <1>t, <3>1, <3>2
    <3> QED
      BY <2>2, <3>1, <3>2
  <2> QED
    BY <2>1, <2>2
<1>1. HeldByOne'
  <2> SUFFICES ASSUME NEW t \in Slots
               PROVE  /\ task'[t].wired =>
                            /\ task'[t].next # "idle"
                            /\ at'[task'[t].copy] = "held" /\ count'[task'[t].copy] = task'[t].count
                            /\ \A u \in Slots \ {t} : task'[u].wired => task'[u].copy # task'[t].copy
                      /\ ~task'[t].wired /\ task'[t].next # "idle" => task'[t].copy[1] \in cut'
    BY DEF HeldByOne
  <2>1. CASE t = s
    BY <1>i, <2>1
  <2>2. CASE t # s /\ task[t].wired
    <3>1. task[t].copy \in Copies /\ at[task[t].copy] = "held" /\ (task[s].wired => task[t].copy # task[s].copy)
      BY <1>t, <2>2 DEF HeldByOne
    <3> QED
      BY <1>i, <2>2, <3>1 DEF HeldByOne
  <2>3. CASE t # s /\ ~task[t].wired
    BY <2>3 DEF HeldByOne, Grows
  <2> QED
    BY <2>1, <2>2, <2>3
<1>2. RetriesOfBase'
  BY <1>i DEF RetriesOfBase, MayRetry, Base
<1>3. ASSUME NEW t \in Slots PROVE Reason(t)'
  <2>1. CASE t = s
    BY <1>i, <2>1 DEF Reason
  <2>2. CASE t # s
    <3>1. Reason(t) /\ task'[t] = task[t]
      BY <2>2 DEF EndsWithReason
    <3>2. ASSUME NEW i \in Jobs, i = task[t].copy[1] PROVE Reason(t)'
      <4>1. Safe(Job(t)) => Safe(i)'
        BY <1>s, <3>2
      <4>2. Safe(Job(t))' <=> Safe(i)'
        BY <3>1, <3>2
      <4>3. ASSUME NEW c \in Copies, c[1] = i, at[c] # "none", count[c] > task[t].count
            PROVE  Safe(i)' \/ \E d \in Copies : d[1] = i /\ at'[d] # "none" /\ count'[d] > task[t].count
        <5>1. CASE \E d \in Copies : d[1] = c[1] /\ at'[d] # "none" /\ count'[d] > task[t].count
          BY <4>3, <5>1
        <5>2. CASE task[s].wired /\ c = task[s].copy /\ Safe(job)'
          <6>1. i = job
            BY <4>3, <5>2
          <6> QED
            BY <5>2, <6>1
        <5> QED
          BY <1>m, <1>t, <4>3, <5>1, <5>2
      <4>4. hopeless \cup cut \subseteq (hopeless \cup cut)'
        BY DEF Grows
      <4> QED
        BY <3>1, <3>2, <4>1, <4>2, <4>3, <4>4 DEF Reason
    <3>3. CASE task[t].next = "idle"
      BY <3>1, <3>3 DEF Reason, HeldByOne
    <3> QED
      BY <1>t, <3>2, <3>3
  <2> QED
    BY <2>1, <2>2
<1>4. EndsWithReason'
  BY <1>3 DEF EndsWithReason, Grows
<1>5. NothingVanishes'
  <2> SUFFICES ASSUME NEW j \in Jobs PROVE Alive(j)' \/ Safe(j)'
    BY DEF NothingVanishes
  <2>1. CASE Safe(j)
    BY <1>s, <2>1
  <2>2. ASSUME NEW c \in Copies, c[1] = j, at[c] # "none" PROVE Alive(j)' \/ Safe(j)'
    <3>1. CASE at'[c] # "none"
      BY <2>2, <3>1 DEF Alive
    <3>2. CASE at'[c] = "none"
      <4>1. task[s].wired /\ c = task[s].copy /\ j = job
        BY <2>2, <3>2
      <4>2. ASSUME NEW d \in Copies, d[1] = job, at[d] # "none", count[d] > task[s].count PROVE Alive(j)'
        <5>1. count[c] = task[s].count
          BY <4>1 DEF HeldByOne
        <5>2. d # c
          BY <1>t, <4>2, <5>1
        <5>3. at'[d] # "none" /\ d[1] = j
          BY <4>1, <4>2, <5>2
        <5> QED
          BY <5>3 DEF Alive
      <4> QED
        BY <3>2, <4>1, <4>2
    <3> QED
      BY <3>1, <3>2
  <2> QED
    BY <2>1, <2>2 DEF NothingVanishes, Alive
<1>6. FailedForCause'
  BY DEF FailedForCause, Grows
<1> QED
  BY <1>1, <1>2, <1>4, <1>5, <1>6

(* Every step of a task.                                                   *)
LEMMA TaskClaims ==
  ASSUME TypeOK, Claims, Grows, env' = env, NEW s \in Slots, TaskStep(s)
  PROVE  Claims'
<1> USE DEF Comes, Job
<1>j. task[s].next # "idle" => task[s].copy \in Copies /\ task[s].copy[1] \in Jobs
  BY DEF TypeOK, Copies
<1>g. ASSUME NEW n, Goes(s, n)
      PROVE  /\ \A t \in Slots \ {s} : task'[t] = task[t]
             /\ task'[s].copy = task[s].copy /\ task'[s].count = task[s].count
             /\ task'[s].wired = task[s].wired /\ task'[s].next = n
  BY <1>g DEF Goes, TypeOK, Tasks
<1>1. ASSUME NEW c \in Copies, Takes(s, c) PROVE Claims'
  <2>1. /\ \A t \in Slots \ {s} : task'[t] = task[t]
        /\ task'[s].copy = c /\ task'[s].count = count[c] /\ task'[s].wired /\ task'[s].next = First(s)
    BY <1>1 DEF Takes, TypeOK
  <2>2. /\ at[c] = "ready" /\ at'[c] = "held" /\ \A d \in Copies \ {c} : at'[d] = at[d]
        /\ task[s].next = "idle"
        /\ UNCHANGED <<count, status, stopping, closed, hopeless, cut, happened>>
    BY <1>1 DEF Takes, Settle, TypeOK, jobVars
  <2>3. First(s) \in {"ack", "look"}
    BY DEF First
  <2>4. \A t \in Slots : task[t].wired => task[t].copy # c /\ task[t].copy \in Copies
    BY <2>2 DEF Claims, HeldByOne, TypeOK
  <2> USE DEF Claims
  <2>5. HeldByOne'
    BY <2>1, <2>2, <2>3, <2>4 DEF HeldByOne
  <2>6. RetriesOfBase'
    BY <2>1, <2>2, <2>3 DEF RetriesOfBase, MayRetry, Base
  <2>7. ASSUME NEW t \in Slots PROVE Reason(t)'
    <3>1. CASE t = s
      <4>1. Job(s)' = c[1] /\ c[1] \in Jobs
        BY <2>1 DEF Copies
      <4>2. First(s) = "ack" => Safe(c[1])
        BY <2>2 DEF First, EndsWithReason, Safe, Losses
      <4>3. First(s) = "ack" => Safe(Job(s))'
        <5>1. First(s) = "ack" => Safe(c[1])'
          BY <4>1, <4>2, SafeLasts
        <5> QED
          BY <2>1, <5>1
      <4> QED
        BY <2>1, <2>3, <3>1, <4>3 DEF Reason
    <3>2. CASE t # s
      BY <2>1, <2>2, <3>2, ReasonLasts DEF EndsWithReason
    <3> QED
      BY <3>1, <3>2
  <2>8. EndsWithReason'
    BY <2>2, <2>7 DEF EndsWithReason
  <2>9. NothingVanishes'
    <3>1. \A j \in Jobs : Alive(j) => Alive(j)'
      BY <2>2 DEF Alive
    <3> QED
      BY <3>1, SafeLasts DEF NothingVanishes
  <2>10. FailedForCause'
    BY <2>2 DEF FailedForCause
  <2> QED
    BY <2>5, <2>6, <2>8, <2>9, <2>10
<1>2. CASE Looks(s)
  <2>1. task[s].next = "look" /\ UNCHANGED <<at, count, stopping, closed, status>>
    BY <1>2 DEF Looks
  <2>2. CASE Goes(s, "process")
    BY <1>g, <2>1, <2>2, TaskGoesOn
  <2>3. CASE Goes(s, "ack") /\ waived' = waived \cup {Job(s)}
    <3>1. Safe(Job(s))'
      BY <1>g, <2>3 DEF Safe, Settled
    <3> QED
      BY <1>g, <2>1, <2>3, <3>1, TaskGoesOn
  <2> QED
    BY <1>2, <2>2, <2>3 DEF Looks
<1>3. CASE Succeeds(s)
  <2>1. Goes(s, "ack") /\ task[s].next = "process" /\ done' = done \cup {Job(s)}
        /\ UNCHANGED <<at, count, stopping, closed, status>>
    BY <1>3 DEF Succeeds
  <2>2. Safe(Job(s))'
    BY <1>g, <2>1 DEF Safe, Settled
  <2> QED
    BY <1>g, <2>1, <2>2, TaskGoesOn
<1>4. CASE FindsCancelled(s)
  <2>1. Goes(s, "leave") /\ task[s].next = "process" /\ waived' = waived \cup {Job(s)}
        /\ UNCHANGED <<at, count, stopping, closed, status>>
    BY <1>4 DEF FindsCancelled
  <2>2. Safe(Job(s))'
    BY <1>g, <2>1 DEF Safe, Settled
  <2> QED
    BY <1>g, <2>1, <2>2, TaskGoesOn
<1>5. CASE FailsForNow(s)
  <2>1. task[s].next = "process" /\ UNCHANGED <<at, count, stopping, closed, status>>
    BY <1>5 DEF FailsForNow
  <2>2. CASE Goes(s, "reject")
    BY <1>g, <2>1, <2>2, TaskGoesOn
  <2>3. CASE Base /\ MayRetry(s) /\ (Goes(s, "again") \/ Goes(s, "sleep"))
    BY <1>g, <2>1, <2>3, TaskGoesOn
  <2>4. CASE Goes(s, "fail") /\ hopeless' = hopeless \cup {Job(s)}
    BY <1>g, <2>1, <2>4, TaskGoesOn
  <2> QED
    BY <1>5, <2>2, <2>3, <2>4 DEF FailsForNow
<1>6. CASE FailsForGood(s)
  <2>1. Goes(s, "fail") /\ task[s].next = "process" /\ hopeless' = hopeless \cup {Job(s)}
        /\ UNCHANGED <<at, count, stopping, closed, status>>
    BY <1>6 DEF FailsForGood
  <2> QED
    BY <1>g, <2>1, TaskGoesOn
<1>7. CASE Marks(s)
  <2>1. task[s].next = "fail" /\ UNCHANGED <<at, count, stopping, closed>>
    BY <1>7 DEF Marks
  <2>2. Job(s) \in hopeless' \cup cut' /\ Job(s) \in Jobs
    BY <1>j, <2>1 DEF Claims, EndsWithReason, Reason, Grows
  <2>3. \A j \in Jobs : status'[j] = "failed" => status[j] = "failed" \/ j = Job(s)
    BY <1>7 DEF Marks, TypeOK
  <2>4. CASE Base
    <3>1. Goes(s, "reject")
      BY <1>7, <2>4 DEF Marks
    <3> QED
      BY <1>g, <2>1, <2>2, <2>3, <3>1, TaskGoesOn
  <2>5. CASE ~Base
    <3>1. Goes(s, "leave")
      BY <1>7, <2>5 DEF Marks
    <3>2. status'[Job(s)] = "failed" \/ "redis" \in happened'
      BY <1>7, <2>2 DEF Marks, Happens, TypeOK
    <3>3. Job(s)' = Job(s)
      BY <1>g, <3>1
    <3>4. Safe(Job(s))'
      BY <2>5, <3>2, <3>3 DEF Safe, Settled, Losses, Base
    <3> QED
      BY <1>g, <2>1, <2>2, <2>3, <3>1, <3>4, TaskGoesOn
  <2> QED
    BY <2>4, <2>5
<1>8. CASE CannotRepublish(s)
  <2>1. Goes(s, "sleep") /\ task[s].next = "again" /\ UNCHANGED <<at, count, stopping, closed, status>>
    BY <1>8 DEF CannotRepublish, jobVars
  <2>2. Base
    BY <2>1 DEF Claims, RetriesOfBase
  <2> QED
    BY <1>g, <2>1, <2>2, TaskGoesOn
<1>9. CASE CannotAck(s)
  <2>1. Goes(s, "fail") /\ task[s].next = "ack" /\ ~task[s].wired /\ UNCHANGED <<at, count, stopping, closed, status>>
    BY <1>9 DEF CannotAck, jobVars
  <2>2. Job(s) \in cut'
    BY <2>1 DEF Claims, HeldByOne, Grows
  <2> QED
    BY <1>g, <2>1, <2>2, TaskGoesOn
<1>r. Release(s) => stopping' \subseteq stopping /\ task'[s] = Idle /\ \A t \in Slots \ {s} : task'[t] = task[t]
  BY DEF Release, TypeOK
<1>10. CASE Acks(s) \/ Rejects(s) \/ Requeues(s) \/ Escapes(s)
  <2>1. Release(s) /\ task[s].next # "idle" /\ UNCHANGED <<count, status, closed>>
    BY <1>10 DEF Acks, Rejects, Requeues, Escapes, jobVars
  <2>2. \A c \in Copies : \/ at'[c] = at[c]
                          \/ task[s].wired /\ c = task[s].copy /\ at'[c] # "held" /\ at'[c] # "delayed"
    BY <1>10 DEF Acks, Rejects, Requeues, Escapes, Settle, TypeOK
  <2>3. ASSUME NEW job \in Jobs, Job(s) = job PROVE Claims'
    <3>1. Safe(job) => Safe(job)'
      BY SafeLasts
    <3>2. CASE Acks(s)
      <4>1. \/ Safe(job)
            \/ \E c \in Copies : c[1] = job /\ at[c] # "none" /\ count[c] > task[s].count
        BY <2>3, <3>2 DEF Acks, Claims, EndsWithReason, Reason
      <4> QED
        BY <2>1, <2>2, <2>3, <1>r, <3>1, <4>1, TaskReleases
    <3>3. CASE Rejects(s)
      <4>1. Safe(job)'
        BY <2>3, <3>3 DEF Rejects, Safe, Settled
      <4> QED
        BY <2>1, <2>2, <2>3, <1>r, <4>1, TaskReleases
    <3>4. CASE Requeues(s)
      <4>1. at'[task[s].copy] # "none"
        BY <1>j, <2>1, <3>4 DEF Requeues, Settle, TypeOK
      <4> QED
        BY <2>1, <2>2, <2>3, <1>r, <4>1, TaskReleases
    <3>5. CASE Escapes(s)
      <4>1. ~task[s].wired
        BY <3>5 DEF Escapes
      <4> QED
        BY <2>1, <2>2, <2>3, <1>r, <4>1, TaskReleases
    <3> QED
      BY <1>10, <3>2, <3>3, <3>4, <3>5
  <2> QED
    BY <1>j, <2>1, <2>3
<1>11. CASE Republishes(s)
  <2> DEFINE c == FreeCopy(Job(s))
  <2>1. c \in Copies /\ c[1] = Job(s) /\ at[c] = "none"
    BY <1>11 DEF Republishes, FreeCopy
  <2>2. /\ task[s].next = "again" /\ task[s].wired /\ Goes(s, "over")
        /\ at'[c] = "delayed" /\ count'[c] = task[s].count + 1
        /\ \A d \in Copies \ {c} : at'[d] = at[d] /\ count'[d] = count[d]
        /\ UNCHANGED <<status, stopping, closed, hopeless, cut, happened>>
    BY <1>11, <2>1 DEF Republishes, Settle, TypeOK, jobVars
  <2>3. \A t \in Slots : task[t].wired => task[t].copy # c /\ task[t].copy \in Copies
    BY <2>1 DEF Claims, HeldByOne, TypeOK
  <2> HIDE DEF c
  <2>4. Base
    BY <2>2 DEF Claims, RetriesOfBase
  <2>g. /\ \A t \in Slots \ {s} : task'[t] = task[t]
        /\ task'[s].copy = task[s].copy /\ task'[s].count = task[s].count
        /\ task'[s].wired = task[s].wired /\ task'[s].next = "over"
    BY <1>g, <2>2
  <2>n. task[s].count \in Nat
    BY ConsumersAssumption DEF TypeOK, Tasks
  <2>5. HeldByOne'
    <3>1. ASSUME NEW t \in Slots, task[t].wired
          PROVE  at'[task[t].copy] = at[task[t].copy] /\ count'[task[t].copy] = count[task[t].copy]
      BY <2>2, <2>3, <3>1
    <3>2. \A t \in Slots : /\ task'[t].copy = task[t].copy /\ task'[t].count = task[t].count
                           /\ task'[t].wired = task[t].wired
                           /\ task'[t].next = "idle" <=> task[t].next = "idle"
      BY <2>2, <2>g
    <3> QED
      BY <2>2, <3>1, <3>2 DEF Claims, HeldByOne
  <2>6. RetriesOfBase'
    BY <1>g, <2>2, <2>4 DEF Claims, RetriesOfBase, MayRetry, Base
  <2>7. ASSUME NEW t \in Slots PROVE Reason(t)'
    <3>1. CASE t = s
      <4>1. task'[s].copy[1] = c[1] /\ task'[s].count \in Nat /\ task'[s].next = "over"
        BY <2>1, <2>g, <2>n
      <4>2. c \in Copies /\ at'[c] # "none" /\ count'[c] > task'[s].count
        BY <2>1, <2>2, <2>g, <2>n
      <4> QED
        BY <3>1, <4>1, <4>2 DEF Reason
    <3>2. CASE t # s
      <4>1. task'[t] = task[t] /\ \A d \in Copies : at[d] # "none" => at'[d] # "none" /\ count'[d] = count[d]
        BY <2>1, <2>2, <2>g, <3>2
      <4> QED
        BY <4>1, ReasonLasts DEF Claims, EndsWithReason
    <3> QED
      BY <3>1, <3>2
  <2>8. EndsWithReason'
    BY <2>2, <2>7 DEF Claims, EndsWithReason
  <2>9. NothingVanishes'
    <3>1. \A j \in Jobs : Alive(j) => Alive(j)'
      BY <2>1, <2>2 DEF Alive
    <3> QED
      BY <3>1, SafeLasts DEF Claims, NothingVanishes
  <2>10. FailedForCause'
    BY <2>2 DEF Claims, FailedForCause
  <2> QED
    BY <2>5, <2>6, <2>8, <2>9, <2>10 DEF Claims
<1> QED
  BY <1>1, <1>2, <1>3, <1>4, <1>5, <1>6, <1>7, <1>8, <1>9, <1>10, <1>11 DEF TaskStep

---------------------------------------------------------------------------
(* A replica loses its connection, ends or dies: its copies are ready      *)
(* again, its tasks are cut off or gone.                                   *)
LEMMA CopiesGoBack ==
  ASSUME TypeOK, Claims, Grows, env' = env, NEW w \in Replicas,
         \A c \in Copies : at'[c] = at[c] \/ (c \in InHand(w) /\ at'[c] = "ready"),
         \A t \in Slots : \/ task'[t] = task[t] /\ (at' # at => t \notin Wired(w))
                        \/ task'[t] = Idle
                        \/ /\ ~task'[t].wired /\ task'[t].next = task[t].next
                           /\ task'[t].copy = task[t].copy /\ task'[t].count = task[t].count
                           /\ ~Comes(t, "idle") => Job(t) \in cut',
         stopping' \subseteq stopping, UNCHANGED <<count, status>>
  PROVE  Claims'
<1> USE DEF Comes, Job
<1>t. \A t \in Slots : task[t].next # "idle" => task[t].copy \in Copies /\ task[t].copy[1] \in Jobs
  BY DEF TypeOK, Copies
<1>w. \A t \in Slots : t \in Wired(w) <=> Of(t) = w /\ task[t].wired
  BY DEF Wired
<1>n. Idle.next = "idle" /\ ~Idle.wired
  BY DEF Idle
<1>a. \A c \in Copies : at[c] # "none" => at'[c] # "none" /\ count'[c] = count[c]
  OBVIOUS
<1>1. HeldByOne'
  <2>1. ASSUME NEW t \in Slots, task'[t].wired
        PROVE  /\ task'[t] = task[t] /\ at'[task[t].copy] = "held"
    <3>1. task'[t] = task[t] /\ (at' # at => t \notin Wired(w))
      BY <1>n, <2>1
    <3>2. task[t].copy \in Copies /\ at[task[t].copy] = "held"
      BY <1>t, <2>1, <3>1 DEF Claims, HeldByOne
    <3>3. CASE t \notin Wired(w)
      <4>1. task[t].copy \notin InHand(w)
        BY <2>1, <3>1, <3>3, <1>w DEF Claims, HeldByOne, InHand, Wired
      <4> QED
        BY <3>1, <3>2, <4>1
    <3>4. CASE at' = at
      BY <3>1, <3>2, <3>4
    <3> QED
      BY <3>1, <3>3, <3>4
  <2>2. ASSUME NEW t \in Slots, ~task'[t].wired, task'[t].next # "idle" PROVE task'[t].copy[1] \in cut'
    BY <1>n, <2>2 DEF Claims, HeldByOne, Grows
  <2> QED
    BY <2>1, <2>2 DEF Claims, HeldByOne
<1>2. RetriesOfBase'
  BY <1>n DEF Claims, RetriesOfBase, MayRetry, Base
<1>3. ASSUME NEW t \in Slots PROVE Reason(t)'
  <2>1. CASE task'[t] = task[t]
    BY <1>a, <2>1, ReasonLasts DEF Claims, EndsWithReason
  <2>2. CASE task'[t] = Idle
    BY <1>n, <2>2 DEF Reason
  <2>3. CASE ~task'[t].wired /\ task'[t].next = task[t].next /\ task'[t].copy = task[t].copy
    BY <2>3 DEF Reason, Claims, EndsWithReason, Grows
  <2> QED
    BY <2>1, <2>2, <2>3
<1>4. EndsWithReason'
  BY <1>3 DEF Claims, EndsWithReason, Grows
<1>5. NothingVanishes'
  <2>1. \A j \in Jobs : Alive(j) => Alive(j)'
    BY <1>a DEF Alive
  <2> QED
    BY <2>1, SafeLasts DEF Claims, NothingVanishes
<1>6. FailedForCause'
  BY DEF Claims, FailedForCause, Grows
<1> QED
  BY <1>1, <1>2, <1>4, <1>5, <1>6 DEF Claims

LEMMA OtherClaims ==
  ASSUME TypeOK, Claims, Grows, env' = env,
         \/ \E w \in Replicas : Closes(w) \/ Ends(w) \/ Drops(w) \/ IsToldToStop(w) \/ Dies(w)
         \/ \E c \in Copies : Fires(c) \/ Overflows(c)
         \/ \E j \in Jobs : IsCancelled(j)
  PROVE  Claims'
<1>j. \A t \in Slots : ~Comes(t, "idle") => task[t].copy \in Copies /\ Job(t) \in Jobs
  BY DEF TypeOK, Copies, Comes, Job
<1>a. ASSUME NEW w \in Replicas
      PROVE  \A c \in Copies : TakenBack(w)[c] = at[c] \/ (c \in InHand(w) /\ TakenBack(w)[c] = "ready")
  BY DEF TakenBack
<1>s. \A j \in Jobs : Safe(j) => Safe(j)'
  BY SafeLasts
<1>1. ASSUME NEW w \in Replicas, Closes(w) \/ Drops(w) PROVE Claims'
  <2>1. /\ at' = TakenBack(w) /\ task' = Unwired(w) /\ cut' = Cut(w)
        /\ UNCHANGED <<count, status, stopping>>
    BY <1>1 DEF Closes, Drops
  <2>2. ASSUME NEW t \in Slots, t \in Wired(w)
        PROVE  /\ ~task'[t].wired /\ task'[t].next = task[t].next
               /\ task'[t].copy = task[t].copy /\ task'[t].count = task[t].count
               /\ ~Comes(t, "idle") => Job(t) \in cut'
    <3>1. task'[t] = [task[t] EXCEPT !.wired = FALSE]
      BY <2>1, <2>2 DEF Unwired
    <3>2. task[t].copy \in InHand(w)
      BY <2>2 DEF InHand
    <3>3. Job(t) \in cut'
      BY <2>1, <3>2 DEF Cut, Job
    <3> QED
      BY <3>1, <3>3 DEF TypeOK, Tasks
  <2>3. \A t \in Slots \ Wired(w) : task'[t] = task[t]
    BY <2>1 DEF Unwired
  <2> QED
    BY <1>a, <2>1, <2>2, <2>3, CopiesGoBack
<1>2. ASSUME NEW w \in Replicas, Dies(w) PROVE Claims'
  <2>1. at' = TakenBack(w) /\ UNCHANGED <<count, status>> /\ stopping' \subseteq stopping
    BY <1>2 DEF Dies, jobVars
  <2>2. \A t \in Slots : task'[t] = Idle \/ (task'[t] = task[t] /\ t \notin Wired(w))
    BY <1>2 DEF Dies, Wired
  <2> QED
    BY <1>a, <2>1, <2>2, CopiesGoBack
<1>3. ASSUME NEW w \in Replicas, Ends(w) PROVE Claims'
  <2>1. at' = at /\ UNCHANGED <<count, status>> /\ stopping' \subseteq stopping
    BY <1>3 DEF Ends, jobVars
  <2>2. \A t \in Slots : task'[t] = Idle \/ task'[t] = task[t]
    BY <1>3 DEF Ends
  <2> QED
    BY <2>1, <2>2, CopiesGoBack, <1>3
<1>4. ASSUME NEW w \in Replicas, IsToldToStop(w) PROVE Claims'
  <2>1. UNCHANGED <<at, count, task, status, hopeless, cut>> /\ "stop" \in happened'
    BY <1>4 DEF IsToldToStop, Happens, jobVars
  <2>2. \A t \in Slots : Reason(t)'
    BY <2>1, ReasonLasts DEF Claims, EndsWithReason
  <2> QED
    BY <1>s, <2>1, <2>2 DEF Claims, HeldByOne, RetriesOfBase, EndsWithReason, NothingVanishes, FailedForCause,
       Alive, Comes, Job, MayRetry, Base
<1>5. ASSUME NEW c \in Copies, Fires(c) PROVE Claims'
  <2>1. /\ at[c] = "delayed" /\ at'[c] = "ready" /\ \A d \in Copies \ {c} : at'[d] = at[d]
        /\ UNCHANGED <<count, task, status, stopping, hopeless, cut, happened>>
    BY <1>5 DEF Fires, Settle, TypeOK, jobVars
  <2>2. \A d \in Copies : (at[d] = "held" => at'[d] = "held") /\ (at[d] # "none" => at'[d] # "none")
                          /\ (at'[d] = "delayed" => at[d] = "delayed")
    BY <2>1
  <2>3. \A t \in Slots : Reason(t)'
    BY <2>1, <2>2, ReasonLasts DEF Claims, EndsWithReason
  <2>4. HeldByOne'
    BY <1>j, <2>1, <2>2 DEF Claims, HeldByOne, Comes, Job
  <2>5. NothingVanishes'
    BY <1>s, <2>2 DEF Claims, NothingVanishes, Alive
  <2> QED
    BY <2>1, <2>2, <2>3, <2>4, <2>5 DEF Claims, RetriesOfBase, EndsWithReason, FailedForCause, Comes, MayRetry, Base
<1>6. ASSUME NEW c \in Copies, Overflows(c) PROVE Claims'
  <2>1. /\ at[c] = "delayed" /\ at'[c] = "none" /\ \A d \in Copies \ {c} : at'[d] = at[d]
        /\ UNCHANGED <<count, task, status, stopping, hopeless, cut>> /\ "full" \in happened'
    BY <1>6 DEF Overflows, Settle, Happens, TypeOK, jobVars
  <2>2. Base
    BY <2>1 DEF Claims, RetriesOfBase
  <2>3. \A j \in Jobs : Safe(j)'
    BY <2>1, <2>2 DEF Safe, Losses, Base
  <2>4. \A t \in Slots : Reason(t)'
    <3>1. ASSUME NEW t \in Slots, ~Comes(t, "idle") PROVE Reason(t)'
      <4>1. Safe(Job(t))'
        BY <1>j, <2>1, <2>3, <3>1 DEF Job
      <4> QED
        BY <2>1, <4>1 DEF Reason, Claims, EndsWithReason, Comes, Job
    <3>2. ASSUME NEW t \in Slots, Comes(t, "idle") PROVE Reason(t)'
      BY <2>1, <3>2 DEF Reason, Comes
    <3> QED
      BY <3>1, <3>2
  <2>5. HeldByOne'
    BY <1>j, <2>1 DEF Claims, HeldByOne, Comes, Job
  <2> QED
    BY <2>1, <2>2, <2>3, <2>4, <2>5
    DEF Claims, RetriesOfBase, EndsWithReason, NothingVanishes, FailedForCause, Grows, Comes, MayRetry, Base
<1>7. ASSUME NEW j \in Jobs, IsCancelled(j) PROVE Claims'
  <2>1. UNCHANGED <<at, count, task, stopping, hopeless, cut>> /\ \A i \in Jobs : status'[i] = "failed" => status[i] = "failed"
    BY <1>7 DEF IsCancelled, TypeOK
  <2>2. \A t \in Slots : Reason(t)'
    BY <2>1, ReasonLasts DEF Claims, EndsWithReason
  <2> QED
    BY <1>s, <2>1, <2>2 DEF Claims, HeldByOne, RetriesOfBase, EndsWithReason, NothingVanishes, FailedForCause,
       Alive, Comes, Job, MayRetry, Base, Grows
<1> QED
  BY <1>1, <1>2, <1>3, <1>4, <1>5, <1>6, <1>7

---------------------------------------------------------------------------
LEMMA NextIInv == IInv /\ [Next]_vars => IInv'
<1> SUFFICES ASSUME IInv, [Next]_vars PROVE IInv'
  OBVIOUS
<1>i. TypeOK /\ Claims
  BY DEF IInv, Claims
<1>1. CASE Next
  <2>1. Grows /\ env' = env
    BY <1>i, <1>1, NextGrows DEF Next
  <2>2. ASSUME NEW s \in Slots, TaskStep(s) PROVE TypeOK' /\ Claims'
    BY <1>i, <2>1, <2>2, TaskTypes, TaskClaims DEF Claims
  <2>3. ASSUME \/ \E w \in Replicas : Closes(w) \/ Ends(w) \/ Drops(w) \/ IsToldToStop(w) \/ Dies(w)
               \/ \E c \in Copies : Fires(c) \/ Overflows(c)
               \/ \E j \in Jobs : IsCancelled(j)
        PROVE  TypeOK' /\ Claims'
    BY <1>i, <2>1, <2>3, OtherTypes, OtherClaims DEF Claims
  <2> QED
    BY <1>1, <2>2, <2>3 DEF Next, SystemStep, IInv, Claims
<1>2. CASE UNCHANGED vars
  <2> USE DEF vars, jobVars
  <2>1. TypeOK'
    BY <1>i, <1>2 DEF TypeOK, Comes
  <2>2. Grows /\ env' = env
    BY <1>2 DEF Grows
  <2>3. \A t \in Slots : Reason(t)'
    BY <1>i, <1>2, <2>2, ReasonLasts DEF Claims, EndsWithReason
  <2>4. \A j \in Jobs : Safe(j) => Safe(j)'
    BY <2>2, SafeLasts
  <2> QED
    BY <1>i, <1>2, <2>1, <2>3, <2>4 DEF IInv, Claims, HeldByOne, RetriesOfBase, EndsWithReason, NothingVanishes,
       FailedForCause, Alive, Comes, Job, MayRetry, Base
<1> QED
  BY <1>1, <1>2

(* Every delivery is in the hands of one task, and what is about to be     *)
(* acknowledged has a reason to be.                                        *)
THEOREM Invariance == Spec => []IInv
  BY InitIInv, NextIInv, PTL DEF Spec

(* No message vanishes unless a queue was full, or in BaseAsyncWorker a    *)
(* stop or an unwritten failure came in between (_on_message, on_message,  *)
(* _retry_via_delayed_exchange).                                           *)
THEOREM NothingLost == Spec => []NothingVanishes
<1>1. IInv => NothingVanishes
  BY DEF IInv
<1> QED
  BY <1>1, Invariance, PTL

(* A job is marked as failed only for a permanent error, its last retry or *)
(* a lost connection (_handle_permanent_error).                            *)
THEOREM CauseOfFailure == Spec => []FailedForCause
<1>1. IInv => FailedForCause
  BY DEF IInv
<1> QED
  BY <1>1, Invariance, PTL
=============================================================================
