------------------------- MODULE InferenceAdaptive -------------------------
(***************************************************************************)
(* The inference worker with INFERENCE_ADAPTIVE_ENABLED=true: every chunk  *)
(* message is handled by an executor thread (_adaptive_task) that claims   *)
(* the chunk in Redis (SET NX) before it stores its result, and whose ack  *)
(* is scheduled on the consumer thread of the connection it came from.     *)
(*                                                                         *)
(* A worker here is a thread with the connection it consumes from: the     *)
(* threads of one process that lose their connection together are a        *)
(* sequence of ConnectionLost steps.                                       *)
(***************************************************************************)
EXTENDS InferenceJob

CONSTANTS
    Failures,           \* the kinds of failure that happen, of FailureKinds
    MaxFailures         \* bound: how many of them happen

(* A process that dies while it handles a chunk, a connection lost while a *)
(* chunk is handled, a Redis or event-bus error.                           *)
FailureKinds == {"crash", "drop", "fault"}

ASSUME FailureAssumption ==
    /\ Failures \subseteq FailureKinds
    /\ MaxFailures \in Nat

VARIABLES
    counted,            \* history: chunks whose DECR has been executed
    cancelled,          \* the job's status is "cancelled"
    failures            \* how many failures there have been

vars == <<jobVars, counted, cancelled, failures>>

Init ==
    /\ JobInit
    /\ counted = {}
    /\ cancelled = FALSE
    /\ failures = 0

(* POST /cancel of the orchestrator, seen from this stage.                 *)
Cancel ==
    /\ ~cancelled
    /\ cancelled' = TRUE
    /\ UNCHANGED <<jobVars, counted, failures>>

(* Delivery of a chunk message to a free thread, up to the LLM call.       *)
Take(w, m) ==
    /\ pc[w] = "idle"
    /\ m \in queue
    /\ queue' = queue \ {m}
    /\ unacked' = [unacked EXCEPT ![w] = @ \cup {m}]
    /\ cur' = [cur EXCEPT ![w] = m]
    /\ pc' = [pc EXCEPT ![w] = "claim"]
    /\ UNCHANGED <<entryVars, acked, countVars, resultVars, counted, cancelled>>

TakeChunk(w, m) ==
    /\ ~cancelled
    /\ Take(w, m)
    /\ UNCHANGED failures

(* A chunk of a cancelled job is rejected without requeue.                 *)
SkipCancelled(w, m) ==
    /\ pc[w] = "idle"
    /\ m \in queue
    /\ cancelled
    /\ queue' = queue \ {m}
    /\ UNCHANGED <<entryVars, unacked, acked, countVars, resultVars, pc, cur, counted, cancelled, failures>>

(* The handler is over: its thread is free again.                          *)
Return(w) ==
    /\ pc' = [pc EXCEPT ![w] = "idle"]
    /\ cur' = [cur EXCEPT ![w] = NoMsg]

StoreStep(w) ==
    /\ ResultStep(w)
    /\ counted' = IF pc[w] = "count" THEN counted \cup {Chunk(cur[w])} ELSE counted
    /\ UNCHANGED <<cancelled, failures>>

(* The scheduled ack: dropped when the connection it belongs to is gone    *)
(* (the broker has taken the message back by then).                        *)
AckChunk(w) ==
    /\ pc[w] = "ack"
    /\ unacked' = [unacked EXCEPT ![w] = @ \ {cur[w]}]
    /\ acked' = IF cur[w] \in unacked[w] THEN acked \cup {Chunk(cur[w])} ELSE acked
    /\ Return(w)
    /\ UNCHANGED <<entryVars, queue, countVars, resultVars, counted, cancelled, failures>>

---------------------------------------------------------------------------
(* Failures.                                                               *)

Fail(kind) ==
    /\ kind \in Failures
    /\ failures < MaxFailures
    /\ failures' = failures + 1

(* _is_cancelled takes a Redis error for "not cancelled".                  *)
TakeUnchecked(w, m) ==
    /\ cancelled
    /\ Fail("fault")
    /\ Take(w, m)

(* An exception out of the handler: nack with requeue, dropped like the    *)
(* ack when the connection is gone.                                        *)
TaskFault(w) ==
    /\ pc[w] \notin {"idle", "ack"}
    /\ Fail("fault")
    /\ queue' = queue \cup (unacked[w] \cap {cur[w]})
    /\ unacked' = [unacked EXCEPT ![w] = @ \ {cur[w]}]
    /\ Return(w)
    /\ UNCHANGED <<entryVars, acked, countVars, resultVars, counted, cancelled>>

CaughtFault(w) ==
    /\ AssemblyFault(w)
    /\ Fail("fault")
    /\ UNCHANGED <<counted, cancelled>>

(* The broker takes back what the connection had not acknowledged; the     *)
(* thread keeps working on its chunk.                                      *)
ConnectionLost(w) ==
    /\ unacked[w] # {}
    /\ Fail("drop")
    /\ queue' = queue \cup unacked[w]
    /\ unacked' = [unacked EXCEPT ![w] = {}]
    /\ UNCHANGED <<entryVars, acked, countVars, resultVars, pc, cur, counted, cancelled>>

(* The process dies; a new one takes its place with nothing in memory.     *)
Crash(w) ==
    /\ pc[w] # "idle"
    /\ Fail("crash")
    /\ queue' = queue \cup unacked[w]
    /\ unacked' = [unacked EXCEPT ![w] = {}]
    /\ Return(w)
    /\ UNCHANGED <<entryVars, acked, countVars, resultVars, counted, cancelled>>

Entry ==
    /\ EntryStep \/ EntryRedelivered \/ EntryFail
    /\ UNCHANGED <<counted, cancelled, failures>>

WorkerStep(w) ==
    \/ \E m \in queue : TakeChunk(w, m) \/ SkipCancelled(w, m)
    \/ StoreStep(w) \/ AckChunk(w)

Failure(w) ==
    \/ \E m \in queue : TakeUnchecked(w, m)
    \/ TaskFault(w) \/ CaughtFault(w) \/ ConnectionLost(w) \/ Crash(w)

Next ==
    \/ Entry
    \/ Cancel
    \/ \E w \in Workers : WorkerStep(w) \/ Failure(w)

Spec == Init /\ [][Next]_vars

(* The entry handler and the executor threads are running code: a step     *)
(* that stays possible is taken.  Failures and cancellation are not owed.  *)
FairSpec ==
    /\ Spec
    /\ WF_vars(EntryStep /\ UNCHANGED <<counted, cancelled, failures>>)
    /\ \A w \in Workers : WF_vars(WorkerStep(w))

---------------------------------------------------------------------------
(* Properties.                                                             *)

(* The types of all variables.                                             *)
TypeOK ==
    /\ JobTypeOK
    /\ counted \subseteq Chunks
    /\ cancelled \in BOOLEAN
    /\ failures \in 0..MaxFailures

(* The counter never runs ahead of the results: as long as nothing has     *)
(* been assembled, at least as many results are in the list as chunks have *)
(* been counted down, so a worker that sees zero finds everything there.   *)
CounterCovered ==
    (counted # {} /\ final = <<>>) => N - remaining <= Len(raw)

(* Every chunk is counted down at most once: no redelivery decrements the  *)
(* counter for a chunk that was counted before.                            *)
CountedOnce ==
    [][\A w \in Workers : (pc[w] = "count" /\ pc'[w] \in {"lock", "report"})
                            => Chunk(cur[w]) \notin counted]_vars

(* Once all chunks are dispatched the end of the stage is announced, even  *)
(* when connections are lost and acknowledgements dropped on the way.      *)
EventuallyAnnounced == (dpc = "acked") ~> (announced \/ cancelled)

---------------------------------------------------------------------------
(* The inductive invariant behind the safety properties.                   *)

(* The step of a consumer that has a chunk in hand.                        *)
Storing == {"push", "count"}

HasMessage == \A w \in Workers : pc[w] # "idle" => cur[w] \in Msgs

(* The claim gives a chunk to one worker, until it has been counted.       *)
ClaimIsExclusive ==
    /\ \A w \in Workers : pc[w] \in Storing =>
          /\ Chunk(cur[w]) \in claimed
          /\ Chunk(cur[w]) \notin counted
    /\ \A v, w \in Workers :
          (pc[v] \in Storing /\ pc[w] \in Storing /\ v # w)
             => Chunk(cur[v]) # Chunk(cur[w])

(* RPUSH after the claim and before DECR.                                  *)
PushBeforeCount ==
    /\ counted \subseteq Stored
    /\ Stored \subseteq claimed
    /\ \A w \in Workers : pc[w] = "push" => Chunk(cur[w]) \notin Stored
    /\ \A w \in Workers : pc[w] = "count" => Chunk(cur[w]) \in Stored

ListedOnce == \A i, j \in DOMAIN raw : raw[i] = raw[j] => i = j

NothingPublished ==
    /\ dpc \in {"remaining", "failed"}
    /\ queue = {}
    /\ counted = {}
    /\ \A w \in Workers : pc[w] = "idle" /\ unacked[w] = {}

(* The counter is never below the number of chunks yet to be counted.      *)
CounterBounds == NothingPublished \/ remaining >= N - Cardinality(counted)

AssemblyPhase ==
    /\ \A w \in Workers : pc[w] \in {"lock"} \cup Assembling => counted = Chunks
    /\ \A w \in Workers : pc[w] \in Assembling => lock
    /\ \A w \in Workers : pc[w] = "read" => final = <<>>
    /\ \A w \in Workers : pc[w] \in Assembling \ {"read"} => final # <<>>
    /\ final # <<>> => lock

IInv ==
    /\ TypeOK
    /\ HasMessage
    /\ ClaimIsExclusive
    /\ PushBeforeCount
    /\ ListedOnce
    /\ CounterBounds
    /\ AssemblyPhase
    /\ OneAssembler
    /\ FinalComplete
    /\ CompletedHasResult
=============================================================================
