---------------------------- MODULE InferenceJob ----------------------------
(***************************************************************************)
(* The inference stage of one textFlow job: what every consumer of the     *)
(* `inferences` queue shares.  The entry worker (extraction, audio, image) *)
(* writes the two Redis counters and publishes one message per chunk; the  *)
(* consumer that counts the last chunk assembles the final result under a  *)
(* Redis lock.  InferenceAdaptive and InferenceBatch add the two ways a    *)
(* consumer takes a message from the queue to the counter.                 *)
(*                                                                         *)
(* One step is one Redis command or one broker operation, except where     *)
(* nobody else can see the difference (StoreFinal, CleanKeys).             *)
(***************************************************************************)
EXTENDS Integers, Sequences, FiniteSets

CONSTANTS
    N,                  \* the number of non-empty chunks of the job
    Workers,            \* consumers of the inferences queue
    MaxDispatch         \* bound: deliveries of the job's entry message

ASSUME SizeAssumption ==
    /\ N \in Nat \ {0}
    /\ MaxDispatch \in Nat \ {0}

VARIABLES
    dispatch, dpc, sent,          \* the entry worker
    queue, unacked, acked,        \* the broker (acked: history)
    remaining, total, raw,        \* Redis: counters and intermediate list
    claimed,                      \* Redis: chunks whose chunk_done key exists
    lock, final, step,            \* Redis: assembly lock, result, step
    announced,                    \* job_progress(80, "inferences") was sent
    pc, cur                       \* the consumers

entryVars  == <<dispatch, dpc, sent>>
brokerVars == <<queue, unacked, acked>>
countVars  == <<remaining, total, raw, claimed>>
resultVars == <<lock, final, step, announced>>
jobVars    == <<entryVars, brokerVars, countVars, resultVars, pc, cur>>

Chunks == 1..N
Msgs   == Chunks \X (1..MaxDispatch)   \* <<chunk_id, dispatch it came from>>

NoMsg  == <<0, 0>>                     \* a consumer between two messages

Chunk(m) == m[1]
ElementsOf(s) == {s[i] : i \in DOMAIN s}

Assembling == {"read", "clean", "complete", "announce"}
Pcs == {"idle", "claim", "push", "count", "report", "lock", "ack"} \cup Assembling

(* An absent Redis counter reads as 0: DECR creates it at 0 before it      *)
(* decrements, and the assembler takes a missing total for 0.  An absent   *)
(* final result is the empty sequence.                                     *)
JobInit ==
    /\ dispatch = 1 /\ dpc = "remaining" /\ sent = 0
    /\ queue = {} /\ unacked = [w \in Workers |-> {}] /\ acked = {}
    /\ remaining = 0 /\ total = 0 /\ raw = <<>> /\ claimed = {}
    /\ lock = FALSE /\ final = <<>> /\ step = "none" /\ announced = FALSE
    /\ pc = [w \in Workers |-> "idle"]
    /\ cur = [w \in Workers |-> NoMsg]

---------------------------------------------------------------------------
(* The entry worker.  The counters are written before the first publish.   *)

SetRemaining ==
    /\ dpc = "remaining"
    /\ remaining' = N
    /\ dpc' = "total"
    /\ UNCHANGED <<dispatch, sent, brokerVars, total, raw, claimed, resultVars, pc, cur>>

SetTotal ==
    /\ dpc = "total"
    /\ total' = N
    /\ dpc' = "publish"
    /\ UNCHANGED <<dispatch, sent, brokerVars, remaining, raw, claimed, resultVars, pc, cur>>

PublishChunk ==
    /\ dpc = "publish"
    /\ sent < N
    /\ queue' = queue \cup {<<sent + 1, dispatch>>}
    /\ sent' = sent + 1
    /\ UNCHANGED <<dispatch, dpc, unacked, acked, countVars, resultVars, pc, cur>>

(* The handler returned: the entry message is acknowledged.                *)
EntryAck ==
    /\ dpc = "publish"
    /\ sent = N
    /\ dpc' = "acked"
    /\ UNCHANGED <<dispatch, sent, brokerVars, countVars, resultVars, pc, cur>>

(* A publish raised: the job is marked failed and the entry message is     *)
(* rejected without requeue; the chunks already published stay queued.     *)
EntryFail ==
    /\ dpc \in {"remaining", "total", "publish"}
    /\ dpc' = "failed"
    /\ UNCHANGED <<dispatch, sent, brokerVars, countVars, resultVars, pc, cur>>

(* The entry worker died or lost its connection before the acknowledgement: *)
(* the broker delivers the entry message again and the handler starts over. *)
EntryRedelivered ==
    /\ dpc \in {"remaining", "total", "publish"}
    /\ dispatch < MaxDispatch
    /\ dispatch' = dispatch + 1
    /\ dpc' = "remaining"
    /\ sent' = 0
    /\ UNCHANGED <<brokerVars, countVars, resultVars, pc, cur>>

EntryStep == SetRemaining \/ SetTotal \/ PublishChunk \/ EntryAck

---------------------------------------------------------------------------
(* Storing one chunk result: optionally SET chunk_done NX, by which only   *)
(* one delivery of a chunk goes on; then RPUSH; then DECR of the counter.  *)

(* Mutant: SET without NX, every delivery goes on.                         *)
ClaimEveryDelivery(w) ==
    /\ pc[w] = "claim"
    /\ claimed' = claimed \cup {Chunk(cur[w])}
    /\ pc' = [pc EXCEPT ![w] = "push"]
    /\ UNCHANGED <<entryVars, brokerVars, remaining, total, raw, resultVars, cur>>

ClaimChunk(w) ==
    /\ pc[w] = "claim"
    /\ Chunk(cur[w]) \notin claimed
    /\ claimed' = claimed \cup {Chunk(cur[w])}
    /\ pc' = [pc EXCEPT ![w] = "push"]
    /\ UNCHANGED <<entryVars, brokerVars, remaining, total, raw, resultVars, cur>>

IgnoreDuplicate(w) ==
    /\ pc[w] = "claim"
    /\ Chunk(cur[w]) \in claimed
    /\ pc' = [pc EXCEPT ![w] = "ack"]
    /\ UNCHANGED <<entryVars, brokerVars, countVars, resultVars, cur>>

PushResult(w) ==
    /\ pc[w] = "push"
    /\ raw' = Append(raw, Chunk(cur[w]))
    /\ pc' = [pc EXCEPT ![w] = "count"]
    /\ UNCHANGED <<entryVars, brokerVars, remaining, total, claimed, resultVars, cur>>

(* Mutant: assembly starts one chunk early.                                *)
CountOneEarly(w) ==
    /\ pc[w] = "count"
    /\ remaining' = remaining - 1
    /\ pc' = [pc EXCEPT ![w] = IF remaining' <= 1 THEN "lock" ELSE "report"]
    /\ UNCHANGED <<entryVars, brokerVars, total, raw, claimed, resultVars, cur>>

CountChunk(w) ==
    /\ pc[w] = "count"
    /\ remaining' = remaining - 1
    /\ pc' = [pc EXCEPT ![w] = IF remaining' <= 0 THEN "lock" ELSE "report"]
    /\ UNCHANGED <<entryVars, brokerVars, total, raw, claimed, resultVars, cur>>

(* The incremental progress event of a chunk that was not the last one.    *)
ReportChunk(w) ==
    /\ pc[w] = "report"
    /\ pc' = [pc EXCEPT ![w] = "ack"]
    /\ UNCHANGED <<entryVars, brokerVars, countVars, resultVars, cur>>

---------------------------------------------------------------------------
(* Assembly.                                                               *)

(* Mutant: the outcome of SETNX is ignored.                                *)
IgnoreLock(w) ==
    /\ pc[w] = "lock"
    /\ lock' = TRUE
    /\ pc' = [pc EXCEPT ![w] = "read"]
    /\ UNCHANGED <<entryVars, brokerVars, countVars, final, step, announced, cur>>

(* SETNX of the assembly lock; whoever finds it taken skips the assembly.  *)
AcquireLock(w) ==
    /\ pc[w] = "lock"
    /\ lock' = TRUE
    /\ pc' = [pc EXCEPT ![w] = IF lock THEN "ack" ELSE "read"]
    /\ UNCHANGED <<entryVars, brokerVars, countVars, final, step, announced, cur>>

(* assembled.sort(key=chunk_id): place i holds the chunk c for which fewer *)
(* than i entries come before chunk c and at least i come up to it.        *)
UpTo(s, c) == Cardinality({j \in DOMAIN s : s[j] <= c})

ByChunkId(s) ==
    [i \in DOMAIN s |-> CHOOSE c \in Chunks : UpTo(s, c - 1) < i /\ i <= UpTo(s, c)]

(* Mutant: the results are stored in the order in which they arrived.      *)
StoreUnsorted(w) ==
    /\ pc[w] = "read"
    /\ final' = raw
    /\ pc' = [pc EXCEPT ![w] = "clean"]
    /\ UNCHANGED <<entryVars, brokerVars, countVars, lock, step, announced, cur>>

(* LRANGE, GET total and SET of the final key: the lock holder is the only *)
(* one to read or write the final key, so the SET may be taken to happen   *)
(* together with the LRANGE.  A list shorter than the known total defers:  *)
(* the lock is deleted and nothing is stored.                              *)
StoreFinal(w) ==
    /\ pc[w] = "read"
    /\ IF total # 0 /\ Len(raw) < total
       THEN /\ lock' = FALSE
            /\ pc' = [pc EXCEPT ![w] = "ack"]
            /\ UNCHANGED final
       ELSE /\ final' = ByChunkId(raw)
            /\ pc' = [pc EXCEPT ![w] = "clean"]
            /\ UNCHANGED lock
    /\ UNCHANGED <<entryVars, brokerVars, countVars, step, announced, cur>>

(* Mutant: the final key is deleted with the intermediate ones.            *)
CleanFinalToo(w) ==
    /\ pc[w] = "clean"
    /\ raw' = <<>>
    /\ remaining' = 0
    /\ total' = 0
    /\ final' = <<>>
    /\ pc' = [pc EXCEPT ![w] = "complete"]
    /\ UNCHANGED <<entryVars, brokerVars, claimed, lock, step, announced, cur>>

(* The three DELs: raw list, remaining, total.                             *)
CleanKeys(w) ==
    /\ pc[w] = "clean"
    /\ raw' = <<>>
    /\ remaining' = 0
    /\ total' = 0
    /\ pc' = [pc EXCEPT ![w] = "complete"]
    /\ UNCHANGED <<entryVars, brokerVars, claimed, resultVars, cur>>

CompleteStep(w) ==
    /\ pc[w] = "complete"
    /\ step' = "completed"
    /\ pc' = [pc EXCEPT ![w] = "announce"]
    /\ UNCHANGED <<entryVars, brokerVars, countVars, lock, final, announced, cur>>

Announce(w) ==
    /\ pc[w] = "announce"
    /\ announced' = TRUE
    /\ pc' = [pc EXCEPT ![w] = "ack"]
    /\ UNCHANGED <<entryVars, brokerVars, countVars, lock, final, step, cur>>

(* A Redis error inside the assembly is caught: the step is marked failed, *)
(* the lock is kept and the caller goes on to its acknowledgement.         *)
AssemblyFault(w) ==
    /\ pc[w] \in Assembling
    /\ step' = "failed"
    /\ pc' = [pc EXCEPT ![w] = "ack"]
    /\ UNCHANGED <<entryVars, brokerVars, countVars, lock, final, announced, cur>>

(* What a consumer does between the LLM call and the ack, errors aside.    *)
ResultStep(w) ==
    \/ ClaimChunk(w) \/ IgnoreDuplicate(w)
    \/ PushResult(w) \/ CountChunk(w) \/ ReportChunk(w)
    \/ AcquireLock(w) \/ StoreFinal(w) \/ CleanKeys(w)
    \/ CompleteStep(w) \/ Announce(w)

---------------------------------------------------------------------------
(* Vocabulary of the properties.                                           *)

JobTypeOK ==
    /\ dispatch \in 1..MaxDispatch
    /\ dpc \in {"remaining", "total", "publish", "acked", "failed"}
    /\ sent \in 0..N
    /\ queue \subseteq Msgs
    /\ unacked \in [Workers -> SUBSET Msgs]
    /\ acked \subseteq Chunks
    /\ remaining \in Int
    /\ total \in {0, N}
    /\ raw \in Seq(Chunks)
    /\ claimed \subseteq Chunks
    /\ lock \in BOOLEAN
    /\ final \in Seq(Chunks)
    /\ step \in {"none", "completed", "failed"}
    /\ announced \in BOOLEAN
    /\ pc \in [Workers -> Pcs]
    /\ cur \in [Workers -> Msgs \cup {NoMsg}]

Stored == ElementsOf(raw) \cup ElementsOf(final)

(* One result for each chunk, in the order of the chunks.                  *)
Complete == [c \in Chunks |-> c]

(* The final result lists every chunk of the job exactly once and in order *)
(* ("all chunks' inferences in order"), whatever was redelivered,          *)
(* dispatched twice or interrupted.                                        *)
FinalComplete == final # <<>> => final = Complete

(* A worker that sees the counter at zero finds a result for every chunk:  *)
(* the RPUSH of a chunk comes before its DECR, so assembly never has to be *)
(* deferred and a stored result is never short.                            *)
AssemblyFindsAll ==
    /\ \A w \in Workers : pc[w] = "read" => Len(raw) >= N
    /\ final # <<>> => Len(final) >= N

(* At most one worker is between taking the lock and the end of assembly.  *)
OneAssembler ==
    \A v, w \in Workers : (pc[v] \in Assembling /\ pc[w] \in Assembling) => v = w

(* The step is only reported completed, and its end only announced, when   *)
(* the complete result is stored.                                          *)
CompletedHasResult ==
    (step = "completed" \/ announced) => final = Complete

(* A stored final result is never replaced.                                *)
FinalStable == [][final # <<>> => final' = final]_final

(* The stage implements the promise of ChunkAssembly.                      *)
Abstract == INSTANCE ChunkAssembly WITH
    done <- Stored, result <- final, told <- announced
ImplementsAssembly == Abstract!AbsSpec
=============================================================================
