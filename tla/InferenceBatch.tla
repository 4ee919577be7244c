--------------------------- MODULE InferenceBatch ---------------------------
(***************************************************************************)
(* The inference worker in its default mode (INFERENCE_BATCH_ENABLED): a   *)
(* pika thread keeps up to BatchSize deliveries in a buffer, handles the   *)
(* full buffer with one LLM call, and flushes a partial one on a timer.    *)
(* With BatchSize = 1 this is _process_single.  Nothing here checks for    *)
(* cancellation, and only oversized chunks are claimed before they are     *)
(* stored.                                                                 *)
(***************************************************************************)
EXTENDS InferenceJob

CONSTANTS
    BatchSize,          \* INFERENCE_BATCH_SIZE
    Oversized,          \* the chunks with more than MAX_CHUNK_WORDS words
    Failures,           \* the kinds of failure that happen, of FailureKinds
    MaxFailures         \* bound: how many of them happen

(* A worker that dies, a connection that is lost, a Redis or event-bus     *)
(* error.                                                                  *)
FailureKinds == {"crash", "drop", "fault"}

ASSUME BatchAssumption ==
    /\ BatchSize \in Nat \ {0}
    /\ Oversized \subseteq Chunks
    /\ Failures \subseteq FailureKinds
    /\ MaxFailures \in Nat

Prefetch == 2 * BatchSize

VARIABLES
    buffer,             \* per worker: deliveries waiting for a batch
    batch, pos,         \* per worker: the batch being handled, and where
    byTimer,            \* per worker: the batch was started by the timer
    live,               \* per worker: the channel of the batch is open
    failures            \* how many failures there have been

localVars == <<buffer, batch, pos, byTimer, live>>
vars == <<jobVars, localVars, failures>>

Init ==
    /\ JobInit
    /\ buffer = [w \in Workers |-> <<>>]
    /\ batch = [w \in Workers |-> <<>>]
    /\ pos = [w \in Workers |-> 0]
    /\ byTimer = [w \in Workers |-> FALSE]
    /\ live = [w \in Workers |-> TRUE]
    /\ failures = 0

---------------------------------------------------------------------------
(* Starting and leaving a batch.                                           *)

StartBatch(w, items, timer) ==
    /\ batch' = [batch EXCEPT ![w] = items]
    /\ pos' = [pos EXCEPT ![w] = 1]
    /\ byTimer' = [byTimer EXCEPT ![w] = timer]
    /\ cur' = [cur EXCEPT ![w] = items[1]]
    /\ pc' = [pc EXCEPT ![w] = IF Chunk(items[1]) \in Oversized THEN "claim" ELSE "push"]

LeaveBatch(w) ==
    /\ batch' = [batch EXCEPT ![w] = <<>>]
    /\ pos' = [pos EXCEPT ![w] = 0]
    /\ byTimer' = [byTimer EXCEPT ![w] = FALSE]
    /\ cur' = [cur EXCEPT ![w] = NoMsg]
    /\ pc' = [pc EXCEPT ![w] = "idle"]

(* A new connection: the loop of main() clears the buffer.                 *)
Reconnect(w) ==
    /\ live' = [live EXCEPT ![w] = TRUE]
    /\ buffer' = [buffer EXCEPT ![w] = <<>>]

(* The broker takes back every delivery the worker did not acknowledge.    *)
RequeueAll(w) ==
    /\ queue' = queue \cup unacked[w]
    /\ unacked' = [unacked EXCEPT ![w] = {}]

(* Mutant: the consumer is registered with auto_ack.                       *)
DeliverAutoAck(w, m) ==
    /\ pc[w] = "idle"
    /\ m \in queue
    /\ queue' = queue \ {m}
    /\ UNCHANGED unacked

(* The broker pushes a message within the prefetch window.                 *)
Deliver(w, m) ==
    /\ pc[w] = "idle"
    /\ m \in queue
    /\ Cardinality(unacked[w]) < Prefetch
    /\ queue' = queue \ {m}
    /\ unacked' = [unacked EXCEPT ![w] = @ \cup {m}]

(* process(): the delivery joins the buffer, and a full buffer is handled. *)
BufferChunk(w, m) ==
    /\ Deliver(w, m)
    /\ Chunk(m) \notin Oversized
    /\ LET waiting == Append(buffer[w], m)
       IN  IF Len(waiting) >= BatchSize
           THEN /\ buffer' = [buffer EXCEPT ![w] = <<>>]
                /\ StartBatch(w, waiting, FALSE)
           ELSE /\ buffer' = [buffer EXCEPT ![w] = waiting]
                /\ UNCHANGED <<batch, pos, byTimer, cur, pc>>
    /\ UNCHANGED <<entryVars, acked, countVars, resultVars, live, failures>>

(* An oversized chunk is stored at once with an empty result.              *)
TakeOversized(w, m) ==
    /\ Deliver(w, m)
    /\ Chunk(m) \in Oversized
    /\ StartBatch(w, <<m>>, FALSE)
    /\ UNCHANGED <<entryVars, acked, countVars, resultVars, buffer, live, failures>>

(* Mutant: the timer only flushes a full buffer.                           *)
FlushFullBuffer(w) ==
    /\ pc[w] = "idle"
    /\ Len(buffer[w]) >= BatchSize
    /\ buffer' = [buffer EXCEPT ![w] = <<>>]
    /\ StartBatch(w, buffer[w], TRUE)
    /\ UNCHANGED <<entryVars, brokerVars, countVars, resultVars, live, failures>>

(* flush_batch_buffer(), from the timer or at shutdown.                    *)
FlushBuffer(w) ==
    /\ pc[w] = "idle"
    /\ buffer[w] # <<>>
    /\ buffer' = [buffer EXCEPT ![w] = <<>>]
    /\ StartBatch(w, buffer[w], TRUE)
    /\ UNCHANGED <<entryVars, brokerVars, countVars, resultVars, live, failures>>

StoreStep(w) ==
    /\ ResultStep(w)
    /\ UNCHANGED <<localVars, failures>>

(* Mutant: only the last delivery of a batch is acknowledged.              *)
AckLastOnly(w) ==
    /\ pc[w] = "ack"
    /\ live[w]
    /\ IF pos[w] = Len(batch[w])
       THEN /\ unacked' = [unacked EXCEPT ![w] = @ \ {cur[w]}]
            /\ acked' = acked \cup {Chunk(cur[w])}
            /\ LeaveBatch(w)
       ELSE /\ pos' = [pos EXCEPT ![w] = @ + 1]
            /\ cur' = [cur EXCEPT ![w] = batch[w][pos[w] + 1]]
            /\ pc' = [pc EXCEPT ![w] = "push"]
            /\ UNCHANGED <<batch, byTimer, unacked, acked>>
    /\ UNCHANGED <<entryVars, queue, countVars, resultVars, buffer, live, failures>>

(* The ack of one chunk, then the next one of the batch.                   *)
AckChunk(w) ==
    /\ pc[w] = "ack"
    /\ live[w]
    /\ unacked' = [unacked EXCEPT ![w] = @ \ {cur[w]}]
    /\ acked' = acked \cup {Chunk(cur[w])}
    /\ IF pos[w] = Len(batch[w])
       THEN LeaveBatch(w)
       ELSE /\ pos' = [pos EXCEPT ![w] = @ + 1]
            /\ cur' = [cur EXCEPT ![w] = batch[w][pos[w] + 1]]
            /\ pc' = [pc EXCEPT ![w] = "push"]
            /\ UNCHANGED <<batch, byTimer>>
    /\ UNCHANGED <<entryVars, queue, countVars, resultVars, buffer, live, failures>>

(* The ack on a closed channel raises: the rest of the batch is abandoned  *)
(* and the worker connects again.                                          *)
AbandonBatch(w) ==
    /\ pc[w] = "ack"
    /\ ~live[w]
    /\ LeaveBatch(w)
    /\ Reconnect(w)
    /\ UNCHANGED <<entryVars, brokerVars, countVars, resultVars, failures>>

---------------------------------------------------------------------------
(* Failures.                                                               *)

Fail(kind) ==
    /\ kind \in Failures
    /\ failures < MaxFailures
    /\ failures' = failures + 1

Raised(w) ==
    /\ pc[w] \notin {"idle", "ack"}
    /\ Fail("fault")
    /\ LeaveBatch(w)
    /\ UNCHANGED <<entryVars, acked, countVars, resultVars>>

(* An exception in a batch started by a full buffer: process() returns its *)
(* own delivery, the last of the batch, to the queue.                      *)
NackLast(w) ==
    /\ Raised(w)
    /\ ~byTimer[w] /\ live[w]
    /\ LET last == batch[w][Len(batch[w])]
       IN  /\ queue' = queue \cup {last}
           /\ unacked' = [unacked EXCEPT ![w] = @ \ {last}]
    /\ UNCHANGED <<buffer, live>>

(* An exception in a batch started by the timer: every delivery of the     *)
(* batch is returned.                                                      *)
NackBatch(w) ==
    /\ Raised(w)
    /\ byTimer[w] /\ live[w] /\ pos[w] = 1
    /\ queue' = queue \cup ElementsOf(batch[w])
    /\ unacked' = [unacked EXCEPT ![w] = @ \ ElementsOf(batch[w])]
    /\ UNCHANGED <<buffer, live>>

(* The same after some of the batch was acknowledged: the broker answers   *)
(* the nack of an unknown delivery by closing the channel.                 *)
NackAcked(w) ==
    /\ Raised(w)
    /\ byTimer[w] /\ live[w] /\ pos[w] > 1
    /\ RequeueAll(w)
    /\ Reconnect(w)

(* The nack on a closed channel raises in its turn.                        *)
NackClosed(w) ==
    /\ Raised(w)
    /\ ~live[w]
    /\ Reconnect(w)
    /\ UNCHANGED <<queue, unacked>>

CaughtFault(w) ==
    /\ AssemblyFault(w)
    /\ Fail("fault")
    /\ UNCHANGED localVars

(* A worker in a batch notices a lost connection at its next ack or nack.  *)
ConnectionLost(w) ==
    /\ live[w]
    /\ unacked[w] # {}
    /\ Fail("drop")
    /\ RequeueAll(w)
    /\ IF pc[w] = "idle"
       THEN Reconnect(w)
       ELSE live' = [live EXCEPT ![w] = FALSE] /\ UNCHANGED buffer
    /\ UNCHANGED <<entryVars, acked, countVars, resultVars, pc, cur, batch, pos, byTimer>>

Crash(w) ==
    /\ pc[w] # "idle" \/ buffer[w] # <<>>
    /\ Fail("crash")
    /\ RequeueAll(w)
    /\ LeaveBatch(w)
    /\ Reconnect(w)
    /\ UNCHANGED <<entryVars, acked, countVars, resultVars>>

Entry ==
    /\ EntryStep \/ EntryRedelivered \/ EntryFail
    /\ UNCHANGED <<localVars, failures>>

WorkerStep(w) ==
    \/ \E m \in queue : BufferChunk(w, m) \/ TakeOversized(w, m)
    \/ FlushBuffer(w) \/ StoreStep(w) \/ AckChunk(w) \/ AbandonBatch(w)

Failure(w) ==
    \/ NackLast(w) \/ NackBatch(w) \/ NackAcked(w) \/ NackClosed(w)
    \/ CaughtFault(w) \/ ConnectionLost(w) \/ Crash(w)

Next ==
    \/ Entry
    \/ \E w \in Workers : WorkerStep(w) \/ Failure(w)

Spec == Init /\ [][Next]_vars

(* The entry handler and the consumer threads are running code, and the    *)
(* flush timer re-arms itself.  Failures are not owed.                     *)
FairSpec ==
    /\ Spec
    /\ WF_vars(EntryStep /\ UNCHANGED <<localVars, failures>>)
    /\ \A w \in Workers : WF_vars(WorkerStep(w))

---------------------------------------------------------------------------
(* Properties.                                                             *)

(* The types of all variables.                                             *)
TypeOK ==
    /\ JobTypeOK
    /\ buffer \in [Workers -> Seq(Msgs)]
    /\ batch \in [Workers -> Seq(Msgs)]
    /\ pos \in [Workers -> 0..BatchSize]
    /\ byTimer \in [Workers -> BOOLEAN]
    /\ live \in [Workers -> BOOLEAN]
    /\ failures \in 0..MaxFailures

(* A delivery the broker still counts as outstanding is in the worker's    *)
(* hands: it is buffered or in the batch being handled.  A worker that     *)
(* forgets a delivery it never answered loses a slot of its prefetch       *)
(* window and keeps the chunk from everybody else.                         *)
NoLeakedDelivery ==
    \A w \in Workers :
        unacked[w] \subseteq ElementsOf(buffer[w]) \cup ElementsOf(batch[w])

(* Every chunk published by the entry worker is somewhere: queued, held by *)
(* a worker, or stored.                                                    *)
ChunkNotLost ==
    \A c \in 1..sent :
        \/ c \in Stored
        \/ \E m \in queue : Chunk(m) = c
        \/ \E w \in Workers : \E m \in unacked[w] : Chunk(m) = c

(* Once all chunks are dispatched the end of the stage is announced.       *)
EventuallyAnnounced == (dpc = "acked") ~> announced
=============================================================================
