----------------------- MODULE InferenceBatch_proofs -----------------------
(***************************************************************************)
(* Proofs about InferenceBatch, for every number of chunks, workers and    *)
(* dispatches, every batch size and set of oversized chunks.               *)
(*                                                                         *)
(* What batch mode keeps under failures of every kind is in BInv.  That no *)
(* delivery leaks needs that no call fails (HoldInv), and that the stage      *)
(* implements ChunkAssembly needs that nothing happens twice (OnceInv): the   *)
(* three theorems say with which failures each promise is kept.            *)
(***************************************************************************)
EXTENDS InferenceBatch, TLAPS, FiniteSetTheorems

USE SizeAssumption, BatchAssumption

---------------------------------------------------------------------------
(* What holds whatever fails.                                              *)

(* A worker at work is at a place of its batch.                            *)
BatchShape ==
    \A w \in Workers :
        /\ Len(buffer[w]) < BatchSize
        /\ Len(batch[w]) <= BatchSize
        /\ pc[w] = "idle" => batch[w] = <<>>
        /\ pc[w] # "idle" => /\ pos[w] \in 1..Len(batch[w])
                             /\ cur[w] = batch[w][pos[w]]

NothingPublished ==
    /\ dpc \in {"remaining", "failed"}
    /\ queue = {}
    /\ \A w \in Workers : pc[w] = "idle" /\ buffer[w] = <<>> /\ unacked[w] = {}

(* The workers whose result is in the list and not yet counted.            *)
Pending == {w \in Workers : pc[w] = "count"}

(* The counter is never ahead of the list: what is missing from the list   *)
(* is still to be counted, and results waiting to be counted are in it.    *)
EnoughLeft == Len(raw) + remaining >= N + Cardinality(Pending)

CounterBehindList ==
    /\ IsFiniteSet(Pending)
    /\ remaining <= N
    /\ NothingPublished \/ lock \/ EnoughLeft

(* The lock is taken once, by a worker that will find N results, and the   *)
(* final result is what its holder stores.                                 *)
LockPhase ==
    /\ \A w \in Workers : pc[w] = "lock" => lock \/ Len(raw) >= N
    /\ \A w \in Workers : pc[w] \in Assembling => lock
    /\ \A w \in Workers : pc[w] = "read" => final = <<>>
    /\ \A w \in Workers : pc[w] \in Assembling \ {"read"} => final # <<>>
    /\ final # <<>> => lock

BInv ==
    /\ TypeOK
    /\ BatchShape
    /\ CounterBehindList
    /\ LockPhase
    /\ OneAssembler
    /\ AssemblyFindsAll

---------------------------------------------------------------------------
(* What holds as long as no call fails.                                    *)

(* The deliveries a worker has yet to answer.                              *)
Unanswered(w) ==
    ElementsOf(buffer[w]) \cup {batch[w][i] : i \in {j \in DOMAIN batch[w] : j >= pos[w]}}

(* A worker without a connection has nothing outstanding, and finds out    *)
(* before it takes another message.                                        *)
HoldInv ==
    \A w \in Workers :
        /\ unacked[w] \subseteq Unanswered(w)
        /\ ~live[w] => pc[w] # "idle" /\ unacked[w] = {}

---------------------------------------------------------------------------
(* What holds as long as nothing happens twice.                            *)

Undisturbed == Failures = {} /\ MaxDispatch = 1

NoRepeats(s) == \A i, j \in DOMAIN s : s[i] = s[j] => i = j

(* A message is in one place: the queue, or one place of one worker, and   *)
(* what a worker has not answered is what the broker waits for.            *)
Placed(w) ==
    /\ live[w]
    /\ unacked[w] = Unanswered(w)
    /\ queue \cap unacked[w] = {}
    /\ NoRepeats(buffer[w]) /\ NoRepeats(batch[w])
    /\ \A i \in DOMAIN batch[w] : i >= pos[w] => batch[w][i] \notin ElementsOf(buffer[w])

OnePlace ==
    /\ \A w \in Workers : Placed(w)
    /\ \A v, w \in Workers : v # w => unacked[v] \cap unacked[w] = {}

OnlySent ==
    /\ \A m \in queue : Chunk(m) <= sent
    /\ \A w \in Workers : \A m \in unacked[w] : Chunk(m) <= sent
    /\ \A c \in Stored \cup claimed : c <= sent

(* What is not handled yet is not stored: a chunk is stored once.          *)
Ahead(w) ==
    ElementsOf(buffer[w]) \cup {batch[w][i] : i \in {j \in DOMAIN batch[w] : j > pos[w]}}

Handled(w) ==
    /\ \A m \in Ahead(w) : Chunk(m) \notin Stored \cup claimed
    /\ pc[w] \in {"claim", "push"} => Chunk(cur[w]) \notin Stored
    /\ pc[w] = "claim" => Chunk(cur[w]) \notin claimed
    /\ pc[w] \notin {"idle", "claim", "push"} => Chunk(cur[w]) \in Stored

StoredOnce ==
    /\ NoRepeats(raw)
    /\ \A m \in queue : Chunk(m) \notin Stored \cup claimed
    /\ \A w \in Workers : Handled(w)

OnceInv ==
    /\ OnePlace /\ OnlySent /\ StoredOnce
    /\ FinalComplete /\ CompletedHasResult
    /\ ChunkNotLost

---------------------------------------------------------------------------
(* Sequences of chunks, with and without repetitions.                      *)

(* A sequence without repetitions is as long as its set of elements.       *)
LEMMA DistinctLength ==
    ASSUME NEW S, NEW s \in Seq(S), NoRepeats(s)
    PROVE  IsFiniteSet(ElementsOf(s)) /\ Cardinality(ElementsOf(s)) = Len(s)
<1>1. Len(s) \in Nat /\ DOMAIN s = 1..Len(s) /\ s \in [1..Len(s) -> S]
    OBVIOUS
<1>2. s \in Bijection(1..Len(s), ElementsOf(s))
    BY <1>1 DEF Bijection, Injection, Surjection, IsInjective, ElementsOf, NoRepeats
<1>3. ExistsBijection(1..Len(s), ElementsOf(s))
    BY <1>2 DEF ExistsBijection
<1>4. IsFiniteSet(1..Len(s)) /\ Cardinality(1..Len(s)) = Len(s)
    BY <1>1, FS_Interval
<1> QED
    BY <1>3, <1>4, FS_Bijection

LEMMA AppendElements ==
    ASSUME NEW S, NEW s \in Seq(S), NEW x \in S
    PROVE  ElementsOf(Append(s, x)) = ElementsOf(s) \cup {x}
<1>1. /\ DOMAIN Append(s, x) = 1..(Len(s) + 1)
      /\ DOMAIN s = 1..Len(s)
      /\ Len(s) \in Nat
      /\ \A i \in 1..Len(s) : Append(s, x)[i] = s[i]
      /\ Append(s, x)[Len(s) + 1] = x
    OBVIOUS
<1>2. 1..(Len(s) + 1) = (1..Len(s)) \cup {Len(s) + 1}
    BY <1>1
<1> QED
    BY <1>1, <1>2 DEF ElementsOf

LEMMA AppendDistinct ==
    ASSUME NEW S, NEW s \in Seq(S), NEW x \in S, NoRepeats(s), x \notin ElementsOf(s)
    PROVE  NoRepeats(Append(s, x))
<1>1. /\ DOMAIN Append(s, x) = 1..(Len(s) + 1)
      /\ DOMAIN s = 1..Len(s)
      /\ Len(s) \in Nat
      /\ \A i \in 1..Len(s) : Append(s, x)[i] = s[i] /\ s[i] # x
      /\ Append(s, x)[Len(s) + 1] = x
    BY DEF ElementsOf
<1>2. 1..(Len(s) + 1) = (1..Len(s)) \cup {Len(s) + 1}
    BY <1>1
<1> QED
    BY <1>1, <1>2 DEF NoRepeats

(* The chunks are a finite set of N elements.                              *)
LEMMA ChunkCount == IsFiniteSet(Chunks) /\ Cardinality(Chunks) = N
BY FS_Interval DEF Chunks

(* A list of all chunks without repetitions lists each of them once.       *)
LEMMA ListingOfAll ==
    ASSUME NEW s \in Seq(Chunks), NoRepeats(s), Chunks \subseteq ElementsOf(s)
    PROVE  Len(s) = N /\ ElementsOf(s) = Chunks
<1>1. ElementsOf(s) \subseteq Chunks
    BY DEF ElementsOf
<1> QED
    BY <1>1, DistinctLength, ChunkCount

(* In such a list exactly c entries are for a chunk up to c,               *)
LEMMA UpToIsChunk ==
    ASSUME NEW s \in Seq(Chunks), NoRepeats(s), ElementsOf(s) = Chunks, NEW c \in 0..N
    PROVE  UpTo(s, c) = c
<1> DEFINE J == {j \in DOMAIN s : s[j] <= c}
           f == [j \in J |-> s[j]]
<1>1. f \in Bijection(J, 1..c)
    BY DEF Bijection, Injection, Surjection, IsInjective, ElementsOf, NoRepeats, Chunks
<1>2. f \in Surjection(J, 1..c) /\ f \in Injection(J, 1..c)
    BY <1>1 DEF Bijection
<1>3. IsFiniteSet(1..c) /\ Cardinality(1..c) = c
    BY FS_Interval
<1>4. IsFiniteSet(J) /\ (Cardinality(J) = c <=> f \in Surjection(J, 1..c))
    BY <1>2, <1>3, FS_Injection
<1> QED
    BY <1>2, <1>4 DEF UpTo

(* so sorting it by chunk id gives the chunks in order.                    *)
LEMMA SortedListing ==
    ASSUME NEW s \in Seq(Chunks), NoRepeats(s), Len(s) = N, ElementsOf(s) = Chunks
    PROVE  ByChunkId(s) = Complete
<1>1. DOMAIN s = Chunks
    BY DEF Chunks
<1>2. ASSUME NEW i \in Chunks
      PROVE  (CHOOSE c \in Chunks : UpTo(s, c - 1) < i /\ i <= UpTo(s, c)) = i
    <2>1. ASSUME NEW c \in Chunks
          PROVE  (UpTo(s, c - 1) < i /\ i <= UpTo(s, c)) <=> c = i
        <3>1. c \in 0..N /\ c - 1 \in 0..N /\ i \in Nat
            BY DEF Chunks
        <3>2. UpTo(s, c) = c /\ UpTo(s, c - 1) = c - 1
            BY <3>1, UpToIsChunk
        <3> QED
            BY <3>1, <3>2
    <2> QED
        BY <2>1
<1> QED
    BY <1>1, <1>2 DEF ByChunkId, Complete

LEMMA CompleteListsAll ==
    /\ Complete \in Seq(Chunks) /\ Complete # <<>> /\ Len(Complete) = N
    /\ ElementsOf(Complete) = Chunks
<1>1. Complete \in Seq(Chunks) /\ Len(Complete) = N
    BY DEF Complete, Chunks
<1> QED
    BY <1>1 DEF Complete, ElementsOf

(* Whatever the list, a place of it is taken by the first chunk up to      *)
(* which there are enough entries: sorting always gives a list of chunks,  *)
(* also when redelivered chunks are in it more than once.                  *)
LEMMA FirstOf ==
    ASSUME NEW T \in SUBSET Chunks, N \in T
    PROVE  \E c \in T : c - 1 \notin T
<1> SUFFICES ASSUME \A c \in T : c - 1 \in T PROVE FALSE
    OBVIOUS
<1> DEFINE f == [c \in T |-> c - 1]
<1>1. T \subseteq 1..N
    BY DEF Chunks
<1>2. f \in Injection(T, T)
    BY <1>1 DEF Injection, IsInjective
<1>3. IsFiniteSet(T)
    BY ChunkCount, FS_Subset
<1>4. f \in Surjection(T, T)
    BY <1>2, <1>3, FS_Injection
<1>5. PICK c \in T : f[c] = N
    BY <1>4 DEF Surjection
<1> QED
    BY <1>1, <1>5

LEMMA PlaceCount ==
    ASSUME NEW n \in Nat
    PROVE  IsFiniteSet(1..n) /\ Cardinality(1..n) = n
BY FS_Interval

LEMMA UpToBounds ==
    ASSUME NEW s \in Seq(Chunks)
    PROVE  UpTo(s, 0) = 0 /\ UpTo(s, N) = Len(s)
<1>1. {j \in DOMAIN s : s[j] <= 0} = {} /\ {j \in DOMAIN s : s[j] <= N} = 1..Len(s)
    BY DEF Chunks
<1>2. Len(s) \in Nat
    OBVIOUS
<1>3. Cardinality(1..Len(s)) = Len(s)
    BY <1>2, PlaceCount
<1> QED
    BY <1>1, <1>3, FS_EmptySet DEF UpTo

LEMMA ListOf ==
    ASSUME NEW S, NEW n \in Nat, NEW f, f = [i \in 1..n |-> f[i]], \A i \in 1..n : f[i] \in S
    PROVE  f \in Seq(S) /\ Len(f) = n
<1>1. f \in [1..n -> S]
    OBVIOUS
<1> QED
    BY <1>1

LEMMA SortedType ==
    ASSUME NEW s \in Seq(Chunks)
    PROVE  ByChunkId(s) \in Seq(Chunks) /\ Len(ByChunkId(s)) = Len(s)
<1>1. ASSUME NEW i \in DOMAIN s
      PROVE  \E c \in Chunks : UpTo(s, c - 1) < i /\ i <= UpTo(s, c)
    <2> DEFINE T == {c \in Chunks : i <= UpTo(s, c)}
    <2>1. N \in T
        BY UpToBounds DEF Chunks
    <2>2. PICK c \in T : c - 1 \notin T
        BY <2>1, FirstOf
    <2>3. c \in Chunks /\ c - 1 \in 0..N
        BY <2>2 DEF Chunks
    <2>4. UpTo(s, c - 1) < i
        <3>1. CASE c - 1 = 0
            BY <3>1, UpToBounds
        <3>2. CASE c - 1 # 0
            <4>1. c - 1 \in Chunks
                BY <2>3, <3>2 DEF Chunks
            <4>2. UpTo(s, c - 1) \in Nat
                <5>1. IsFiniteSet(1..Len(s))
                    BY FS_Interval
                <5>2. {j \in DOMAIN s : s[j] <= c - 1} \subseteq 1..Len(s)
                    OBVIOUS
                <5> QED
                    BY <5>1, <5>2, FS_Subset, FS_CardinalityType DEF UpTo
            <4> QED
                BY <2>2, <4>1, <4>2
        <3> QED
            BY <3>1, <3>2
    <2> QED
        BY <2>3, <2>4
<1>2. \A i \in DOMAIN s : ByChunkId(s)[i] \in Chunks
    BY <1>1 DEF ByChunkId
<1>3. DOMAIN ByChunkId(s) = 1..Len(s) /\ DOMAIN s = 1..Len(s) /\ Len(s) \in Nat
    BY DEF ByChunkId
<1>4. ByChunkId(s) = [i \in 1..Len(s) |-> ByChunkId(s)[i]]
    BY <1>3 DEF ByChunkId
<1> QED
    BY <1>2, <1>3, <1>4, ListOf

---------------------------------------------------------------------------
(* The types, and the place of a worker in its batch.                      *)

ShapeInv == TypeOK /\ BatchShape

(* A worker at work has a message in hand.                                 *)
LEMMA InHand ==
    ASSUME ShapeInv, NEW w \in Workers, pc[w] # "idle"
    PROVE  cur[w] \in Msgs /\ Chunk(cur[w]) \in Chunks
<1>1. batch[w] \in Seq(Msgs) /\ pos[w] \in 1..Len(batch[w]) /\ cur[w] = batch[w][pos[w]]
    BY DEF ShapeInv, TypeOK, BatchShape
<1>2. cur[w] \in Msgs
    BY <1>1
<1> QED
    BY <1>2 DEF Msgs, Chunk

(* What StartBatch and LeaveBatch leave behind.                            *)
LEMMA StartBatchShape ==
    ASSUME ShapeInv, NEW w \in Workers, NEW items \in Seq(Msgs), NEW timer \in BOOLEAN,
           Len(items) \in 1..BatchSize, StartBatch(w, items, timer),
           buffer' = buffer \/ buffer' = [buffer EXCEPT ![w] = <<>>]
    PROVE  /\ buffer' \in [Workers -> Seq(Msgs)] /\ batch' \in [Workers -> Seq(Msgs)]
           /\ pos' \in [Workers -> 0..BatchSize] /\ byTimer' \in [Workers -> BOOLEAN]
           /\ pc' \in [Workers -> Pcs] /\ cur' \in [Workers -> Msgs \cup {NoMsg}]
           /\ BatchShape'
<1>1. items[1] \in Msgs /\ 1 \in 0..BatchSize
    OBVIOUS
<1>2. /\ buffer \in [Workers -> Seq(Msgs)] /\ batch \in [Workers -> Seq(Msgs)]
      /\ pos \in [Workers -> 0..BatchSize] /\ byTimer \in [Workers -> BOOLEAN]
      /\ pc \in [Workers -> Pcs] /\ cur \in [Workers -> Msgs \cup {NoMsg}]
      /\ BatchShape
    BY DEF ShapeInv, TypeOK, JobTypeOK
<1>3. <<>> \in Seq(Msgs) /\ Len(<<>>) = 0
    OBVIOUS
<1>4. buffer' \in [Workers -> Seq(Msgs)] /\ batch' \in [Workers -> Seq(Msgs)]
    BY <1>2, <1>3 DEF StartBatch
<1>5. pos' \in [Workers -> 0..BatchSize] /\ byTimer' \in [Workers -> BOOLEAN]
    BY <1>1, <1>2 DEF StartBatch
<1>6. pc' \in [Workers -> Pcs] /\ cur' \in [Workers -> Msgs \cup {NoMsg}]
    BY <1>1, <1>2 DEF StartBatch, Pcs
<1>7. ASSUME NEW v \in Workers
      PROVE  /\ Len(buffer'[v]) < BatchSize
             /\ Len(batch'[v]) <= BatchSize
             /\ pc'[v] = "idle" => batch'[v] = <<>>
             /\ pc'[v] # "idle" => /\ pos'[v] \in 1..Len(batch'[v])
                                   /\ cur'[v] = batch'[v][pos'[v]]
    <2>1. Len(buffer'[v]) < BatchSize
        BY <1>2, <1>3 DEF BatchShape
    <2>2. CASE v = w
        BY <1>2, <2>1, <2>2 DEF StartBatch
    <2>3. CASE v # w
        BY <1>2, <2>1, <2>3 DEF StartBatch, BatchShape
    <2> QED
        BY <2>2, <2>3
<1> QED
    BY <1>4, <1>5, <1>6, <1>7 DEF BatchShape

LEMMA LeaveBatchShape ==
    ASSUME ShapeInv, NEW w \in Workers, LeaveBatch(w),
           buffer' = buffer \/ buffer' = [buffer EXCEPT ![w] = <<>>]
    PROVE  /\ buffer' \in [Workers -> Seq(Msgs)] /\ batch' \in [Workers -> Seq(Msgs)]
           /\ pos' \in [Workers -> 0..BatchSize] /\ byTimer' \in [Workers -> BOOLEAN]
           /\ pc' \in [Workers -> Pcs] /\ cur' \in [Workers -> Msgs \cup {NoMsg}]
           /\ BatchShape'
<1>2. /\ buffer \in [Workers -> Seq(Msgs)] /\ batch \in [Workers -> Seq(Msgs)]
      /\ pos \in [Workers -> 0..BatchSize] /\ byTimer \in [Workers -> BOOLEAN]
      /\ pc \in [Workers -> Pcs] /\ cur \in [Workers -> Msgs \cup {NoMsg}]
      /\ BatchShape
    BY DEF ShapeInv, TypeOK, JobTypeOK
<1>3. <<>> \in Seq(Msgs) /\ Len(<<>>) = 0
    OBVIOUS
<1>4. buffer' \in [Workers -> Seq(Msgs)] /\ batch' \in [Workers -> Seq(Msgs)]
    BY <1>2, <1>3 DEF LeaveBatch
<1>5. pos' \in [Workers -> 0..BatchSize] /\ byTimer' \in [Workers -> BOOLEAN]
    BY <1>2 DEF LeaveBatch
<1>6. pc' \in [Workers -> Pcs] /\ cur' \in [Workers -> Msgs \cup {NoMsg}]
    BY <1>2 DEF LeaveBatch, Pcs
<1>7. BatchShape'
    BY <1>2, <1>3 DEF LeaveBatch, BatchShape
<1> QED
    BY <1>4, <1>5, <1>6, <1>7

(* Every step of the entry worker keeps the types,                         *)
LEMMA EntryShape == ShapeInv /\ Entry => ShapeInv'
<1> SUFFICES ASSUME ShapeInv, Entry PROVE ShapeInv'
    OBVIOUS
<1>1. BatchShape'
    BY DEF ShapeInv, BatchShape, Entry, EntryStep, SetRemaining, SetTotal, PublishChunk,
           EntryAck, EntryFail, EntryRedelivered, localVars
<1>2. /\ dispatch' \in 1..MaxDispatch
      /\ dpc' \in {"remaining", "total", "publish", "acked", "failed"}
      /\ sent' \in 0..N /\ remaining' \in Int /\ total' \in {0, N}
    BY DEF ShapeInv, TypeOK, JobTypeOK, Entry, EntryStep, SetRemaining, SetTotal, PublishChunk,
           EntryAck, EntryFail, EntryRedelivered, countVars
<1>3. queue' \subseteq Msgs
    <2>1. CASE PublishChunk
        BY <2>1 DEF PublishChunk, ShapeInv, TypeOK, JobTypeOK, Msgs, Chunks
    <2>2. CASE ~PublishChunk
        BY <2>2 DEF ShapeInv, TypeOK, JobTypeOK, Entry, EntryStep, SetRemaining, SetTotal,
                    EntryAck, EntryFail, EntryRedelivered, brokerVars
    <2> QED
        BY <2>1, <2>2
<1>4. UNCHANGED <<unacked, acked, raw, claimed, resultVars, pc, cur, localVars, failures>>
    BY DEF Entry, EntryStep, SetRemaining, SetTotal, PublishChunk,
           EntryAck, EntryFail, EntryRedelivered, brokerVars, countVars
<1> QED
    BY <1>1, <1>2, <1>3, <1>4 DEF ShapeInv, TypeOK, JobTypeOK, resultVars, localVars

(* so does a worker that takes messages off the queue or its buffer,       *)
LEMMA TakeShape ==
    ASSUME ShapeInv, NEW w \in Workers,
           \/ \E m \in queue : BufferChunk(w, m) \/ TakeOversized(w, m)
           \/ FlushBuffer(w)
    PROVE  ShapeInv'
<1> USE DEF entryVars, brokerVars, countVars, resultVars
<1>0. /\ queue \subseteq Msgs /\ unacked \in [Workers -> SUBSET Msgs]
      /\ buffer \in [Workers -> Seq(Msgs)] /\ BatchShape
    BY DEF ShapeInv, TypeOK, JobTypeOK
<1>1. ASSUME NEW m \in queue, BufferChunk(w, m)
      PROVE  ShapeInv'
    <2> DEFINE waiting == Append(buffer[w], m)
    <2>1. queue' \subseteq Msgs /\ unacked' \in [Workers -> SUBSET Msgs]
        BY <1>0, <1>1 DEF BufferChunk, Deliver
    <2>2. /\ waiting \in Seq(Msgs) /\ Len(waiting) \in 1..BatchSize
        BY <1>0 DEF BatchShape
    <2>3. CASE Len(waiting) >= BatchSize
        <3>1. StartBatch(w, waiting, FALSE) /\ buffer' = [buffer EXCEPT ![w] = <<>>]
            BY <1>1, <2>3 DEF BufferChunk
        <3>2. /\ buffer' \in [Workers -> Seq(Msgs)] /\ batch' \in [Workers -> Seq(Msgs)]
              /\ pos' \in [Workers -> 0..BatchSize] /\ byTimer' \in [Workers -> BOOLEAN]
              /\ pc' \in [Workers -> Pcs] /\ cur' \in [Workers -> Msgs \cup {NoMsg}]
              /\ BatchShape'
            BY <2>2, <3>1, StartBatchShape
        <3> QED
            BY <1>1, <2>1, <3>2 DEF BufferChunk, ShapeInv, TypeOK, JobTypeOK
    <2>4. CASE ~(Len(waiting) >= BatchSize)
        <3>1. /\ buffer' = [buffer EXCEPT ![w] = waiting]
              /\ UNCHANGED <<batch, pos, byTimer, cur, pc>>
            BY <1>1, <2>4 DEF BufferChunk
        <3>2. buffer' \in [Workers -> Seq(Msgs)]
            BY <1>0, <2>2, <3>1
        <3>3. Len(waiting) < BatchSize
            BY <2>2, <2>4
        <3>4. BatchShape'
            BY <1>0, <3>1, <3>3 DEF BatchShape
        <3> QED
            BY <1>1, <2>1, <3>1, <3>2, <3>4 DEF BufferChunk, ShapeInv, TypeOK, JobTypeOK
    <2> QED
        BY <2>3, <2>4
<1>2. ASSUME NEW m \in queue, TakeOversized(w, m)
      PROVE  ShapeInv'
    <2>1. queue' \subseteq Msgs /\ unacked' \in [Workers -> SUBSET Msgs]
        BY <1>0, <1>2 DEF TakeOversized, Deliver
    <2>2. <<m>> \in Seq(Msgs) /\ Len(<<m>>) \in 1..BatchSize
        BY <1>0
    <2>3. /\ buffer' \in [Workers -> Seq(Msgs)] /\ batch' \in [Workers -> Seq(Msgs)]
          /\ pos' \in [Workers -> 0..BatchSize] /\ byTimer' \in [Workers -> BOOLEAN]
          /\ pc' \in [Workers -> Pcs] /\ cur' \in [Workers -> Msgs \cup {NoMsg}]
          /\ BatchShape'
        BY <1>2, <2>2, StartBatchShape DEF TakeOversized
    <2> QED
        BY <1>2, <2>1, <2>3 DEF TakeOversized, ShapeInv, TypeOK, JobTypeOK
<1>3. CASE FlushBuffer(w)
    <2>1. buffer[w] \in Seq(Msgs) /\ Len(buffer[w]) \in 1..BatchSize
        BY <1>0, <1>3 DEF FlushBuffer, BatchShape
    <2>2. /\ buffer' \in [Workers -> Seq(Msgs)] /\ batch' \in [Workers -> Seq(Msgs)]
          /\ pos' \in [Workers -> 0..BatchSize] /\ byTimer' \in [Workers -> BOOLEAN]
          /\ pc' \in [Workers -> Pcs] /\ cur' \in [Workers -> Msgs \cup {NoMsg}]
          /\ BatchShape'
        BY <1>3, <2>1, StartBatchShape DEF FlushBuffer
    <2> QED
        BY <1>3, <2>2 DEF FlushBuffer, ShapeInv, TypeOK, JobTypeOK
<1> QED
    BY <1>1, <1>2, <1>3

(* so does a step that stores or assembles results (the assembler may sort *)
(* any list of chunks: see SortedType),                                    *)
LEMMA ResultShape ==
    ASSUME ShapeInv, NEW w \in Workers, StoreStep(w)
    PROVE  ShapeInv'
<1> USE DEF Pcs, Assembling, entryVars, brokerVars, countVars, resultVars, localVars
<1>0. /\ pc \in [Workers -> Pcs] /\ raw \in Seq(Chunks) /\ claimed \subseteq Chunks
      /\ final \in Seq(Chunks)
      /\ remaining \in Int /\ total \in {0, N} /\ lock \in BOOLEAN
      /\ step \in {"none", "completed", "failed"} /\ announced \in BOOLEAN
      /\ ResultStep(w) /\ BatchShape
    BY DEF ShapeInv, TypeOK, JobTypeOK, StoreStep
<1>1. pc[w] # "idle"
    BY <1>0 DEF ResultStep, ClaimChunk, IgnoreDuplicate, PushResult, CountChunk, ReportChunk,
           AcquireLock, StoreFinal, CleanKeys, CompleteStep, Announce
<1>2. Chunk(cur[w]) \in Chunks
    BY <1>1, InHand
<1>3. /\ \E p \in Pcs \ {"idle"} : pc' = [pc EXCEPT ![w] = p]
      /\ UNCHANGED <<cur, dispatch, dpc, sent, queue, unacked, acked, localVars, failures>>
    BY <1>0 DEF StoreStep, ResultStep, ClaimChunk, IgnoreDuplicate, PushResult, CountChunk,
           ReportChunk, AcquireLock, StoreFinal, CleanKeys, CompleteStep, Announce
<1>4. BatchShape'
    BY <1>0, <1>1, <1>3 DEF BatchShape
<1>5. pc' \in [Workers -> Pcs]
    BY <1>0, <1>3
<1>6. claimed' \subseteq Chunks /\ remaining' \in Int /\ total' \in {0, N}
    BY <1>0, <1>2 DEF ResultStep, ClaimChunk, IgnoreDuplicate, PushResult, CountChunk,
           ReportChunk, AcquireLock, StoreFinal, CleanKeys, CompleteStep, Announce
<1>7. lock' \in BOOLEAN /\ announced' \in BOOLEAN
    BY <1>0, Zenon DEF ResultStep, ClaimChunk, IgnoreDuplicate, PushResult, CountChunk,
           ReportChunk, AcquireLock, StoreFinal, CleanKeys, CompleteStep, Announce
<1>8. step' \in {"none", "completed", "failed"}
    BY <1>0 DEF ResultStep, ClaimChunk, IgnoreDuplicate, PushResult, CountChunk,
           ReportChunk, AcquireLock, StoreFinal, CleanKeys, CompleteStep, Announce
<1>9. raw' \in Seq(Chunks)
    <2>1. raw' = raw \/ raw' = Append(raw, Chunk(cur[w])) \/ raw' = <<>>
        BY <1>0 DEF ResultStep, ClaimChunk, IgnoreDuplicate, PushResult, CountChunk,
           ReportChunk, AcquireLock, StoreFinal, CleanKeys, CompleteStep, Announce
    <2>2. Append(raw, Chunk(cur[w])) \in Seq(Chunks) /\ <<>> \in Seq(Chunks)
        BY <1>0, <1>2
    <2> QED
        BY <1>0, <2>1, <2>2, Zenon
<1>10. final' \in Seq(Chunks)
    BY <1>0, SortedType DEF ResultStep, ClaimChunk, IgnoreDuplicate, PushResult, CountChunk,
           ReportChunk, AcquireLock, StoreFinal, CleanKeys, CompleteStep, Announce
<1> QED
    BY <1>3, <1>4, <1>5, <1>6, <1>7, <1>8, <1>9, <1>10
       DEF ShapeInv, TypeOK, JobTypeOK

(* so does an acknowledgement, sent or refused,                            *)
LEMMA AckShape ==
    ASSUME ShapeInv, NEW w \in Workers, AckChunk(w) \/ AbandonBatch(w)
    PROVE  ShapeInv'
<1> USE DEF entryVars, brokerVars, countVars, resultVars
<1>0. /\ unacked \in [Workers -> SUBSET Msgs] /\ acked \subseteq Chunks
      /\ live \in [Workers -> BOOLEAN]
      /\ batch \in [Workers -> Seq(Msgs)] /\ pos \in [Workers -> 0..BatchSize]
      /\ cur \in [Workers -> Msgs \cup {NoMsg}] /\ pc \in [Workers -> Pcs]
      /\ buffer \in [Workers -> Seq(Msgs)] /\ byTimer \in [Workers -> BOOLEAN]
      /\ BatchShape
    BY DEF ShapeInv, TypeOK, JobTypeOK
<1>1. CASE AckChunk(w)
    <2>1. pc[w] = "ack" /\ Chunk(cur[w]) \in Chunks
        BY <1>1, InHand DEF AckChunk
    <2>2. unacked' \in [Workers -> SUBSET Msgs] /\ acked' \subseteq Chunks
        BY <1>0, <1>1, <2>1 DEF AckChunk
    <2>3. CASE pos[w] = Len(batch[w])
        <3>1. LeaveBatch(w) /\ buffer' = buffer
            BY <1>1, <2>3 DEF AckChunk
        <3>2. /\ batch' \in [Workers -> Seq(Msgs)]
              /\ pos' \in [Workers -> 0..BatchSize] /\ byTimer' \in [Workers -> BOOLEAN]
              /\ pc' \in [Workers -> Pcs] /\ cur' \in [Workers -> Msgs \cup {NoMsg}]
              /\ BatchShape'
            BY <3>1, LeaveBatchShape
        <3> QED
            BY <1>1, <2>2, <3>2 DEF AckChunk, ShapeInv, TypeOK, JobTypeOK
    <2>4. CASE pos[w] # Len(batch[w])
        <3>1. /\ pos' = [pos EXCEPT ![w] = @ + 1]
              /\ cur' = [cur EXCEPT ![w] = batch[w][pos[w] + 1]]
              /\ pc' = [pc EXCEPT ![w] = "push"]
              /\ UNCHANGED <<batch, byTimer, buffer>>
            BY <1>1, <2>4 DEF AckChunk
        <3>2. pos[w] + 1 \in 1..Len(batch[w]) /\ Len(batch[w]) <= BatchSize
            <4>1. pos[w] \in 1..Len(batch[w]) /\ Len(batch[w]) <= BatchSize
                BY <1>0, <2>1 DEF BatchShape
            <4>2. batch[w] \in Seq(Msgs) /\ Len(batch[w]) \in Nat
                BY <1>0
            <4> QED
                BY <2>4, <4>1, <4>2
        <3>3. batch[w][pos[w] + 1] \in Msgs /\ pos[w] + 1 \in 0..BatchSize
            BY <1>0, <3>2
        <3>4. /\ pos' \in [Workers -> 0..BatchSize] /\ pc' \in [Workers -> Pcs]
              /\ cur' \in [Workers -> Msgs \cup {NoMsg}]
            BY <1>0, <3>1, <3>3 DEF Pcs
        <3>5. BatchShape'
            BY <1>0, <2>1, <3>1, <3>2 DEF BatchShape
        <3> QED
            BY <1>1, <2>2, <3>1, <3>4, <3>5 DEF AckChunk, ShapeInv, TypeOK, JobTypeOK
    <2> QED
        BY <2>3, <2>4
<1>2. CASE AbandonBatch(w)
    <2>1. LeaveBatch(w) /\ buffer' = [buffer EXCEPT ![w] = <<>>]
        BY <1>2 DEF AbandonBatch, Reconnect
    <2>2. /\ buffer' \in [Workers -> Seq(Msgs)] /\ batch' \in [Workers -> Seq(Msgs)]
          /\ pos' \in [Workers -> 0..BatchSize] /\ byTimer' \in [Workers -> BOOLEAN]
          /\ pc' \in [Workers -> Pcs] /\ cur' \in [Workers -> Msgs \cup {NoMsg}]
          /\ BatchShape'
        BY <2>1, LeaveBatchShape
    <2>3. live' \in [Workers -> BOOLEAN]
        BY <1>0, <1>2 DEF AbandonBatch, Reconnect
    <2> QED
        BY <1>2, <2>2, <2>3 DEF AbandonBatch, ShapeInv, TypeOK, JobTypeOK
<1> QED
    BY <1>1, <1>2

(* and so does every failure.                                              *)
LEMMA FailureShape ==
    ASSUME ShapeInv, NEW w \in Workers, Failure(w)
    PROVE  ShapeInv'
<1> USE DEF entryVars, brokerVars, countVars, resultVars
<1>0. /\ queue \subseteq Msgs /\ unacked \in [Workers -> SUBSET Msgs]
      /\ live \in [Workers -> BOOLEAN] /\ failures \in 0..MaxFailures
      /\ batch \in [Workers -> Seq(Msgs)] /\ buffer \in [Workers -> Seq(Msgs)]
      /\ pc \in [Workers -> Pcs] /\ BatchShape
    BY DEF ShapeInv, TypeOK, JobTypeOK
<1>1. failures' \in 0..MaxFailures
    BY <1>0 DEF Failure, NackLast, NackBatch, NackAcked, NackClosed, Raised, CaughtFault,
           ConnectionLost, Crash, Fail
<1>2. CASE NackLast(w) \/ NackBatch(w) \/ NackAcked(w) \/ NackClosed(w) \/ Crash(w)
    <2>1. LeaveBatch(w) /\ (buffer' = buffer \/ buffer' = [buffer EXCEPT ![w] = <<>>])
        BY <1>2 DEF NackLast, NackBatch, NackAcked, NackClosed, Raised, Crash, Reconnect
    <2>2. /\ buffer' \in [Workers -> Seq(Msgs)] /\ batch' \in [Workers -> Seq(Msgs)]
          /\ pos' \in [Workers -> 0..BatchSize] /\ byTimer' \in [Workers -> BOOLEAN]
          /\ pc' \in [Workers -> Pcs] /\ cur' \in [Workers -> Msgs \cup {NoMsg}]
          /\ BatchShape'
        BY <2>1, LeaveBatchShape
    <2>3. live' \in [Workers -> BOOLEAN]
        BY <1>0, <1>2 DEF NackLast, NackBatch, NackAcked, NackClosed, Crash, Reconnect
    <2>4. ElementsOf(batch[w]) \subseteq Msgs
        BY <1>0 DEF ElementsOf
    <2>5. ASSUME pc[w] # "idle"
          PROVE  batch[w][Len(batch[w])] \in Msgs
        <3>1. batch[w] \in Seq(Msgs) /\ Len(batch[w]) \in Nat /\ pos[w] \in 1..Len(batch[w])
            BY <1>0, <2>5 DEF BatchShape
        <3>2. Len(batch[w]) \in 1..Len(batch[w])
            BY <3>1
        <3> QED
            BY <3>1, <3>2
    <2>6. queue' \subseteq Msgs /\ unacked' \in [Workers -> SUBSET Msgs]
        BY <1>0, <1>2, <2>4, <2>5 DEF NackLast, NackBatch, NackAcked, NackClosed, Raised, Crash,
                                      RequeueAll
    <2>7. UNCHANGED <<entryVars, acked, countVars, resultVars>>
        BY <1>2 DEF NackLast, NackBatch, NackAcked, NackClosed, Raised, Crash
    <2> QED
        BY <1>1, <2>2, <2>3, <2>6, <2>7 DEF ShapeInv, TypeOK, JobTypeOK
<1>3. CASE CaughtFault(w)
    <2>1. /\ pc[w] \in Assembling /\ pc' = [pc EXCEPT ![w] = "ack"] /\ step' = "failed"
          /\ UNCHANGED <<entryVars, brokerVars, countVars, lock, final, announced, cur, localVars>>
        BY <1>3 DEF CaughtFault, AssemblyFault
    <2>2. BatchShape'
        BY <1>0, <2>1 DEF BatchShape, Assembling, localVars
    <2>3. pc' \in [Workers -> Pcs]
        BY <1>0, <2>1 DEF Pcs
    <2> QED
        BY <1>1, <2>1, <2>2, <2>3 DEF ShapeInv, TypeOK, JobTypeOK, localVars
<1>4. CASE ConnectionLost(w)
    <2>1. queue' \subseteq Msgs /\ unacked' \in [Workers -> SUBSET Msgs]
        BY <1>0, <1>4 DEF ConnectionLost, RequeueAll
    <2>0. <<>> \in Seq(Msgs) /\ Len(<<>>) = 0
        OBVIOUS
    <2>2. /\ buffer' = buffer \/ buffer' = [buffer EXCEPT ![w] = <<>>]
          /\ live' \in [Workers -> BOOLEAN]
        BY <1>0, <1>4 DEF ConnectionLost, Reconnect
    <2>3. buffer' \in [Workers -> Seq(Msgs)]
        BY <1>0, <2>0, <2>2
    <2>4. \A v \in Workers : Len(buffer'[v]) < BatchSize
        <3>1. \A v \in Workers : Len(buffer[v]) < BatchSize
            BY <1>0 DEF BatchShape
        <3>2. \A v \in Workers : buffer'[v] = buffer[v] \/ buffer'[v] = <<>>
            BY <1>0, <2>2
        <3> QED
            BY <2>0, <3>1, <3>2
    <2>5. BatchShape'
        BY <1>0, <1>4, <2>4 DEF ConnectionLost, BatchShape
    <2> QED
        BY <1>1, <1>4, <2>1, <2>2, <2>3, <2>5 DEF ConnectionLost, ShapeInv, TypeOK, JobTypeOK
<1> QED
    BY <1>2, <1>3, <1>4 DEF Failure

LEMMA KeepsShape == ShapeInv /\ [Next]_vars => ShapeInv'
<1> SUFFICES ASSUME ShapeInv, [Next]_vars PROVE ShapeInv'
    OBVIOUS
<1>1. CASE UNCHANGED vars
    BY <1>1 DEF vars, jobVars, entryVars, brokerVars, countVars, resultVars, localVars,
                ShapeInv, TypeOK, JobTypeOK, BatchShape
<1>2. ASSUME NEW w \in Workers, WorkerStep(w)
      PROVE  ShapeInv'
    BY <1>2, TakeShape, ResultShape, AckShape DEF WorkerStep
<1> QED
    BY <1>1, <1>2, EntryShape, FailureShape DEF Next

LEMMA InitShape == Init => ShapeInv
<1> SUFFICES ASSUME Init PROVE ShapeInv
    OBVIOUS
<1> USE DEF Init, JobInit
<1>0. <<>> \in Seq(Msgs) /\ Len(<<>>) = 0 /\ 0 \in 0..BatchSize
    OBVIOUS
<1>1. /\ unacked \in [Workers -> SUBSET Msgs]
      /\ cur \in [Workers -> Msgs \cup {NoMsg}]
      /\ pc \in [Workers -> Pcs]
    BY DEF Pcs
<1>2. /\ buffer \in [Workers -> Seq(Msgs)] /\ batch \in [Workers -> Seq(Msgs)]
      /\ pos \in [Workers -> 0..BatchSize]
      /\ byTimer \in [Workers -> BOOLEAN] /\ live \in [Workers -> BOOLEAN]
    BY <1>0
<1>3. raw \in Seq(Chunks) /\ final \in Seq(Chunks)
    OBVIOUS
<1>4. /\ dispatch \in 1..MaxDispatch /\ failures \in 0..MaxFailures
      /\ sent \in 0..N /\ remaining \in Int /\ total \in {0, N}
    OBVIOUS
<1>5. BatchShape
    BY <1>0 DEF BatchShape
<1> QED
    BY <1>1, <1>2, <1>3, <1>4, <1>5, Zenon DEF ShapeInv, TypeOK, JobTypeOK

---------------------------------------------------------------------------
(* The counter and the lock.                                               *)

(* Nobody comes closer to the assembly, and what it reads and writes stays *)
(* as it is.                                                               *)
Quiet ==
    /\ UNCHANGED <<remaining, raw, lock, final, announced>>
    /\ \A v \in Workers : pc'[v] \in {"count", "lock"} \cup Assembling => pc'[v] = pc[v]

WorkStep(w) ==
    /\ \/ PushResult(w) \/ CountChunk(w) \/ AcquireLock(w) \/ StoreFinal(w)
       \/ CleanKeys(w) \/ CompleteStep(w) \/ Announce(w)
    /\ StoreStep(w)

LEMMA WorkerSteps ==
    ASSUME TypeOK, NEW w \in Workers, WorkerStep(w) \/ Failure(w)
    PROVE  /\ Quiet \/ WorkStep(w)
           /\ ~NothingPublished
<1> USE DEF Quiet, Assembling, entryVars, countVars, resultVars
<1>0. pc \in [Workers -> Pcs]
    BY DEF TypeOK, JobTypeOK
<1>1. CASE Failure(w)
    <2>1. ~NothingPublished
        BY <1>1 DEF Failure, NackLast, NackBatch, NackAcked, NackClosed, Raised, CaughtFault,
                    AssemblyFault, ConnectionLost, Crash, NothingPublished
    <2> QED
        BY <1>0, <1>1, <2>1 DEF Failure, NackLast, NackBatch, NackAcked, NackClosed, Raised,
                    CaughtFault, AssemblyFault, ConnectionLost, Crash, LeaveBatch
<1>2. CASE WorkerStep(w)
    <2>1. CASE \E m \in queue : BufferChunk(w, m) \/ TakeOversized(w, m)
        BY <1>0, <2>1 DEF BufferChunk, TakeOversized, StartBatch, NothingPublished
    <2>2. CASE FlushBuffer(w)
        BY <1>0, <2>2 DEF FlushBuffer, StartBatch, NothingPublished
    <2>3. CASE AckChunk(w)
        BY <1>0, <2>3 DEF AckChunk, LeaveBatch, NothingPublished
    <2>4. CASE AbandonBatch(w)
        BY <1>0, <2>4 DEF AbandonBatch, LeaveBatch, NothingPublished
    <2>5. CASE StoreStep(w)
        <3>1. ~NothingPublished
            BY <2>5 DEF StoreStep, ResultStep, ClaimChunk, IgnoreDuplicate, PushResult, CountChunk,
               ReportChunk, AcquireLock, StoreFinal, CleanKeys, CompleteStep, Announce,
               NothingPublished
        <3>2. ASSUME ClaimChunk(w) \/ IgnoreDuplicate(w) \/ ReportChunk(w)
              PROVE  Quiet
            BY <1>0, <3>2 DEF ClaimChunk, IgnoreDuplicate, ReportChunk
        <3> QED
            BY <2>5, <3>1, <3>2 DEF StoreStep, ResultStep, WorkStep
    <2> QED
        BY <1>2, <2>1, <2>2, <2>3, <2>4, <2>5 DEF WorkerStep
<1> QED
    BY <1>1, <1>2

(* What an entry step leaves to the workers.                               *)
LEMMA EntryLeaves ==
    ASSUME Entry
    PROVE  /\ UNCHANGED <<unacked, raw, claimed, resultVars, pc, cur, localVars, failures>>
           /\ remaining' = remaining \/ (dpc = "remaining" /\ dpc' = "total" /\ remaining' = N)
           /\ NothingPublished => \/ NothingPublished'
                                  \/ remaining' = N
BY DEF Entry, EntryStep, SetRemaining, SetTotal, PublishChunk, EntryAck, EntryFail,
       EntryRedelivered, brokerVars, countVars, NothingPublished, localVars

(* The number of results that wait to be counted.                          *)
LEMMA PendingCount ==
    ASSUME IsFiniteSet(Pending)
    PROVE  Cardinality(Pending) \in Nat
BY FS_CardinalityType

LEMMA EntryCounter ==
    ASSUME TypeOK, CounterBehindList, Entry
    PROVE  CounterBehindList'
<1>0. /\ remaining \in Int /\ raw \in Seq(Chunks) /\ Cardinality(Pending) \in Nat
      /\ IsFiniteSet(Pending) /\ remaining <= N
    BY PendingCount DEF TypeOK, JobTypeOK, CounterBehindList, EnoughLeft
<1>1. /\ UNCHANGED <<raw, lock, pc>>
      /\ remaining' = remaining \/ remaining' = N
      /\ NothingPublished => NothingPublished' \/ remaining' = N
    BY EntryLeaves DEF resultVars
<1>2. Pending' = Pending
    BY <1>1 DEF Pending
<1>3. IsFiniteSet(Pending)' /\ remaining' <= N
    BY <1>0, <1>1, <1>2
<1>4. CASE lock
    BY <1>1, <1>3, <1>4 DEF CounterBehindList, EnoughLeft
<1>5. CASE EnoughLeft
    <2>1. Len(raw') + remaining' >= N + Cardinality(Pending')
        BY <1>0, <1>1, <1>2, <1>5 DEF EnoughLeft
    <2> QED
        BY <1>3, <2>1 DEF CounterBehindList, EnoughLeft
<1>6. CASE NothingPublished
    <2>1. Pending = {} /\ Cardinality(Pending) = 0
        BY <1>6, FS_EmptySet DEF NothingPublished, Pending
    <2>2. CASE NothingPublished'
        BY <1>3, <2>2 DEF CounterBehindList, EnoughLeft
    <2>3. CASE remaining' = N
        <3>1. Len(raw') + remaining' >= N + Cardinality(Pending')
            BY <1>0, <1>1, <1>2, <2>1, <2>3
        <3> QED
            BY <1>3, <3>1 DEF CounterBehindList, EnoughLeft
    <2> QED
        BY <1>1, <1>6, <2>2, <2>3
<1> QED
    BY <1>4, <1>5, <1>6 DEF CounterBehindList

LEMMA WorkerCounter ==
    ASSUME ShapeInv, CounterBehindList, LockPhase,
           NEW w \in Workers, WorkerStep(w) \/ Failure(w),
           lock => lock'
    PROVE  CounterBehindList'
<1>0. /\ remaining \in Int /\ raw \in Seq(Chunks) /\ Cardinality(Pending) \in Nat
      /\ IsFiniteSet(Pending) /\ remaining <= N
      /\ pc \in [Workers -> Pcs]
      /\ lock \/ EnoughLeft
    BY PendingCount, WorkerSteps
       DEF ShapeInv, TypeOK, JobTypeOK, CounterBehindList, EnoughLeft
<1>1. CASE Quiet
    <2>1. Pending' \subseteq Pending /\ UNCHANGED <<remaining, raw, lock>>
        BY <1>1 DEF Quiet, Pending
    <2>2. IsFiniteSet(Pending') /\ Cardinality(Pending') <= Cardinality(Pending)
        BY <1>0, <2>1, FS_Subset
    <2>3. Cardinality(Pending') \in Nat
        BY <2>2, FS_CardinalityType
    <2>4. lock' \/ Len(raw') + remaining' >= N + Cardinality(Pending')
        BY <1>0, <2>1, <2>2, <2>3 DEF EnoughLeft
    <2> QED
        BY <1>0, <2>1, <2>2, <2>4 DEF CounterBehindList, EnoughLeft
<1>2. CASE PushResult(w)
    <2>1. /\ pc[w] = "push" /\ raw' = Append(raw, Chunk(cur[w]))
          /\ pc' = [pc EXCEPT ![w] = "count"]
          /\ UNCHANGED <<remaining, lock>>
        BY <1>2 DEF PushResult, resultVars
    <2>2. Pending' = Pending \cup {w} /\ w \notin Pending
        BY <1>0, <2>1 DEF Pending
    <2>3. IsFiniteSet(Pending') /\ Cardinality(Pending') = Cardinality(Pending) + 1
        BY <1>0, <2>2, FS_AddElement
    <2>4. Len(raw') = Len(raw) + 1 /\ Len(raw) \in Nat
        BY <1>0, <2>1, InHand
    <2>5. lock' \/ Len(raw') + remaining' >= N + Cardinality(Pending')
        BY <1>0, <2>1, <2>3, <2>4 DEF EnoughLeft
    <2> QED
        BY <1>0, <2>1, <2>3, <2>5 DEF CounterBehindList, EnoughLeft
<1>3. CASE CountChunk(w)
    <2>1. /\ pc[w] = "count" /\ remaining' = remaining - 1
          /\ \E p \in {"lock", "report"} : pc' = [pc EXCEPT ![w] = p]
          /\ UNCHANGED <<raw, lock>>
        BY <1>3 DEF CountChunk, resultVars
    <2>2. Pending' = Pending \ {w} /\ w \in Pending
        BY <1>0, <2>1 DEF Pending
    <2>3. IsFiniteSet(Pending') /\ Cardinality(Pending') = Cardinality(Pending) - 1
        BY <1>0, <2>2, FS_RemoveElement
    <2>4. lock' \/ Len(raw') + remaining' >= N + Cardinality(Pending')
        BY <1>0, <2>1, <2>3 DEF EnoughLeft
    <2> QED
        BY <1>0, <2>1, <2>3, <2>4 DEF CounterBehindList, EnoughLeft
<1>4. CASE CleanKeys(w)
    <2>1. /\ pc[w] = "clean" /\ remaining' = 0 /\ pc' = [pc EXCEPT ![w] = "complete"]
        BY <1>4 DEF CleanKeys
    <2>2. Pending' = Pending
        BY <1>0, <2>1 DEF Pending
    <2>3. lock'
        BY <2>1 DEF LockPhase, Assembling
    <2> QED
        BY <1>0, <2>1, <2>2, <2>3 DEF CounterBehindList, EnoughLeft
<1>5. CASE AcquireLock(w) \/ StoreFinal(w) \/ CompleteStep(w) \/ Announce(w)
    <2>1. /\ UNCHANGED <<raw, remaining>>
          /\ pc[w] # "count"
          /\ \E p \in {"ack", "read", "clean", "announce"} : pc' = [pc EXCEPT ![w] = p]
        BY <1>5 DEF AcquireLock, StoreFinal, CompleteStep, Announce, countVars
    <2>2. Pending' = Pending
        BY <1>0, <2>1 DEF Pending
    <2>3. lock' \/ Len(raw') + remaining' >= N + Cardinality(Pending')
        BY <1>0, <2>1, <2>2 DEF EnoughLeft
    <2> QED
        BY <1>0, <2>1, <2>2, <2>3 DEF CounterBehindList, EnoughLeft
<1> QED
    BY <1>1, <1>2, <1>3, <1>4, <1>5, WorkerSteps DEF WorkStep, ShapeInv

---------------------------------------------------------------------------
(* The assembly.                                                           *)

AssemblyInv == LockPhase /\ OneAssembler /\ AssemblyFindsAll

(* The lock holder finds a list that is long enough: it never defers.      *)
LEMMA NeverDefers ==
    ASSUME ShapeInv, AssemblyInv, NEW w \in Workers, StoreFinal(w)
    PROVE  /\ pc[w] = "read" /\ final = <<>>
           /\ final' = ByChunkId(raw) /\ final' # <<>> /\ Len(final') >= N
           /\ pc' = [pc EXCEPT ![w] = "clean"]
           /\ UNCHANGED <<lock, remaining, total, raw, claimed, step, announced, cur>>
<1>1. pc[w] = "read" /\ final = <<>> /\ Len(raw) >= N /\ raw \in Seq(Chunks) /\ total \in {0, N}
    BY DEF StoreFinal, AssemblyInv, LockPhase, AssemblyFindsAll, ShapeInv, TypeOK, JobTypeOK
<1>2. ~(total # 0 /\ Len(raw) < total)
    BY <1>1
<1>3. ByChunkId(raw) \in Seq(Chunks) /\ Len(ByChunkId(raw)) = Len(raw)
    BY <1>1, SortedType
<1>4. ByChunkId(raw) # <<>>
    BY <1>1, <1>3
<1> QED
    BY <1>1, <1>2, <1>3, <1>4 DEF StoreFinal, countVars

(* The lock is never given back.                                           *)
LEMMA LockIsKept ==
    ASSUME ShapeInv, AssemblyInv, NEW w \in Workers, WorkerStep(w) \/ Failure(w), lock
    PROVE  lock'
<1>1. CASE Quiet
    BY <1>1 DEF Quiet
<1>2. CASE StoreFinal(w)
    BY <1>2, NeverDefers
<1>3. CASE WorkStep(w) /\ ~StoreFinal(w)
    BY <1>3 DEF WorkStep, PushResult, CountChunk, AcquireLock, CleanKeys, CompleteStep, Announce,
                resultVars
<1> QED
    BY <1>1, <1>2, <1>3, WorkerSteps DEF ShapeInv

(* Who counts the counter down to zero has a list that is long enough.     *)
LEMMA ZeroMeansAll ==
    ASSUME ShapeInv, CounterBehindList, NEW w \in Workers, CountChunk(w), remaining' <= 0,
           StoreStep(w)
    PROVE  lock \/ Len(raw) >= N
<1>1. pc[w] = "count" /\ remaining' = remaining - 1
    BY DEF CountChunk
<1>2. /\ remaining \in Int /\ raw \in Seq(Chunks) /\ IsFiniteSet(Pending)
      /\ Cardinality(Pending) \in Nat
    BY PendingCount DEF ShapeInv, TypeOK, JobTypeOK, CounterBehindList, EnoughLeft
<1>3. Cardinality(Pending) # 0
    <2>1. w \in Pending
        BY <1>1 DEF Pending
    <2> QED
        BY <1>2, <2>1, FS_EmptySet
<1>4. lock \/ EnoughLeft
    BY WorkerSteps DEF ShapeInv, WorkerStep, CounterBehindList, EnoughLeft
<1> QED
    BY <1>1, <1>2, <1>3, <1>4 DEF EnoughLeft

LEMMA WorkerAssembly ==
    ASSUME ShapeInv, CounterBehindList, AssemblyInv,
           NEW w \in Workers, WorkerStep(w) \/ Failure(w)
    PROVE  AssemblyInv'
<1> USE DEF AssemblyInv, LockPhase, OneAssembler, AssemblyFindsAll, Assembling
<1>0. /\ pc \in [Workers -> Pcs] /\ raw \in Seq(Chunks)
      /\ LockPhase /\ OneAssembler /\ AssemblyFindsAll
    BY DEF ShapeInv, TypeOK, JobTypeOK
<1>1. CASE Quiet
    BY <1>0, <1>1 DEF Quiet
<1>2. CASE PushResult(w)
    <2>1. /\ raw' = Append(raw, Chunk(cur[w])) /\ pc' = [pc EXCEPT ![w] = "count"]
          /\ UNCHANGED <<lock, final>>
        BY <1>2 DEF PushResult, resultVars
    <2>2. Len(raw') = Len(raw) + 1 /\ Len(raw) \in Nat
        BY <1>0, <1>2, <2>1, InHand DEF PushResult
    <2> QED
        BY <1>0, <2>1, <2>2
<1>3. CASE CountChunk(w) /\ StoreStep(w)
    <2>1. /\ pc' = [pc EXCEPT ![w] = IF remaining' <= 0 THEN "lock" ELSE "report"]
          /\ UNCHANGED <<raw, lock, final>>
        BY <1>3 DEF CountChunk, resultVars
    <2>2. remaining' <= 0 => lock \/ Len(raw) >= N
        BY <1>3, ZeroMeansAll
    <2> QED
        BY <1>0, <2>1, <2>2
<1>4. CASE AcquireLock(w)
    <2>1. /\ pc[w] = "lock" /\ lock' = TRUE
          /\ pc' = [pc EXCEPT ![w] = IF lock THEN "ack" ELSE "read"]
          /\ UNCHANGED <<raw, final>>
        BY <1>4 DEF AcquireLock, countVars
    <2>2. CASE lock
        BY <1>0, <2>1, <2>2
    <2>3. CASE ~lock
        BY <1>0, <2>1, <2>3
    <2> QED
        BY <2>2, <2>3
<1>5. CASE StoreFinal(w)
    <2>1. /\ pc[w] = "read" /\ final' # <<>> /\ Len(final') >= N
          /\ pc' = [pc EXCEPT ![w] = "clean"] /\ UNCHANGED <<lock, raw>>
        BY <1>5, NeverDefers
    <2>2. lock
        BY <1>0, <2>1
    <2> QED
        BY <1>0, <2>1, <2>2
<1>6. CASE CleanKeys(w) \/ CompleteStep(w) \/ Announce(w)
    <2>1. /\ pc[w] \in Assembling \ {"read"}
          /\ \E p \in {"complete", "announce", "ack"} : pc' = [pc EXCEPT ![w] = p]
          /\ UNCHANGED <<lock, final>>
        BY <1>6 DEF CleanKeys, CompleteStep, Announce, resultVars
    <2> QED
        BY <1>0, <2>1
<1> QED
    BY <1>1, <1>2, <1>3, <1>4, <1>5, <1>6, WorkerSteps DEF WorkStep, ShapeInv

---------------------------------------------------------------------------
(* The invariant, whatever fails.                                          *)

LEMMA InitBatch == Init => BInv
<1> SUFFICES ASSUME Init PROVE BInv
    OBVIOUS
<1>1. ShapeInv
    BY InitShape
<1>2. \A w \in Workers : pc[w] = "idle"
    BY DEF Init, JobInit
<1>3. raw = <<>> /\ final = <<>> /\ lock = FALSE /\ remaining = 0
    BY DEF Init, JobInit
<1>4. Pending = {} /\ IsFiniteSet(Pending)
    BY <1>2, FS_EmptySet DEF Pending
<1>5. NothingPublished
    BY DEF Init, JobInit, NothingPublished
<1>6. CounterBehindList
    BY <1>3, <1>4, <1>5 DEF CounterBehindList, EnoughLeft
<1>7. LockPhase /\ OneAssembler /\ AssemblyFindsAll
    BY <1>2, <1>3 DEF LockPhase, OneAssembler, AssemblyFindsAll, Assembling
<1> QED
    BY <1>1, <1>6, <1>7 DEF BInv, ShapeInv

LEMMA KeepsBatch == BInv /\ [Next]_vars => BInv'
<1> SUFFICES ASSUME BInv, [Next]_vars PROVE BInv'
    OBVIOUS
<1>0. ShapeInv /\ CounterBehindList /\ AssemblyInv /\ TypeOK
    BY DEF BInv, ShapeInv, AssemblyInv
<1>1. ShapeInv'
    BY <1>0, KeepsShape
<1>2. CASE UNCHANGED <<vars>>
    <2>1. UNCHANGED <<dpc, queue, unacked, remaining, raw, lock, final, pc, buffer>>
        BY <1>2 DEF vars, jobVars, entryVars, brokerVars, countVars, resultVars, localVars
    <2>2. Pending' = Pending /\ NothingPublished' = NothingPublished
        BY <2>1 DEF Pending, NothingPublished
    <2>3. CounterBehindList'
        BY <1>0, <2>1, <2>2 DEF CounterBehindList, EnoughLeft
    <2>4. AssemblyInv'
        BY <1>0, <2>1 DEF AssemblyInv, LockPhase, OneAssembler, AssemblyFindsAll
    <2> QED
        BY <1>1, <2>3, <2>4 DEF BInv, ShapeInv, AssemblyInv
<1>3. CASE Entry
    <2>1. CounterBehindList'
        BY <1>0, <1>3, EntryCounter
    <2>2. UNCHANGED <<raw, lock, final, pc>>
        BY <1>3, EntryLeaves DEF resultVars
    <2>3. AssemblyInv'
        BY <1>0, <2>2 DEF AssemblyInv, LockPhase, OneAssembler, AssemblyFindsAll
    <2> QED
        BY <1>1, <2>1, <2>3 DEF BInv, ShapeInv, AssemblyInv
<1>4. ASSUME NEW w \in Workers, WorkerStep(w) \/ Failure(w)
      PROVE  BInv'
    <2>1. CounterBehindList'
        BY <1>0, <1>4, WorkerCounter, LockIsKept DEF AssemblyInv
    <2>2. AssemblyInv'
        BY <1>0, <1>4, WorkerAssembly
    <2> QED
        BY <1>1, <2>1, <2>2 DEF BInv, ShapeInv, AssemblyInv
<1> QED
    BY <1>2, <1>3, <1>4 DEF Next

(* Under failures of every kind batch mode keeps its types, its place in   *)
(* each batch, the counter behind the list and the lock with one worker.   *)
THEOREM BatchInvariant == Spec => []BInv
BY InitBatch, KeepsBatch, PTL DEF Spec

(* All variables keep their types.                                         *)
THEOREM BatchTypes == Spec => []TypeOK
<1>1. BInv => TypeOK
    BY DEF BInv
<1> QED
    BY <1>1, BatchInvariant, PTL

(* The SETNX lock admits one assembler at a time: no failure and no second *)
(* delivery brings another worker into _do_assemble_locked.                *)
THEOREM BatchOneAssembler == Spec => []OneAssembler
<1>1. BInv => OneAssembler
    BY DEF BInv
<1> QED
    BY <1>1, BatchInvariant, PTL

(* Who sees the counter at zero finds at least N results, although the     *)
(* counter and the list are written by two Redis calls with failures       *)
(* between them: the list is pushed first.                                 *)
THEOREM BatchFindsAll == Spec => []AssemblyFindsAll
<1>1. BInv => AssemblyFindsAll
    BY DEF BInv
<1> QED
    BY <1>1, BatchInvariant, PTL

(* A stored final result is never replaced.                                *)
THEOREM BatchFinalStable == Spec => FinalStable
<1>1. BInv /\ [Next]_vars => (final # <<>> => final' = final)
    <2> SUFFICES ASSUME BInv, [Next]_vars, final # <<>>
                 PROVE  final' = final
        OBVIOUS
    <2>0. ShapeInv /\ AssemblyInv
        BY DEF BInv, ShapeInv, AssemblyInv
    <2>1. CASE UNCHANGED vars \/ Entry
        BY <2>1, EntryLeaves DEF vars, jobVars, resultVars
    <2>2. ASSUME NEW w \in Workers, WorkerStep(w) \/ Failure(w)
          PROVE  final' = final
        <3>1. ~StoreFinal(w)
            BY <2>0, NeverDefers
        <3> QED
            BY <2>0, <2>2, <3>1, WorkerSteps
               DEF ShapeInv, Quiet, WorkStep, PushResult, CountChunk, AcquireLock, CleanKeys,
                   CompleteStep, Announce, resultVars
    <2> QED
        BY <2>1, <2>2 DEF Next
<1> QED
    BY <1>1, BatchInvariant, PTL DEF Spec, FinalStable

---------------------------------------------------------------------------
(* As long as no call fails, no delivery leaks.                            *)

LEMMA NoElements == ElementsOf(<<>>) = {}
BY DEF ElementsOf

(* What is unanswered by a worker that is idle, that starts its batch or   *)
(* goes on with it.                                                        *)
LEMMA IdleUnanswered ==
    ASSUME ShapeInv, NEW w \in Workers, pc[w] = "idle"
    PROVE  Unanswered(w) = ElementsOf(buffer[w])
<1>1. DOMAIN batch[w] = {}
    BY DEF ShapeInv, BatchShape
<1> QED
    BY <1>1 DEF Unanswered

LEMMA StartUnanswered ==
    ASSUME NEW w \in Workers, NEW items \in Seq(Msgs), NEW timer,
           ShapeInv, StartBatch(w, items, timer)
    PROVE  /\ Unanswered(w)' = ElementsOf(buffer'[w]) \cup ElementsOf(items)
           /\ \A v \in Workers \ {w} :
                 buffer'[v] = buffer[v] => Unanswered(v)' = Unanswered(v)
<1>1. /\ batch'[w] = items /\ pos'[w] = 1
      /\ \A v \in Workers \ {w} : batch'[v] = batch[v] /\ pos'[v] = pos[v]
    BY DEF StartBatch, ShapeInv, TypeOK
<1>2. \A j \in DOMAIN items : j >= 1
    OBVIOUS
<1> QED
    BY <1>1, <1>2 DEF Unanswered, ElementsOf

LEMMA LeaveUnanswered ==
    ASSUME NEW w \in Workers, ShapeInv, LeaveBatch(w)
    PROVE  /\ Unanswered(w)' = ElementsOf(buffer'[w])
           /\ \A v \in Workers \ {w} :
                 buffer'[v] = buffer[v] => Unanswered(v)' = Unanswered(v)
<1>1. /\ batch'[w] = <<>>
      /\ \A v \in Workers \ {w} : batch'[v] = batch[v] /\ pos'[v] = pos[v]
    BY DEF LeaveBatch, ShapeInv, TypeOK
<1> QED
    BY <1>1 DEF Unanswered, ElementsOf

(* Answering the message in hand.                                          *)
LEMMA AckUnanswered ==
    ASSUME NEW w \in Workers, ShapeInv, AckChunk(w)
    PROVE  /\ Unanswered(w) \subseteq Unanswered(w)' \cup {cur[w]}
           /\ \A v \in Workers \ {w} : Unanswered(v)' = Unanswered(v)
<1>0. /\ batch \in [Workers -> Seq(Msgs)] /\ pos \in [Workers -> 0..BatchSize]
      /\ pos[w] \in 1..Len(batch[w]) /\ cur[w] = batch[w][pos[w]]
      /\ buffer' = buffer
    BY DEF ShapeInv, TypeOK, BatchShape, AckChunk
<1>1. DOMAIN batch[w] = 1..Len(batch[w]) /\ Len(batch[w]) \in Nat
    BY <1>0
<1>2. CASE pos[w] = Len(batch[w])
    <2>1. LeaveBatch(w)
        BY <1>2 DEF AckChunk
    <2>2. \A j \in DOMAIN batch[w] : j >= pos[w] => j = pos[w]
        BY <1>0, <1>1, <1>2
    <2>3. Unanswered(w) \subseteq ElementsOf(buffer[w]) \cup {cur[w]}
        BY <1>0, <2>2 DEF Unanswered
    <2> QED
        BY <1>0, <2>1, <2>3, LeaveUnanswered
<1>3. CASE pos[w] # Len(batch[w])
    <2>1. pos' = [pos EXCEPT ![w] = @ + 1] /\ batch' = batch
        BY <1>3 DEF AckChunk
    <2>2. \A j \in DOMAIN batch[w] : j >= pos[w] => j = pos[w] \/ j >= pos[w] + 1
        BY <1>0, <1>1
    <2>3. pos'[w] = pos[w] + 1 /\ \A v \in Workers \ {w} : pos'[v] = pos[v]
        BY <1>0, <2>1
    <2> QED
        BY <1>0, <2>1, <2>2, <2>3 DEF Unanswered
<1> QED
    BY <1>2, <1>3

LEMMA TakeKeepsHold ==
    ASSUME ShapeInv, HoldInv, NEW w \in Workers,
           \/ \E m \in queue : BufferChunk(w, m) \/ TakeOversized(w, m)
           \/ FlushBuffer(w)
    PROVE  HoldInv'
<1>0. /\ unacked \in [Workers -> SUBSET Msgs] /\ pc \in [Workers -> Pcs]
      /\ buffer \in [Workers -> Seq(Msgs)] /\ queue \subseteq Msgs
      /\ batch \in [Workers -> Seq(Msgs)]
      /\ pc[w] = "idle" /\ live[w] /\ live' = live
    BY DEF ShapeInv, TypeOK, JobTypeOK, BufferChunk, TakeOversized, FlushBuffer, Deliver, HoldInv
<1>1. Unanswered(w) = ElementsOf(buffer[w]) /\ unacked[w] \subseteq ElementsOf(buffer[w])
    BY <1>0, IdleUnanswered DEF HoldInv
<1>2. \A v \in Workers \ {w} : pc'[v] = pc[v] /\ unacked'[v] = unacked[v] /\ buffer'[v] = buffer[v]
    BY <1>0 DEF BufferChunk, TakeOversized, FlushBuffer, Deliver, StartBatch, brokerVars
<1>4. ASSUME NEW m \in queue, BufferChunk(w, m)
      PROVE  /\ unacked'[w] \subseteq Unanswered(w)'
             /\ \A v \in Workers \ {w} : Unanswered(v)' = Unanswered(v)
    <2>1. unacked'[w] = unacked[w] \cup {m}
        BY <1>0, <1>4 DEF BufferChunk, Deliver
    <2>2. /\ Append(buffer[w], m) \in Seq(Msgs)
          /\ ElementsOf(Append(buffer[w], m)) = ElementsOf(buffer[w]) \cup {m}
        BY <1>0, AppendElements
    <2>3. CASE Len(Append(buffer[w], m)) >= BatchSize
        <3>1. StartBatch(w, Append(buffer[w], m), FALSE)
            BY <1>4, <2>3 DEF BufferChunk
        <3>2. Unanswered(w)' = ElementsOf(buffer'[w]) \cup ElementsOf(Append(buffer[w], m))
            BY <2>2, <3>1, StartUnanswered
        <3>3. \A v \in Workers \ {w} : Unanswered(v)' = Unanswered(v)
            BY <1>2, <2>2, <3>1, StartUnanswered
        <3> QED
            BY <1>1, <2>1, <2>2, <3>2, <3>3
    <2>4. CASE ~(Len(Append(buffer[w], m)) >= BatchSize)
        <3>1. /\ buffer' = [buffer EXCEPT ![w] = Append(buffer[w], m)]
              /\ UNCHANGED <<batch, pos>>
            BY <1>4, <2>4 DEF BufferChunk
        <3>2. buffer'[w] = Append(buffer[w], m)
            BY <1>0, <3>1
        <3>3. ElementsOf(buffer'[w]) \subseteq Unanswered(w)'
            BY DEF Unanswered
        <3> QED
            BY <1>1, <1>2, <2>1, <2>2, <3>1, <3>2, <3>3 DEF Unanswered
    <2> QED
        BY <2>3, <2>4
<1>5. ASSUME NEW m \in queue, TakeOversized(w, m)
      PROVE  /\ unacked'[w] \subseteq Unanswered(w)'
             /\ \A v \in Workers \ {w} : Unanswered(v)' = Unanswered(v)
    <2>1. unacked'[w] = unacked[w] \cup {m} /\ StartBatch(w, <<m>>, FALSE) /\ buffer' = buffer
        BY <1>0, <1>5 DEF TakeOversized, Deliver
    <2>2. <<m>> \in Seq(Msgs) /\ m \in ElementsOf(<<m>>)
        BY <1>0 DEF ElementsOf
    <2>3. Unanswered(w)' = ElementsOf(buffer[w]) \cup ElementsOf(<<m>>)
        BY <2>1, <2>2, StartUnanswered
    <2>4. \A v \in Workers \ {w} : Unanswered(v)' = Unanswered(v)
        BY <1>2, <2>1, <2>2, StartUnanswered
    <2> QED
        BY <1>1, <2>1, <2>2, <2>3, <2>4
<1>6. ASSUME FlushBuffer(w)
      PROVE  /\ unacked'[w] \subseteq Unanswered(w)'
             /\ \A v \in Workers \ {w} : Unanswered(v)' = Unanswered(v)
    <2>1. unacked' = unacked /\ StartBatch(w, buffer[w], TRUE) /\ buffer[w] \in Seq(Msgs)
        BY <1>0, <1>6 DEF FlushBuffer, brokerVars
    <2>2. Unanswered(w)' = ElementsOf(buffer'[w]) \cup ElementsOf(buffer[w])
        BY <2>1, StartUnanswered
    <2>3. \A v \in Workers \ {w} : Unanswered(v)' = Unanswered(v)
        BY <1>2, <2>1, StartUnanswered
    <2> QED
        BY <1>1, <2>1, <2>2, <2>3
<1>7. /\ unacked'[w] \subseteq Unanswered(w)'
      /\ \A v \in Workers \ {w} : Unanswered(v)' = Unanswered(v)
    BY <1>4, <1>5, <1>6
<1>8. ASSUME NEW v \in Workers
      PROVE  unacked'[v] \subseteq Unanswered(v)' /\ (~live'[v] => pc'[v] # "idle" /\ unacked'[v] = {})
    <2>1. CASE v = w
        BY <1>0, <1>7, <2>1
    <2>2. CASE v # w
        BY <1>0, <1>2, <1>7, <2>2 DEF HoldInv
    <2> QED
        BY <2>1, <2>2
<1> QED
    BY <1>8 DEF HoldInv

LEMMA KeepsHold ==
    ASSUME "fault" \notin Failures, ShapeInv, HoldInv, [Next]_vars
    PROVE  HoldInv'
<1>0. /\ unacked \in [Workers -> SUBSET Msgs] /\ pc \in [Workers -> Pcs]
      /\ buffer \in [Workers -> Seq(Msgs)] /\ live \in [Workers -> BOOLEAN]
    BY DEF ShapeInv, TypeOK, JobTypeOK
<1>1. CASE UNCHANGED vars \/ Entry
    <2>1. UNCHANGED <<unacked, buffer, batch, pos, live, pc>>
        BY <1>1, EntryLeaves DEF vars, jobVars, brokerVars, localVars
    <2> QED
        BY <2>1 DEF HoldInv, Unanswered
<1>2. ASSUME NEW w \in Workers, WorkerStep(w)
      PROVE  HoldInv'
    <2>1. CASE (\E m \in queue : BufferChunk(w, m) \/ TakeOversized(w, m)) \/ FlushBuffer(w)
        BY <2>1, TakeKeepsHold
    <2>2. CASE StoreStep(w)
        <3>1. UNCHANGED <<unacked, localVars>>
            BY <2>2 DEF StoreStep, ResultStep, ClaimChunk, IgnoreDuplicate, PushResult, CountChunk,
               ReportChunk, AcquireLock, StoreFinal, CleanKeys, CompleteStep, Announce, brokerVars
        <3>2. \E p \in Pcs \ {"idle"} : pc' = [pc EXCEPT ![w] = p]
            BY <2>2 DEF StoreStep, ResultStep, ClaimChunk, IgnoreDuplicate, PushResult, CountChunk,
               ReportChunk, AcquireLock, StoreFinal, CleanKeys, CompleteStep, Announce,
               Pcs, Assembling
        <3> QED
            BY <1>0, <3>1, <3>2 DEF HoldInv, Unanswered, localVars
    <2>3. CASE AckChunk(w)
        <3>1. /\ unacked'[w] = unacked[w] \ {cur[w]} /\ live[w] /\ live' = live
              /\ \A v \in Workers \ {w} : pc'[v] = pc[v] /\ unacked'[v] = unacked[v]
            BY <1>0, <2>3 DEF AckChunk, LeaveBatch
        <3> QED
            BY <2>3, <3>1, AckUnanswered DEF HoldInv
    <2>4. CASE AbandonBatch(w)
        <3>1. /\ LeaveBatch(w) /\ unacked' = unacked /\ ~live[w] /\ live'[w]
              /\ \A v \in Workers \ {w} : /\ pc'[v] = pc[v] /\ live'[v] = live[v]
                                          /\ buffer'[v] = buffer[v]
            BY <1>0, <2>4 DEF AbandonBatch, LeaveBatch, Reconnect, brokerVars
        <3> QED
            BY <3>1, LeaveUnanswered DEF HoldInv
    <2> QED
        BY <1>2, <2>1, <2>2, <2>3, <2>4 DEF WorkerStep
<1>3. ASSUME NEW w \in Workers, Failure(w)
      PROVE  HoldInv'
    <2>1. ConnectionLost(w) \/ Crash(w)
        BY <1>3 DEF Failure, NackLast, NackBatch, NackAcked, NackClosed, Raised, CaughtFault, Fail
    <2>2. /\ unacked'[w] = {}
          /\ \A v \in Workers \ {w} : /\ pc'[v] = pc[v] /\ live'[v] = live[v]
                                      /\ buffer'[v] = buffer[v] /\ unacked'[v] = unacked[v]
        BY <1>0, <2>1 DEF ConnectionLost, Crash, RequeueAll, Reconnect, LeaveBatch
    <2>3. \A v \in Workers \ {w} : Unanswered(v)' = Unanswered(v)
        <3>1. CASE ConnectionLost(w)
            BY <2>2, <3>1 DEF ConnectionLost, Unanswered
        <3>2. CASE Crash(w)
            BY <2>2, <3>2, LeaveUnanswered DEF Crash
        <3> QED
            BY <2>1, <3>1, <3>2
    <2>4. ~live'[w] => pc'[w] # "idle"
        BY <1>0, <2>1 DEF ConnectionLost, Crash, Reconnect
    <2> QED
        BY <2>2, <2>3, <2>4 DEF HoldInv
<1> QED
    BY <1>1, <1>2, <1>3 DEF Next

(* A worker never forgets a delivery the broker waits for, so its prefetch *)
(* window keeps its size: true of crashes and lost connections.  A call    *)
(* that raises breaks it, because process() returns its own delivery and   *)
(* not the others of the batch (NackLast).                                 *)
THEOREM NoDeliveryLeaks ==
    ASSUME "fault" \notin Failures
    PROVE  Spec => []NoLeakedDelivery
<1>1. Init => HoldInv
    BY DEF Init, JobInit, HoldInv
<1>2. BInv /\ HoldInv /\ [Next]_vars => HoldInv'
    BY KeepsHold DEF BInv, ShapeInv
<1>3. HoldInv => NoLeakedDelivery
    BY DEF HoldInv, NoLeakedDelivery, Unanswered, ElementsOf
<1> QED
    BY <1>1, <1>2, <1>3, BatchInvariant, PTL DEF Spec

---------------------------------------------------------------------------
(* As long as nothing happens twice: the places of a message.              *)

LEMMA SameChunk ==
    ASSUME Undisturbed, NEW m \in Msgs, NEW n \in Msgs, Chunk(m) = Chunk(n)
    PROVE  m = n
BY DEF Undisturbed, Msgs, Chunk

(* What a worker has yet to answer is the message in hand and those ahead. *)
LEMMA Hands ==
    ASSUME ShapeInv, OnePlace, NEW w \in Workers
    PROVE  /\ Ahead(w) \subseteq unacked[w] /\ unacked[w] \subseteq Msgs
           /\ pc[w] = "idle" => unacked[w] = ElementsOf(buffer[w]) /\ Ahead(w) = unacked[w]
           /\ pc[w] # "idle" => /\ unacked[w] = Ahead(w) \cup {cur[w]}
                                /\ cur[w] \notin Ahead(w)
<1>0. /\ batch[w] \in Seq(Msgs) /\ pos[w] \in 0..BatchSize /\ unacked[w] \subseteq Msgs
      /\ Placed(w) /\ unacked[w] = Unanswered(w)
    BY DEF ShapeInv, TypeOK, JobTypeOK, OnePlace, Placed
<1>1. DOMAIN batch[w] = 1..Len(batch[w]) /\ Len(batch[w]) \in Nat
    BY <1>0
<1>2. Ahead(w) \subseteq Unanswered(w)
    BY <1>0, <1>1 DEF Ahead, Unanswered
<1>3. CASE pc[w] = "idle"
    <2>1. batch[w] = <<>>
        BY <1>3 DEF ShapeInv, BatchShape
    <2> QED
        BY <1>0, <1>2, <1>3, <2>1 DEF Ahead, Unanswered
<1>4. CASE pc[w] # "idle"
    <2>1. pos[w] \in 1..Len(batch[w]) /\ cur[w] = batch[w][pos[w]]
        BY <1>4 DEF ShapeInv, BatchShape
    <2>2. \A j \in DOMAIN batch[w] : j >= pos[w] <=> j = pos[w] \/ j > pos[w]
        BY <1>1, <2>1
    <2>3. Unanswered(w) = Ahead(w) \cup {cur[w]}
        BY <1>1, <2>1, <2>2 DEF Ahead, Unanswered
    <2>4. cur[w] \notin ElementsOf(buffer[w])
        BY <1>0, <1>1, <2>1 DEF Placed
    <2>5. \A j \in DOMAIN batch[w] : j > pos[w] => batch[w][j] # cur[w]
        BY <1>0, <1>1, <2>1 DEF Placed, NoRepeats
    <2> QED
        BY <1>0, <1>2, <1>4, <2>3, <2>4, <2>5 DEF Ahead
<1> QED
    BY <1>0, <1>2, <1>3, <1>4

(* A worker whose part of the state stays the same keeps its places.       *)
SameHands(v) ==
    /\ unacked'[v] = unacked[v] /\ buffer'[v] = buffer[v] /\ batch'[v] = batch[v]
    /\ pos'[v] = pos[v] /\ live'[v] = live[v]

LEMMA SamePlaces ==
    ASSUME NEW v \in Workers, SameHands(v)
    PROVE  /\ Ahead(v)' = Ahead(v) /\ Unanswered(v)' = Unanswered(v)
           /\ Placed(v) /\ queue' \cap unacked[v] = {} => Placed(v)'
BY DEF SameHands, Ahead, Unanswered, Placed

(* Starting a batch with what waits for it.                                *)
LEMMA StartPlaces ==
    ASSUME NEW w \in Workers, NEW items \in Seq(Msgs), NEW timer,
           ShapeInv, StartBatch(w, items, timer), NoRepeats(items), Len(items) > 0
    PROVE  /\ Unanswered(w)' = ElementsOf(buffer'[w]) \cup ElementsOf(items)
           /\ NoRepeats(batch'[w])
           /\ cur'[w] \in ElementsOf(items) /\ pc'[w] \in {"claim", "push"}
           /\ batch'[w] = items
<1>1. /\ batch'[w] = items /\ cur'[w] = items[1] /\ pc'[w] \in {"claim", "push"}
    BY DEF StartBatch, ShapeInv, TypeOK, JobTypeOK
<1>2. 1 \in DOMAIN items
    OBVIOUS
<1> QED
    BY <1>1, <1>2, StartUnanswered DEF ElementsOf

(* A worker that takes the messages of M off the queue.                    *)
Takes(w, M) ==
    /\ M \subseteq queue /\ queue' = queue \ M
    /\ unacked'[w] = unacked[w] \cup M
    /\ \A v \in Workers \ {w} : SameHands(v) /\ pc'[v] = pc[v] /\ cur'[v] = cur[v]
    /\ Placed(w)'
    /\ pc[w] = "idle"
    /\ pc'[w] = "idle" \/ (pc'[w] \in {"claim", "push"} /\ cur'[w] \in unacked'[w])
    /\ UNCHANGED <<entryVars, countVars, resultVars>>

LEMMA TakePlaces ==
    ASSUME ShapeInv, OnePlace, NEW w \in Workers,
           \/ \E m \in queue : BufferChunk(w, m) \/ TakeOversized(w, m)
           \/ FlushBuffer(w)
    PROVE  \E M \in SUBSET queue : Takes(w, M)
<1>0. /\ unacked \in [Workers -> SUBSET Msgs] /\ pc \in [Workers -> Pcs]
      /\ buffer \in [Workers -> Seq(Msgs)] /\ queue \subseteq Msgs
      /\ batch \in [Workers -> Seq(Msgs)] /\ cur \in [Workers -> Msgs \cup {NoMsg}]
      /\ pc[w] = "idle" /\ live' = live
    BY DEF ShapeInv, TypeOK, JobTypeOK, BufferChunk, TakeOversized, FlushBuffer, Deliver
<1>1. /\ live[w] /\ queue \cap unacked[w] = {} /\ NoRepeats(buffer[w])
      /\ unacked[w] = ElementsOf(buffer[w]) /\ batch[w] = <<>>
    BY <1>0, Hands DEF OnePlace, Placed, ShapeInv, BatchShape
<1>2. /\ \A v \in Workers \ {w} : SameHands(v) /\ pc'[v] = pc[v] /\ cur'[v] = cur[v]
      /\ UNCHANGED <<entryVars, countVars, resultVars>>
    <2>1. \A v \in Workers \ {w} : unacked'[v] = unacked[v] /\ buffer'[v] = buffer[v]
        BY <1>0 DEF BufferChunk, TakeOversized, FlushBuffer, Deliver, brokerVars
    <2>2. \A v \in Workers \ {w} : /\ batch'[v] = batch[v] /\ pos'[v] = pos[v]
                                   /\ pc'[v] = pc[v] /\ cur'[v] = cur[v]
        BY <1>0 DEF BufferChunk, TakeOversized, FlushBuffer, StartBatch, ShapeInv, TypeOK
    <2>3. UNCHANGED <<entryVars, countVars, resultVars>>
        BY DEF BufferChunk, TakeOversized, FlushBuffer
    <2> QED
        BY <1>0, <2>1, <2>2, <2>3 DEF SameHands
<1>3. ElementsOf(<<>>) = {} /\ NoRepeats(<<>>)
    BY DEF ElementsOf, NoRepeats
<1>4. ASSUME NEW m \in queue, BufferChunk(w, m)
      PROVE  Takes(w, {m})
    <2> DEFINE waiting == Append(buffer[w], m)
    <2>1. unacked'[w] = unacked[w] \cup {m} /\ queue' = queue \ {m}
        BY <1>0, <1>4 DEF BufferChunk, Deliver
    <2>2. /\ waiting \in Seq(Msgs) /\ Len(waiting) > 0
          /\ ElementsOf(waiting) = ElementsOf(buffer[w]) \cup {m}
          /\ NoRepeats(waiting)
        BY <1>0, <1>1, AppendElements, AppendDistinct
    <2>3. queue' \cap unacked'[w] = {}
        BY <1>1, <2>1
    <2>4. CASE Len(waiting) >= BatchSize
        <3>1. StartBatch(w, waiting, FALSE) /\ buffer'[w] = <<>>
            BY <1>0, <1>4, <2>4 DEF BufferChunk
        <3> HIDE DEF waiting
        <3>2. /\ Unanswered(w)' = ElementsOf(waiting) /\ NoRepeats(batch'[w])
              /\ cur'[w] \in ElementsOf(waiting) /\ pc'[w] \in {"claim", "push"}
            BY <1>3, <2>2, <3>1, StartPlaces
        <3>3. unacked'[w] = ElementsOf(waiting)
            BY <1>1, <2>1, <2>2
        <3>4. Placed(w)'
            BY <1>0, <1>1, <1>3, <2>3, <3>1, <3>2, <3>3 DEF Placed
        <3> QED
            BY <1>0, <1>2, <2>1, <3>2, <3>3, <3>4 DEF Takes
    <2>5. CASE ~(Len(waiting) >= BatchSize)
        <3>1. /\ buffer' = [buffer EXCEPT ![w] = waiting]
              /\ UNCHANGED <<batch, pos, cur, pc>>
            BY <1>4, <2>5 DEF BufferChunk
        <3>2. buffer'[w] = waiting
            BY <1>0, <3>1
        <3> HIDE DEF waiting
        <3>3. Unanswered(w)' = ElementsOf(waiting)
            BY <1>1, <3>1, <3>2 DEF Unanswered
        <3>4. unacked'[w] = ElementsOf(waiting)
            BY <1>1, <2>1, <2>2
        <3>5. Placed(w)'
            BY <1>0, <1>1, <1>3, <2>2, <2>3, <3>1, <3>2, <3>3, <3>4 DEF Placed
        <3> QED
            BY <1>0, <1>2, <2>1, <3>1, <3>5 DEF Takes
    <2> QED
        BY <2>4, <2>5
<1>5. ASSUME NEW m \in queue, TakeOversized(w, m)
      PROVE  Takes(w, {m})
    <2>1. /\ unacked'[w] = unacked[w] \cup {m} /\ queue' = queue \ {m}
          /\ StartBatch(w, <<m>>, FALSE) /\ buffer' = buffer
        BY <1>0, <1>5 DEF TakeOversized, Deliver
    <2>2. <<m>> \in Seq(Msgs) /\ ElementsOf(<<m>>) = {m} /\ NoRepeats(<<m>>) /\ Len(<<m>>) > 0
        BY <1>0 DEF ElementsOf, NoRepeats
    <2>3. /\ Unanswered(w)' = ElementsOf(buffer[w]) \cup {m} /\ NoRepeats(batch'[w])
          /\ cur'[w] \in {m} /\ pc'[w] \in {"claim", "push"} /\ batch'[w] = <<m>>
        BY <2>1, <2>2, StartPlaces
    <2>4. \A i \in DOMAIN batch'[w] : batch'[w][i] \notin ElementsOf(buffer'[w])
        <3>1. m \notin ElementsOf(buffer[w])
            BY <1>1
        <3> QED
            BY <2>1, <2>2, <2>3, <3>1 DEF ElementsOf
    <2>5. Placed(w)'
        BY <1>0, <1>1, <2>1, <2>3, <2>4 DEF Placed
    <2> QED
        BY <1>0, <1>2, <2>1, <2>3, <2>5 DEF Takes
<1>6. ASSUME FlushBuffer(w)
      PROVE  Takes(w, {})
    <2>0. /\ UNCHANGED <<queue, unacked>> /\ StartBatch(w, buffer[w], TRUE)
          /\ buffer[w] # <<>> /\ buffer'[w] = <<>>
        BY <1>0, <1>6 DEF FlushBuffer, brokerVars
    <2>1. buffer[w] \in Seq(Msgs) /\ Len(buffer[w]) > 0
        BY <1>0, <2>0
    <2>2. /\ Unanswered(w)' = ElementsOf(buffer[w]) /\ NoRepeats(batch'[w])
          /\ cur'[w] \in ElementsOf(buffer[w]) /\ pc'[w] \in {"claim", "push"}
        <3>1. /\ Unanswered(w)' = ElementsOf(buffer'[w]) \cup ElementsOf(buffer[w])
              /\ NoRepeats(batch'[w])
              /\ cur'[w] \in ElementsOf(buffer[w]) /\ pc'[w] \in {"claim", "push"}
            BY <1>1, <2>0, <2>1, StartPlaces
        <3>2. ElementsOf(buffer'[w]) = {}
            BY <1>3, <2>0 DEF ElementsOf
        <3> QED
            BY <3>1, <3>2
    <2>3. Placed(w)'
        BY <1>0, <1>1, <1>3, <2>0, <2>2 DEF Placed
    <2> QED
        BY <1>0, <1>1, <1>2, <2>0, <2>2, <2>3 DEF Takes
<1> QED
    BY <1>4, <1>5, <1>6

(* A worker that has answered the message in hand goes on to the next one. *)
Answers(w) ==
    /\ queue' = queue
    /\ unacked'[w] = Ahead(w)
    /\ \A v \in Workers \ {w} : SameHands(v) /\ pc'[v] = pc[v] /\ cur'[v] = cur[v]
    /\ Placed(w)'
    /\ pc[w] = "ack"
    /\ pc'[w] = "idle" \/ (pc'[w] = "push" /\ cur'[w] \in Ahead(w))
    /\ UNCHANGED <<entryVars, countVars, resultVars>>

LEMMA AckPlaces ==
    ASSUME ShapeInv, OnePlace, NEW w \in Workers, AckChunk(w)
    PROVE  Answers(w)
<1>0. /\ unacked \in [Workers -> SUBSET Msgs] /\ pc \in [Workers -> Pcs]
      /\ batch \in [Workers -> Seq(Msgs)] /\ cur \in [Workers -> Msgs \cup {NoMsg}]
      /\ pos \in [Workers -> 0..BatchSize]
      /\ pos[w] \in 1..Len(batch[w]) /\ cur[w] = batch[w][pos[w]]
      /\ pc[w] = "ack" /\ Placed(w)
      /\ UNCHANGED <<queue, buffer, live, entryVars, countVars, resultVars>>
    BY DEF ShapeInv, TypeOK, JobTypeOK, BatchShape, AckChunk, OnePlace
<1>1. unacked[w] = Ahead(w) \cup {cur[w]} /\ cur[w] \notin Ahead(w)
    BY <1>0, Hands
<1>2. unacked'[w] = Ahead(w)
    BY <1>0, <1>1 DEF AckChunk
<1>3. queue' \cap unacked'[w] = {}
    BY <1>0, <1>1, <1>2 DEF Placed
<1>4. DOMAIN batch[w] = 1..Len(batch[w]) /\ Len(batch[w]) \in Nat
    BY <1>0
<1>5. ElementsOf(<<>>) = {} /\ NoRepeats(<<>>) /\ DOMAIN <<>> = {}
    BY DEF ElementsOf, NoRepeats
<1>6. \A v \in Workers \ {w} : SameHands(v) /\ pc'[v] = pc[v] /\ cur'[v] = cur[v]
    BY <1>0 DEF AckChunk, LeaveBatch, SameHands
<1>7. CASE pos[w] = Len(batch[w])
    <2>1. LeaveBatch(w)
        BY <1>7 DEF AckChunk
    <2>2. ~ \E j \in DOMAIN batch[w] : j > pos[w]
        BY <1>0, <1>4, <1>7
    <2>3. Ahead(w) = ElementsOf(buffer[w])
        BY <2>2 DEF Ahead
    <2>4. Unanswered(w)' = ElementsOf(buffer'[w])
        BY <2>1, LeaveUnanswered
    <2>5. batch'[w] = <<>> /\ pc'[w] = "idle"
        BY <1>0, <2>1 DEF LeaveBatch
    <2>6. Placed(w)'
        BY <1>0, <1>2, <1>3, <1>5, <2>3, <2>4, <2>5 DEF Placed
    <2> QED
        BY <1>0, <1>2, <1>6, <2>5, <2>6 DEF Answers
<1>8. CASE pos[w] # Len(batch[w])
    <2>1. /\ pos' = [pos EXCEPT ![w] = @ + 1] /\ batch' = batch
          /\ cur' = [cur EXCEPT ![w] = batch[w][pos[w] + 1]]
          /\ pc' = [pc EXCEPT ![w] = "push"]
        BY <1>8 DEF AckChunk
    <2>2. pos'[w] = pos[w] + 1 /\ pc'[w] = "push" /\ cur'[w] = batch[w][pos[w] + 1]
        BY <1>0, <2>1
    <2>3. \A j \in DOMAIN batch[w] : j >= pos'[w] <=> j > pos[w]
        BY <1>0, <1>4, <2>2
    <2>4. Unanswered(w)' = Ahead(w)
        BY <1>0, <2>1, <2>3 DEF Unanswered, Ahead
    <2>5. pos[w] + 1 \in DOMAIN batch[w] /\ pos[w] + 1 > pos[w]
        BY <1>0, <1>4, <1>8
    <2>6. cur'[w] \in Ahead(w)
        BY <2>2, <2>5 DEF Ahead
    <2>7. \A i \in DOMAIN batch[w] : i >= pos'[w] => batch[w][i] \notin ElementsOf(buffer[w])
        BY <1>0, <1>4, <2>3 DEF Placed
    <2>8. Placed(w)'
        BY <1>0, <1>2, <1>3, <2>1, <2>4, <2>7 DEF Placed
    <2> QED
        BY <1>0, <1>2, <1>6, <2>2, <2>6, <2>8 DEF Answers
<1> QED
    BY <1>7, <1>8

LEMMA AheadIsUnacked ==
    ASSUME NEW w \in Workers, ShapeInv', Placed(w)'
    PROVE  Ahead(w)' \subseteq unacked'[w]
<1>1. DOMAIN batch'[w] \subseteq Int /\ pos'[w] \in Int
    BY DEF ShapeInv, TypeOK
<1>2. \A j \in DOMAIN batch'[w] : j > pos'[w] => j >= pos'[w]
    BY <1>1
<1> QED
    BY <1>2 DEF Placed, Ahead, Unanswered

---------------------------------------------------------------------------
(* A chunk is stored once, and none is lost.                               *)

LEMMA TakeKeepsOnce ==
    ASSUME ShapeInv, ShapeInv', OnceInv, NEW w \in Workers, NEW M \in SUBSET queue, Takes(w, M)
    PROVE  OnceInv'
<1>0. /\ OnePlace /\ OnlySent /\ StoredOnce /\ ChunkNotLost
      /\ queue' = queue \ M /\ unacked'[w] = unacked[w] \cup M /\ pc[w] = "idle"
      /\ \A v \in Workers \ {w} : unacked'[v] = unacked[v] /\ pc'[v] = pc[v] /\ cur'[v] = cur[v]
      /\ UNCHANGED <<sent, raw, final, claimed, step, announced>>
    BY DEF OnceInv, Takes, SameHands, entryVars, countVars, resultVars
<1>1. Stored' = Stored
    BY <1>0 DEF Stored, ElementsOf
<1>2. \A v \in Workers : queue \cap unacked[v] = {}
    BY <1>0 DEF OnePlace, Placed
<1>3. \A v \in Workers : Placed(v)'
    BY <1>0, <1>2, SamePlaces DEF Takes, OnePlace
<1>4. OnePlace'
    BY <1>0, <1>2, <1>3 DEF OnePlace
<1>5. OnlySent'
    BY <1>0, <1>1 DEF OnlySent
<1>6. \A m \in unacked'[w] : Chunk(m) \notin Stored \cup claimed
    <2>1. unacked[w] = Ahead(w)
        BY <1>0, Hands
    <2> QED
        BY <1>0, <2>1 DEF StoredOnce, Handled
<1>7. Ahead(w)' \subseteq unacked'[w]
    BY <1>3, AheadIsUnacked
<1>8. Handled(w)'
    BY <1>0, <1>1, <1>6, <1>7 DEF Handled, Takes
<1>9. ASSUME NEW v \in Workers \ {w} PROVE Handled(v)'
    BY <1>0, <1>1, SamePlaces DEF Handled, Takes, StoredOnce
<1>10. StoredOnce'
    BY <1>0, <1>1, <1>8, <1>9 DEF StoredOnce
<1>11. ChunkNotLost'
    BY <1>0, <1>1 DEF ChunkNotLost
<1>12. FinalComplete' /\ CompletedHasResult'
    BY <1>0 DEF OnceInv, FinalComplete, CompletedHasResult, Complete
<1> QED
    BY <1>4, <1>5, <1>10, <1>11, <1>12 DEF OnceInv

LEMMA AckKeepsOnce ==
    ASSUME ShapeInv, ShapeInv', OnceInv, NEW w \in Workers, Answers(w)
    PROVE  OnceInv'
<1>0. /\ OnePlace /\ OnlySent /\ StoredOnce /\ ChunkNotLost
      /\ queue' = queue /\ unacked'[w] = Ahead(w) /\ pc[w] = "ack"
      /\ \A v \in Workers \ {w} : unacked'[v] = unacked[v] /\ pc'[v] = pc[v] /\ cur'[v] = cur[v]
      /\ UNCHANGED <<sent, raw, final, claimed, step, announced>>
    BY DEF OnceInv, Answers, SameHands, entryVars, countVars, resultVars
<1>1. Stored' = Stored
    BY <1>0 DEF Stored, ElementsOf
<1>2. unacked[w] = Ahead(w) \cup {cur[w]} /\ Chunk(cur[w]) \in Stored
    BY <1>0, Hands DEF StoredOnce, Handled
<1>3. \A v \in Workers : Placed(v)'
    BY <1>0, SamePlaces DEF Answers, OnePlace, Placed
<1>4. OnePlace'
    BY <1>0, <1>2, <1>3 DEF OnePlace
<1>5. OnlySent'
    BY <1>0, <1>1, <1>2 DEF OnlySent
<1>6. \A m \in unacked'[w] : Chunk(m) \notin Stored \cup claimed
    BY <1>0 DEF StoredOnce, Handled
<1>7. Ahead(w)' \subseteq unacked'[w]
    BY <1>3, AheadIsUnacked
<1>8. Handled(w)'
    BY <1>0, <1>1, <1>6, <1>7 DEF Handled, Answers
<1>9. ASSUME NEW v \in Workers \ {w} PROVE Handled(v)'
    BY <1>0, <1>1, SamePlaces DEF Handled, Answers, StoredOnce
<1>10. StoredOnce'
    BY <1>0, <1>1, <1>8, <1>9 DEF StoredOnce
<1>11. ChunkNotLost'
    <2> SUFFICES ASSUME NEW c \in 1..sent, c \notin Stored
                 PROVE  \/ \E m \in queue' : Chunk(m) = c
                        \/ \E v \in Workers : \E m \in unacked'[v] : Chunk(m) = c
        BY <1>0, <1>1 DEF ChunkNotLost
    <2> QED
        BY <1>0, <1>2 DEF ChunkNotLost
<1>12. FinalComplete' /\ CompletedHasResult'
    BY <1>0 DEF OnceInv, FinalComplete, CompletedHasResult, Complete
<1> QED
    BY <1>4, <1>5, <1>10, <1>11, <1>12 DEF OnceInv

(* The assembler finds every chunk, once.                                  *)
LEMMA ReadIsComplete ==
    ASSUME ShapeInv, AssemblyInv, StoredOnce, NEW w \in Workers, pc[w] = "read"
    PROVE  Len(raw) = N /\ ElementsOf(raw) = Chunks /\ ByChunkId(raw) = Complete
<1>1. raw \in Seq(Chunks) /\ NoRepeats(raw) /\ Len(raw) >= N
    BY DEF ShapeInv, TypeOK, JobTypeOK, StoredOnce, AssemblyInv, AssemblyFindsAll
<1>2. ElementsOf(raw) \subseteq Chunks
    BY <1>1 DEF ElementsOf
<1>3. IsFiniteSet(ElementsOf(raw)) /\ Cardinality(ElementsOf(raw)) = Len(raw)
    BY <1>1, DistinctLength
<1>4. Cardinality(ElementsOf(raw)) <= N
    BY <1>2, ChunkCount, FS_Subset
<1>5. Cardinality(ElementsOf(raw)) = N
    BY <1>1, <1>3, <1>4
<1>6. ElementsOf(raw) = Chunks
    BY <1>2, <1>5, ChunkCount, FS_Subset
<1> QED
    BY <1>1, <1>3, <1>5, <1>6, SortedListing

(* The chunk in hand is in no other hand, nor waiting anywhere.            *)
LEMMA InHandIsAlone ==
    ASSUME Undisturbed, ShapeInv, OnePlace, NEW w \in Workers, pc[w] # "idle"
    PROVE  /\ \A m \in queue : Chunk(m) # Chunk(cur[w])
           /\ \A v \in Workers : \A m \in Ahead(v) : Chunk(m) # Chunk(cur[w])
           /\ \A v \in Workers \ {w} : pc[v] # "idle" => Chunk(cur[v]) # Chunk(cur[w])
           /\ cur[w] \in unacked[w]
<1>1. /\ cur[w] \in Msgs /\ queue \subseteq Msgs /\ cur[w] \in unacked[w] /\ cur[w] \notin Ahead(w)
      /\ \A v \in Workers : unacked[v] \subseteq Msgs /\ Ahead(v) \subseteq unacked[v]
      /\ \A v \in Workers : pc[v] # "idle" => cur[v] \in unacked[v]
    BY InHand, Hands DEF ShapeInv, TypeOK, JobTypeOK
<1>2. /\ queue \cap unacked[w] = {}
      /\ \A v \in Workers \ {w} : unacked[v] \cap unacked[w] = {}
    BY DEF OnePlace, Placed
<1> QED
    BY <1>1, <1>2, SameChunk

(* The steps after a result is stored, up to its acknowledgement.          *)
Later == Pcs \ {"idle", "claim", "push"}

LEMMA StoreKeepsOnce ==
    ASSUME Undisturbed, ShapeInv, AssemblyInv, OnceInv, NEW w \in Workers, StoreStep(w)
    PROVE  OnceInv'
<1> USE DEF entryVars, brokerVars, countVars, resultVars, localVars
<1>0. /\ OnePlace /\ OnlySent /\ StoredOnce /\ ChunkNotLost /\ FinalComplete /\ CompletedHasResult
      /\ pc \in [Workers -> Pcs] /\ raw \in Seq(Chunks)
      /\ UNCHANGED <<sent, queue, unacked, cur, localVars>>
      /\ pc[w] # "idle"
      /\ \A v \in Workers \ {w} : pc'[v] = pc[v]
    BY DEF OnceInv, ShapeInv, TypeOK, JobTypeOK, StoreStep, ResultStep, ClaimChunk, IgnoreDuplicate,
           PushResult, CountChunk, ReportChunk, AcquireLock, StoreFinal, CleanKeys, CompleteStep,
           Announce
<1>1. /\ \A m \in queue : Chunk(m) # Chunk(cur[w])
      /\ \A v \in Workers : \A m \in Ahead(v) : Chunk(m) # Chunk(cur[w])
      /\ \A v \in Workers \ {w} : pc[v] # "idle" => Chunk(cur[v]) # Chunk(cur[w])
      /\ cur[w] \in unacked[w]
    BY <1>0, InHandIsAlone
<1>2. \A v \in Workers : SameHands(v)
    BY <1>0 DEF SameHands
<1>3. OnePlace' /\ \A v \in Workers : Ahead(v)' = Ahead(v)
    BY <1>0, <1>2, SamePlaces DEF OnePlace, Placed
<1>4. Chunk(cur[w]) <= sent
    BY <1>0, <1>1 DEF OnlySent
<1>5. CASE ClaimChunk(w)
    <2>1. /\ pc[w] = "claim" /\ pc'[w] = "push" /\ claimed' = claimed \cup {Chunk(cur[w])}
          /\ UNCHANGED <<raw, final, step, announced>>
        BY <1>0, <1>5 DEF ClaimChunk
    <2>2. Stored' = Stored
        BY <2>1 DEF Stored, ElementsOf
    <2>3. OnlySent' /\ ChunkNotLost' /\ FinalComplete' /\ CompletedHasResult'
        BY <1>0, <1>4, <2>1, <2>2
           DEF OnlySent, ChunkNotLost, FinalComplete, CompletedHasResult, Complete
    <2>4. \A v \in Workers : Handled(v)'
        BY <1>0, <1>1, <1>3, <2>1, <2>2 DEF StoredOnce, Handled
    <2>5. StoredOnce'
        BY <1>0, <1>1, <2>1, <2>2, <2>4 DEF StoredOnce
    <2> QED
        BY <1>3, <2>3, <2>5 DEF OnceInv
<1>6. CASE IgnoreDuplicate(w)
    BY <1>0, <1>6 DEF IgnoreDuplicate, StoredOnce, Handled
<1>7. CASE PushResult(w)
    <2>1. /\ pc[w] = "push" /\ pc'[w] = "count" /\ raw' = Append(raw, Chunk(cur[w]))
          /\ UNCHANGED <<claimed, final, step, announced>>
        BY <1>0, <1>7 DEF PushResult
    <2>2. Chunk(cur[w]) \in Chunks /\ Chunk(cur[w]) \notin Stored
        BY <1>0, <2>1, InHand DEF StoredOnce, Handled
    <2>3. ElementsOf(raw') = ElementsOf(raw) \cup {Chunk(cur[w])} /\ NoRepeats(raw')
        BY <1>0, <2>1, <2>2, AppendElements, AppendDistinct DEF StoredOnce, Stored
    <2>4. Stored' = Stored \cup {Chunk(cur[w])}
        BY <2>1, <2>3 DEF Stored, ElementsOf
    <2>5. OnlySent' /\ ChunkNotLost' /\ FinalComplete' /\ CompletedHasResult'
        BY <1>0, <1>4, <2>1, <2>4
           DEF OnlySent, ChunkNotLost, FinalComplete, CompletedHasResult, Complete
    <2>6. \A v \in Workers : Handled(v)'
        BY <1>0, <1>1, <1>3, <2>1, <2>4 DEF StoredOnce, Handled
    <2>7. StoredOnce'
        BY <1>0, <1>1, <2>1, <2>3, <2>4, <2>6 DEF StoredOnce
    <2> QED
        BY <1>3, <2>5, <2>7 DEF OnceInv
<1>8. ASSUME pc[w] \in Later, pc'[w] \in Later, claimed' = claimed, Stored' = Stored,
             NoRepeats(raw'), FinalComplete', CompletedHasResult'
      PROVE  OnceInv'
    <2>1. OnlySent' /\ ChunkNotLost'
        BY <1>0, <1>8 DEF OnlySent, ChunkNotLost
    <2>2. \A v \in Workers : Handled(v)'
        BY <1>0, <1>3, <1>8 DEF StoredOnce, Handled, Later
    <2>3. StoredOnce'
        BY <1>0, <1>8, <2>2 DEF StoredOnce
    <2> QED
        BY <1>3, <1>8, <2>1, <2>3 DEF OnceInv
<1>9. CASE CountChunk(w) \/ ReportChunk(w) \/ AcquireLock(w) \/ CompleteStep(w) \/ Announce(w)
    <2>1. /\ pc[w] \in Later /\ pc'[w] \in Later
          /\ UNCHANGED <<claimed, raw, final>>
        BY <1>0, <1>9 DEF CountChunk, ReportChunk, AcquireLock, CompleteStep, Announce,
                          Later, Pcs, Assembling
    <2>2. Stored' = Stored
        BY <2>1 DEF Stored, ElementsOf
    <2>3. FinalComplete'
        BY <1>0, <2>1 DEF FinalComplete, Complete
    <2>4. CompletedHasResult'
        <3>1. CASE CompleteStep(w) \/ Announce(w)
            <4>1. pc[w] \in Assembling \ {"read"}
                BY <3>1 DEF CompleteStep, Announce, Assembling
            <4>2. final = Complete
                BY <1>0, <4>1 DEF AssemblyInv, LockPhase, FinalComplete
            <4> QED
                BY <2>1, <4>2 DEF CompletedHasResult, Complete
        <3>2. CASE CountChunk(w) \/ ReportChunk(w) \/ AcquireLock(w)
            BY <1>0, <2>1, <3>2 DEF CountChunk, ReportChunk, AcquireLock, CompletedHasResult, Complete
        <3> QED
            BY <1>9, <3>1, <3>2
    <2> QED
        BY <1>0, <1>8, <2>1, <2>2, <2>3, <2>4 DEF StoredOnce
<1>10. CASE StoreFinal(w)
    <2>1. /\ pc[w] = "read" /\ final = <<>> /\ final' = ByChunkId(raw)
          /\ pc'[w] = "clean" /\ UNCHANGED <<claimed, raw, step, announced>>
        BY <1>0, <1>10, NeverDefers
    <2>2. ElementsOf(raw) = Chunks /\ final' = Complete
        BY <1>0, <2>1, ReadIsComplete
    <2>3. Stored = Chunks /\ Stored' = Chunks
        BY <2>1, <2>2, NoElements, CompleteListsAll DEF Stored
    <2>4. FinalComplete' /\ CompletedHasResult'
        BY <2>2 DEF FinalComplete, CompletedHasResult, Complete
    <2> QED
        BY <1>0, <1>8, <2>1, <2>3, <2>4 DEF StoredOnce, Later, Pcs, Assembling
<1>11. CASE CleanKeys(w)
    <2>1. /\ pc[w] = "clean" /\ pc'[w] = "complete" /\ raw' = <<>>
          /\ UNCHANGED <<claimed, final, step, announced>>
        BY <1>0, <1>11 DEF CleanKeys
    <2>2. final = Complete
        BY <1>0, <2>1 DEF AssemblyInv, LockPhase, FinalComplete, Assembling
    <2>3. ElementsOf(raw) \subseteq Chunks
        BY <1>0 DEF ElementsOf
    <2>4. Stored = Chunks /\ Stored' = Chunks
        BY <2>1, <2>2, <2>3, NoElements, CompleteListsAll DEF Stored
    <2>5. FinalComplete' /\ CompletedHasResult' /\ NoRepeats(raw')
        BY <2>1, <2>2 DEF FinalComplete, CompletedHasResult, Complete, NoRepeats
    <2> QED
        BY <1>8, <2>1, <2>4, <2>5 DEF Later, Pcs, Assembling
<1> QED
    BY <1>5, <1>6, <1>7, <1>9, <1>10, <1>11 DEF StoreStep, ResultStep

LEMMA EntryKeepsOnce ==
    ASSUME Undisturbed, ShapeInv, OnceInv, Entry
    PROVE  OnceInv'
<1>0. /\ OnePlace /\ OnlySent /\ StoredOnce /\ ChunkNotLost /\ FinalComplete /\ CompletedHasResult
      /\ UNCHANGED <<unacked, raw, claimed, final, step, announced, pc, cur, buffer, batch, pos, live>>
      /\ dispatch \in 1..MaxDispatch /\ sent \in 0..N
    BY EntryLeaves DEF OnceInv, ShapeInv, TypeOK, JobTypeOK, resultVars, localVars
<1>1. Stored' = Stored
    BY <1>0 DEF Stored, ElementsOf
<1>2. \A v \in Workers : /\ SameHands(v) /\ Ahead(v)' = Ahead(v)
                         /\ Placed(v) /\ queue' \cap unacked[v] = {} => Placed(v)'
    BY <1>0, SamePlaces DEF SameHands
<1>3. FinalComplete' /\ CompletedHasResult'
    BY <1>0 DEF FinalComplete, CompletedHasResult, Complete
<1>4. CASE PublishChunk
    <2> DEFINE n == <<sent + 1, dispatch>>
    <2>1. queue' = queue \cup {n} /\ sent' = sent + 1 /\ Chunk(n) = sent + 1
        BY <1>4 DEF PublishChunk, Chunk
    <2> HIDE DEF n
    <2>2. /\ \A v \in Workers : n \notin unacked[v]
          /\ Chunk(n) \notin Stored \cup claimed
        BY <1>0, <2>1 DEF OnlySent
    <2>3. \A v \in Workers : Placed(v)'
        BY <1>0, <1>2, <2>1, <2>2 DEF OnePlace, Placed
    <2>4. OnePlace'
        BY <1>0, <2>3 DEF OnePlace
    <2>5. OnlySent'
        <3>1. \A m \in queue \cup UNION {unacked[v] : v \in Workers} : Chunk(m) \in Int
            BY DEF ShapeInv, TypeOK, JobTypeOK, Msgs, Chunks, Chunk
        <3>2. \A c \in Stored \cup claimed : c \in Int
            <4>1. raw \in Seq(Chunks) /\ final \in Seq(Chunks) /\ claimed \subseteq Chunks
                BY DEF ShapeInv, TypeOK, JobTypeOK
            <4>2. Stored \subseteq Chunks
                BY <4>1 DEF Stored, ElementsOf
            <4> QED
                BY <4>1, <4>2 DEF Chunks
        <3> QED
            BY <1>0, <1>1, <2>1, <3>1, <3>2 DEF OnlySent
    <2>6. StoredOnce'
        BY <1>0, <1>1, <1>2, <2>1, <2>2 DEF StoredOnce, Handled
    <2>7. ChunkNotLost'
        <3>1. 1..sent' = (1..sent) \cup {Chunk(n)}
            BY <1>0, <2>1
        <3> QED
            BY <1>0, <1>1, <2>1, <3>1 DEF ChunkNotLost
    <2> QED
        BY <1>3, <2>4, <2>5, <2>6, <2>7 DEF OnceInv
<1>5. CASE ~PublishChunk
    <2>1. ~EntryRedelivered
        BY <1>0 DEF EntryRedelivered, Undisturbed
    <2>2. UNCHANGED <<queue, sent>>
        BY <1>5, <2>1 DEF Entry, EntryStep, SetRemaining, SetTotal, EntryAck, EntryFail, brokerVars
    <2>3. OnePlace'
        BY <1>0, <1>2, <2>2 DEF OnePlace, Placed
    <2>4. OnlySent' /\ ChunkNotLost'
        BY <1>0, <1>1, <2>2 DEF OnlySent, ChunkNotLost
    <2>5. StoredOnce'
        BY <1>0, <1>1, <1>2, <2>2 DEF StoredOnce, Handled
    <2> QED
        BY <1>3, <2>3, <2>4, <2>5 DEF OnceInv
<1> QED
    BY <1>4, <1>5

LEMMA KeepsOnce ==
    ASSUME Undisturbed, BInv, BInv', OnceInv, [Next]_vars
    PROVE  OnceInv'
<1>0. ShapeInv /\ ShapeInv' /\ AssemblyInv
    BY DEF BInv, ShapeInv, AssemblyInv
<1>1. CASE UNCHANGED vars
    <2>1. UNCHANGED <<sent, queue, unacked, raw, claimed, final, step, announced, pc, cur,
                      buffer, batch, pos, live>>
        BY <1>1 DEF vars, jobVars, entryVars, brokerVars, countVars, resultVars, localVars
    <2> QED
        BY <2>1 DEF OnceInv, OnePlace, Placed, Unanswered, OnlySent, StoredOnce, Handled, Ahead,
                    FinalComplete, CompletedHasResult, ChunkNotLost, Stored, ElementsOf,
                    NoRepeats, Complete
<1>2. CASE Entry
    BY <1>0, <1>2, EntryKeepsOnce
<1>3. ASSUME NEW w \in Workers, WorkerStep(w)
      PROVE  OnceInv'
    <2>1. CASE (\E m \in queue : BufferChunk(w, m) \/ TakeOversized(w, m)) \/ FlushBuffer(w)
        BY <1>0, <2>1, TakePlaces, TakeKeepsOnce DEF OnceInv
    <2>2. CASE StoreStep(w)
        BY <1>0, <2>2, StoreKeepsOnce
    <2>3. CASE AckChunk(w)
        BY <1>0, <2>3, AckPlaces, AckKeepsOnce DEF OnceInv
    <2>4. ~AbandonBatch(w)
        BY DEF AbandonBatch, OnceInv, OnePlace, Placed
    <2> QED
        BY <1>3, <2>1, <2>2, <2>3, <2>4 DEF WorkerStep
<1>4. ASSUME NEW w \in Workers, Failure(w)
      PROVE  FALSE
    BY <1>4 DEF Undisturbed, Failure, NackLast, NackBatch, NackAcked, NackClosed, Raised,
                CaughtFault, ConnectionLost, Crash, Fail
<1> QED
    BY <1>1, <1>2, <1>3, <1>4 DEF Next

LEMMA InitOnce == Init => OnceInv
<1> SUFFICES ASSUME Init PROVE OnceInv
    OBVIOUS
<1> USE DEF Init, JobInit
<1>1. Stored = {} /\ claimed = {} /\ queue = {}
    BY NoElements DEF Stored
<1>2. OnePlace
    BY NoElements DEF OnePlace, Placed, Unanswered, ElementsOf, NoRepeats
<1>3. OnlySent
    BY <1>1 DEF OnlySent
<1>4. StoredOnce
    BY <1>1, NoElements DEF StoredOnce, Handled, Ahead, NoRepeats
<1>5. FinalComplete /\ CompletedHasResult /\ ChunkNotLost
    BY DEF FinalComplete, CompletedHasResult, ChunkNotLost
<1> QED
    BY <1>2, <1>3, <1>4, <1>5 DEF OnceInv

(* Without failures, a message is in one place and a chunk is stored once. *)
THEOREM OnceInvariant ==
    ASSUME Undisturbed
    PROVE  Spec => []OnceInv
<1>1. BInv /\ BInv' /\ OnceInv /\ [Next]_vars => OnceInv'
    BY KeepsOnce
<1> QED
    BY <1>1, InitOnce, BatchInvariant, PTL DEF Spec

(* Without failures, every published chunk is queued, held by a worker, or *)
(* stored: buffering, timers and batches of any size lose none.            *)
THEOREM NoChunkIsLost ==
    ASSUME Undisturbed
    PROVE  Spec => []ChunkNotLost
<1>1. OnceInv => ChunkNotLost
    BY DEF OnceInv
<1> QED
    BY <1>1, OnceInvariant, PTL

(* Without failures, the final result lists every chunk once, in order: a  *)
(* crash is all it takes to break this (the BatchCrash run), for only      *)
(* oversized chunks are claimed.                                           *)
THEOREM BatchFinalComplete ==
    ASSUME Undisturbed
    PROVE  Spec => []FinalComplete
<1>1. OnceInv => FinalComplete
    BY DEF OnceInv
<1> QED
    BY <1>1, OnceInvariant, PTL

---------------------------------------------------------------------------
(* The refinement of ChunkAssembly.                                        *)

LEMMA SameListing == Abstract!Listing = Complete /\ Abstract!Chunks = Chunks
BY DEF Abstract!Listing, Abstract!Chunks, Complete, Chunks

LEMMA InitRefines == Init => Abstract!AbsInit
BY DEF Init, JobInit, Abstract!AbsInit, Stored, ElementsOf

LEMMA StepRefines ==
    ASSUME Undisturbed, BInv, OnceInv, [Next]_vars
    PROVE  [Abstract!AbsNext]_Abstract!absVars
<1> SUFFICES Abstract!AbsNext \/ UNCHANGED <<Stored, final, announced>>
    BY DEF Abstract!absVars
<1>0. /\ ShapeInv /\ AssemblyInv /\ StoredOnce /\ FinalComplete
      /\ raw \in Seq(Chunks)
    BY DEF BInv, OnceInv, ShapeInv, AssemblyInv, TypeOK, JobTypeOK
<1>1. ASSUME NEW w \in Workers, PushResult(w)
      PROVE  Abstract!AbsNext
    <2>1. /\ pc[w] = "push" /\ raw' = Append(raw, Chunk(cur[w]))
          /\ UNCHANGED <<final, announced>>
        BY <1>1 DEF PushResult, resultVars
    <2>2. Chunk(cur[w]) \in Chunks /\ Chunk(cur[w]) \notin Stored
        BY <1>0, <2>1, InHand DEF StoredOnce, Handled
    <2>3. ElementsOf(raw') = ElementsOf(raw) \cup {Chunk(cur[w])}
        BY <1>0, <2>1, <2>2, AppendElements
    <2>4. Stored' = Stored \cup {Chunk(cur[w])}
        BY <2>1, <2>3 DEF Stored, ElementsOf
    <2>5. Abstract!Finish(Chunk(cur[w]))
        BY <2>1, <2>2, <2>4 DEF Abstract!Finish
    <2> QED
        BY <2>2, <2>5, SameListing DEF Abstract!AbsNext
<1>2. ASSUME NEW w \in Workers, StoreFinal(w)
      PROVE  Abstract!AbsNext
    <2>1. /\ final = <<>> /\ final' = Complete /\ ElementsOf(raw) = Chunks
          /\ UNCHANGED <<raw, announced>>
        BY <1>0, <1>2, NeverDefers, ReadIsComplete
    <2>2. Stored = Chunks /\ Stored' = Stored
        BY <2>1, NoElements, CompleteListsAll DEF Stored
    <2>3. Abstract!Assemble
        BY <2>1, <2>2, SameListing DEF Abstract!Assemble
    <2> QED
        BY <2>3 DEF Abstract!AbsNext
<1>3. ASSUME NEW w \in Workers, Announce(w)
      PROVE  Abstract!AbsNext
    <2>1. pc[w] = "announce" /\ announced' = TRUE /\ UNCHANGED <<raw, final>>
        BY <1>3 DEF Announce, countVars
    <2>2. final = Complete
        BY <1>0, <2>1 DEF AssemblyInv, LockPhase, FinalComplete, Assembling
    <2>3. Stored' = Stored
        BY <2>1 DEF Stored, ElementsOf
    <2>4. Abstract!Tell
        BY <2>1, <2>2, <2>3, SameListing DEF Abstract!Tell
    <2> QED
        BY <2>4 DEF Abstract!AbsNext
<1>4. ASSUME NEW w \in Workers, CleanKeys(w)
      PROVE  UNCHANGED <<Stored, final, announced>>
    <2>1. pc[w] = "clean" /\ raw' = <<>> /\ UNCHANGED <<final, announced>>
        BY <1>4 DEF CleanKeys, resultVars
    <2>2. final = Complete
        BY <1>0, <2>1 DEF AssemblyInv, LockPhase, FinalComplete, Assembling
    <2>3. ElementsOf(raw) \subseteq Chunks
        BY <1>0 DEF ElementsOf
    <2>4. Stored' = Stored
        BY <2>1, <2>2, <2>3, NoElements, CompleteListsAll DEF Stored
    <2> QED
        BY <2>1, <2>4
<1>5. ASSUME UNCHANGED <<raw, final, announced>>
      PROVE  UNCHANGED <<Stored, final, announced>>
    BY <1>5 DEF Stored, ElementsOf
<1>6. ASSUME NEW w \in Workers, WorkerStep(w) \/ Failure(w),
             ~PushResult(w), ~StoreFinal(w), ~Announce(w), ~CleanKeys(w)
      PROVE  UNCHANGED <<raw, final, announced>>
    <2>1. CASE Quiet
        BY <2>1 DEF Quiet
    <2>2. CASE WorkStep(w)
        BY <1>6, <2>2 DEF WorkStep, CountChunk, AcquireLock, CompleteStep, resultVars, countVars
    <2> QED
        BY <1>0, <1>6, <2>1, <2>2, WorkerSteps DEF ShapeInv
<1>7. CASE UNCHANGED vars \/ Entry
    BY <1>5, <1>7, EntryLeaves DEF vars, jobVars, countVars, resultVars
<1> QED
    BY <1>1, <1>2, <1>3, <1>4, <1>5, <1>6, <1>7 DEF Next

(* Without failures batch mode implements ChunkAssembly, as the adaptive   *)
(* mode does under all of them: each chunk is finished once, the results   *)
(* are put together when all are there, and the end is told after that.    *)
THEOREM BatchRefinement ==
    ASSUME Undisturbed
    PROVE  Spec => ImplementsAssembly
<1>1. BInv /\ OnceInv /\ [Next]_vars => [Abstract!AbsNext]_Abstract!absVars
    BY StepRefines
<1> QED
    BY <1>1, InitRefines, BatchInvariant, OnceInvariant, PTL
       DEF Spec, ImplementsAssembly, Abstract!AbsSpec
=============================================================================
