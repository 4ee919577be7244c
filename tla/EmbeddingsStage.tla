--------------------------- MODULE EmbeddingsStage ---------------------------
(***************************************************************************)
(* The embeddings of a job: the stage that asks the remote service for the *)
(* vectors of the chunks, through a cache that all jobs share, then for    *)
(* those of the inferences if they are there by then, and the flag that    *)
(* says that the service failed for part of a request.                     *)
(*                                                                         *)
(* The vector of a text is that text: what matters is whose it is.         *)
(***************************************************************************)
EXTENDS JobText

CONSTANTS BatchSize     \* of texts in one request to the service

ASSUME BatchAssumption == BatchSize \in Nat \ {0}

VARIABLES
    emb,                \* the embeddings worker
    cache,              \* Redis emb:*: vectors by text
    degraded,           \* Redis :embeddings_degraded
    vectors,            \* Redis :embeddings: per chunk, None if there is none
    inferenceVectors,   \* Redis :inference_embeddings, likewise
    touched             \* ghost: the flag was set or deleted for inferences

vectorVars == <<cache, degraded, vectors, inferenceVectors, touched>>
embVars == <<emb, vectorVars>>

Vec(t) == <<"vector", t>>

EmbIdle == [at |-> "idle", texts |-> <<>>, got |-> <<>>, left |-> <<>>, infs |-> <<>>, ivecs |-> <<>>]

EmbInit ==
    /\ emb = EmbIdle
    /\ cache = <<>>
    /\ degraded = FALSE
    /\ vectors = None /\ inferenceVectors = None
    /\ touched = FALSE

(* The worker reads the chunks, stored before its message was sent, and    *)
(* looks all of them up.                                                   *)
FromCache(t) == IF t \in DOMAIN cache THEN cache[t] ELSE None

EmbTakes ==
    /\ emb.at = "idle"
    /\ Takes("embeddings")
    /\ emb' = [EmbIdle EXCEPT !.at = "asking", !.texts = chunks,
                  !.got = [i \in DOMAIN chunks |-> FromCache(chunks[i])],
                  !.left = Chosen(Places(chunks), {i \in DOMAIN chunks : FromCache(chunks[i]) = None})]
    /\ UNCHANGED <<keyVars, told, repeated, written, faults, vectorVars>>

(* The texts of the next request, by their place among the chunks.         *)
Batch == SubSeq(emb.left, 1, IF BatchSize < Len(emb.left) THEN BatchSize ELSE Len(emb.left))
Beyond(seq, n) == SubSeq(seq, n + 1, Len(seq))

(* A good answer: a vector for each text, with its place in the request.   *)
Answers(texts) ==
    {[k \in DOMAIN texts |-> [index |-> order[k], embedding |-> Vec(texts[order[k]])]] :
        order \in {f \in [DOMAIN texts -> DOMAIN texts] : \A i \in DOMAIN texts : \E k \in DOMAIN texts : f[k] = i}}

(* Mutant: in the order of the answer.                                     *)
VectorAsItComes(data, i) == data[i].embedding

VectorAt(data, i) == data[CHOOSE k \in DOMAIN data : data[k].index = i].embedding

EmbIsAnswered ==
    /\ emb.at = "asking" /\ emb.left # <<>>
    /\ LET batch == Batch
           texts == [k \in DOMAIN batch |-> emb.texts[batch[k]]]
       IN  \E data \in Answers(texts) :
             LET New(t) == VectorAt(data, CHOOSE k \in DOMAIN texts : texts[k] = t)
                 Got(i) == VectorAt(data, CHOOSE k \in DOMAIN batch : batch[k] = i)
             IN  /\ emb' = [emb EXCEPT !.left = Beyond(@, Len(batch)),
                               !.got = [i \in DOMAIN @ |-> IF i \in Range(batch) THEN Got(i) ELSE @[i]]]
                 /\ cache' = [t \in DOMAIN cache \cup Range(texts) |->
                                 IF t \in Range(texts) THEN New(t) ELSE cache[t]]
    /\ UNCHANGED <<jobVars, faults, degraded, vectors, inferenceVectors, touched>>

(* Refused, too late, or malformed, and that max_retries times.            *)
EmbIsRefused ==
    /\ emb.at = "asking" /\ emb.left # <<>>
    /\ Happens("service")
    /\ emb' = [emb EXCEPT !.left = Beyond(@, Len(Batch))]
    /\ UNCHANGED <<jobVars, vectorVars>>

Missing == {i \in DOMAIN emb.got : emb.got[i] = None}

(* Not one vector: EmbeddingsServiceError, and the job has failed.         *)
EmbFails ==
    /\ emb.at = "asking" /\ emb.left = <<>>
    /\ emb.got # <<>> /\ Missing = DOMAIN emb.got
    /\ emb' = EmbIdle
    /\ status' = "failed"
    /\ UNCHANGED <<text, chunks, inferences, steps, told, queue, repeated, written, faults, vectorVars>>

(* Mutant: the two branches are swapped.                                   *)
EmbMarksSwapped ==
    /\ emb.at = "asking" /\ emb.left = <<>>
    /\ emb.got = <<>> \/ Missing # DOMAIN emb.got
    /\ emb' = [emb EXCEPT !.at = "marked"]
    /\ degraded' = (Missing = {})
    /\ UNCHANGED <<jobVars, faults, cache, vectors, inferenceVectors, touched>>

EmbMarks ==
    /\ emb.at = "asking" /\ emb.left = <<>>
    /\ emb.got = <<>> \/ Missing # DOMAIN emb.got
    /\ emb' = [emb EXCEPT !.at = "marked"]
    /\ degraded' = (Missing # {})
    /\ UNCHANGED <<jobVars, faults, cache, vectors, inferenceVectors, touched>>

(* The vectors are stored and the step is complete; then it looks whether  *)
(* there are inferences already.                                           *)
EmbStores ==
    /\ emb.at = "marked"
    /\ vectors' = emb.got
    /\ steps' = steps \cup {"embeddings"}
    /\ emb' = [emb EXCEPT !.at = "stored"]
    /\ UNCHANGED <<status, text, chunks, inferences, told, queue, repeated, written, faults,
                   cache, degraded, inferenceVectors, touched>>

EmbLooksForInferences ==
    /\ emb.at = "stored"
    /\ emb' = [emb EXCEPT !.at = IF inferences = None THEN "told" ELSE "inferring", !.infs = inferences]
    /\ UNCHANGED <<jobVars, faults, vectorVars>>

(* One call per chunk that has facts, through the function that sets and   *)
(* deletes the flag; some of them may be missing in the answer, or the     *)
(* call raises an error.                                                   *)
VectorsOf(facts, heard) == [k \in DOMAIN facts |-> IF k \in heard THEN Vec(facts[k]) ELSE None]

EmbInfers ==
    /\ emb.at = "inferring" /\ Len(emb.ivecs) < Len(emb.infs)
    /\ LET facts == emb.infs[Len(emb.ivecs) + 1]
       IN  \E heard \in SUBSET DOMAIN facts :
              /\ IF heard = DOMAIN facts THEN Calm ELSE Happens("service")
              /\ degraded' = IF heard = {} THEN degraded ELSE heard # DOMAIN facts
              /\ emb' = [emb EXCEPT !.ivecs = Append(@, IF heard = {} THEN None ELSE VectorsOf(facts, heard))]
              /\ touched' = (touched \/ heard # {})
    /\ UNCHANGED <<jobVars, cache, vectors, inferenceVectors>>

(* When every call has raised an error nothing is stored, and no one told. *)
EmbStoresInferences ==
    /\ emb.at = "inferring" /\ Len(emb.ivecs) = Len(emb.infs)
    /\ inferenceVectors' = IF \E i \in DOMAIN emb.ivecs : emb.ivecs[i] # None
                           THEN emb.ivecs ELSE inferenceVectors
    /\ emb' = [emb EXCEPT !.at = "told"]
    /\ UNCHANGED <<jobVars, faults, cache, degraded, vectors, touched>>

EmbTells ==
    /\ emb.at = "told"
    /\ told' = told + 1
    /\ emb' = EmbIdle
    /\ UNCHANGED <<keyVars, queue, repeated, written, faults, vectorVars>>

EmbDies ==
    /\ emb.at # "idle"
    /\ ComesBack("embeddings")
    /\ emb' = EmbIdle
    /\ UNCHANGED <<keyVars, told, written, vectorVars>>

CacheExpires ==
    /\ cache # <<>>
    /\ Happens("expiry")
    /\ \E t \in DOMAIN cache : cache' = [u \in DOMAIN cache \ {t} |-> cache[u]]
    /\ UNCHANGED <<jobVars, emb, degraded, vectors, inferenceVectors, touched>>

EmbNext ==
    \/ EmbTakes \/ EmbIsAnswered \/ EmbIsRefused \/ EmbFails \/ EmbMarks \/ EmbStores
    \/ EmbLooksForInferences \/ EmbInfers \/ EmbStoresInferences \/ EmbTells
    \/ EmbDies \/ CacheExpires
=============================================================================
