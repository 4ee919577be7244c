------------------------------ MODULE JobResult ------------------------------
(***************************************************************************)
(* From one document to its result: the entry, the embeddings, the         *)
(* entities and the inferences, each a worker of its own, and the          *)
(* completion worker, which puts together what they have left in Redis     *)
(* (finalize_job).  JobLifecycle is about whether a job comes to its end;  *)
(* this module is about what is in the result.  The metadata stage is left *)
(* out: it writes nothing that is read here.                               *)
(***************************************************************************)
EXTENDS VisionPages, InferencesStage, EmbeddingsStage, EntitiesStage

VARIABLES
    fin,                \* the completion worker
    result              \* the file of the results, once there is one

finVars == <<fin, result>>
vars == <<env, jobVars, faults, flowVars, infVars, embVars, entVars, finVars>>

othersThanFin == <<text, chunks, inferences, steps, queue, repeated, written, flowVars, infVars, emb, entVars>>

FinIdle == [at |-> "idle", chunks |-> None, raw |-> <<>>, infs |-> None,
            vectors |-> None, ivecs |-> None]

Init ==
    /\ TextInit /\ FlowInit /\ InfInit /\ EmbInit /\ EntInit
    /\ fin = FinIdle
    /\ result = None

---------------------------------------------------------------------------
IsCancelled ==
    /\ status \in {"pending", "extracting", "processing"}
    /\ Happens("cancel")
    /\ status' = "cancelled"
    /\ UNCHANGED <<text, chunks, inferences, steps, told, queue, repeated, written,
                   flowVars, infVars, embVars, entVars, finVars>>

---------------------------------------------------------------------------
(* The completion worker: one event after the other.                       *)

Required == {"entry"} \cup env.stages

Ready == status \notin {"cancelled", "failed", "completed"} /\ Required \subseteq steps

(* check_job_completion finds nothing to do.                               *)
Ignores ==
    /\ fin.at = "idle" /\ told > 0 /\ ~Ready
    /\ told' = told - 1
    /\ UNCHANGED <<status, faults, othersThanFin, vectorVars, finVars>>

(* check_job_completion, and the pipeline that reads most of the keys.     *)
FinReads ==
    /\ fin.at = "idle" /\ told > 0 /\ Ready
    /\ told' = told - 1
    /\ fin' = [FinIdle EXCEPT !.at = "read", !.chunks = chunks,
                 !.raw = raw, !.infs = inferences]
    /\ UNCHANGED <<status, faults, othersThanFin, vectorVars, result>>

(* The vectors, through another connection.                                *)
FinReadsVectors ==
    /\ fin.at = "read"
    /\ fin' = [fin EXCEPT !.at = "vectors", !.vectors = vectors, !.ivecs = inferenceVectors]
    /\ UNCHANGED <<status, told, faults, othersThanFin, vectorVars, result>>

Asks ==
    /\ {"inferences", "inference_embeddings"} \subseteq env.features
    /\ fin.ivecs = None
    /\ \E i \in DOMAIN fin.infs : fin.infs[i] # <<>>

(* Vectors of inferences that nobody has made yet.                         *)
FinInfers ==
    /\ fin.at = "vectors" /\ Asks
    /\ LET all == UNION {{i} \X DOMAIN fin.infs[i] : i \in DOMAIN fin.infs}
       IN  \E heard \in SUBSET all \ {{}} :
             LET Of(i)  == {k \in DOMAIN fin.infs[i] : <<i, k>> \in heard}
                 ivecs == [i \in DOMAIN fin.infs |->
                              IF Of(i) = {} THEN None ELSE VectorsOf(fin.infs[i], Of(i))]
             IN  /\ IF heard = all THEN Calm ELSE Happens("service")
                 /\ fin' = [fin EXCEPT !.at = "inferred", !.ivecs = ivecs]
                 /\ inferenceVectors' = ivecs
    /\ UNCHANGED <<status, told, othersThanFin, cache, degraded, vectors, touched, result>>

FinHasThem ==
    /\ fin.at = "vectors" /\ ~Asks
    /\ fin' = [fin EXCEPT !.at = "inferred"]
    /\ UNCHANGED <<status, told, faults, othersThanFin, vectorVars, result>>

(* Not one of them: the exception leaves finalize_job by its handler.      *)
FinFails ==
    /\ fin.at = "vectors" /\ Asks
    /\ Happens("service")
    /\ fin' = FinIdle
    /\ status' = "failed"
    /\ UNCHANGED <<told, othersThanFin, vectorVars, result>>

At(seq, i) == IF i \in DOMAIN seq THEN seq[i] ELSE None

(* What the result says of a chunk: its text, its vector, those of its     *)
(* inferences and the entities that have it for their chunk.               *)
Enriched(i, entities) ==
    [text |-> fin.chunks[i], vector |-> At(fin.vectors, i),
     facts |-> [k \in DOMAIN At(fin.infs, i) |->
                  [fact |-> fin.infs[i][k], vector |-> At(At(fin.ivecs, i), k)]],
     names |-> {e[1] : e \in {f \in Range(entities) : f[2].chunk = i}}]

FinWrites ==
    /\ fin.at = "inferred"
    /\ LET entities == Deduplicate(fin.raw)
       IN  result' = <<[chunks   |-> [i \in DOMAIN fin.chunks |-> Enriched(i, entities)],
                       entities |-> entities,
                       degraded |-> degraded]>>
    /\ status' = "completed"
    /\ fin' = FinIdle
    /\ UNCHANGED <<told, faults, othersThanFin, vectorVars>>

Entry     == EntryNext /\ UNCHANGED <<env, infVars, embVars, entVars, finVars>>
Embedding == EmbNext /\ UNCHANGED <<env, flowVars, infVars, entVars, finVars>>
Entities  == EntNext /\ UNCHANGED <<env, flowVars, infVars, embVars, finVars>>
Inferring == InfNext /\ UNCHANGED <<env, flowVars, embVars, entVars, finVars>>
Finishing ==
    /\ \/ Ignores \/ FinReads \/ FinReadsVectors \/ FinInfers \/ FinHasThem \/ FinFails \/ FinWrites
    /\ UNCHANGED env

Next == Entry \/ Embedding \/ Entities \/ Inferring \/ Finishing \/ (IsCancelled /\ UNCHANGED env)

Spec == Init /\ [][Next]_vars

---------------------------------------------------------------------------
(* Where no page was replaced by a transcription the stored text is        *)
(* Docling's, word for word.  Where one was, every page has its place in   *)
(* the text, with its transcription or with what Docling has placed on it; *)
(* all else is lost, from pages that are good and from pages that nobody   *)
(* could replace: the tables, the items without a page, and the whole of a *)
(* document whose items are not known.                                     *)
Replaced(w) == {p \in DOMAIN w.report : w.report[p] = "fallback"}

Keeps(w) ==
    w.text = IF Replaced(w) = {} THEN DoclingText
             ELSE FlattenSeq([p \in 1 .. NPages |->
                     IF p \in Replaced(w) THEN document.pages[p] ELSE PageText(p)])

(* Every word of the text that was stored is in one of its chunks.         *)
IsChunked(w) == \A i \in DOMAIN w.text : \E c \in Range(w.chunks) : w.text[i] \in Range(c)

(* What the result r says of its chunk i is about that chunk: the vector   *)
(* is that of the text, every fact was drawn from it with confidence and   *)
(* has its own vector, and the entities listed are in the result and named *)
(* in it -- in one of the texts stored under this chunk, for a document    *)
(* that is extracted again may get another one.                            *)
Texts(r, i) == {r.chunks[i].text} \cup
               IF repeated THEN {w.chunks[i] : w \in {v \in written : i \in DOMAIN v.chunks}} ELSE {}

IsAbout(r, i) ==
    LET chunk == r.chunks[i]
    IN  /\ chunk.vector \in {None} \cup {Vec(t) : t \in Texts(r, i)}
        /\ \A f \in Range(chunk.facts) :
              /\ f.fact.of \in Texts(r, i) /\ f.fact.confidence >= MinConfidence
              /\ f.vector = None \/ repeated \/ f.vector = Vec(f.fact)
        /\ \A id \in chunk.names : \E e \in Range(r.entities) :
              /\ e[1] = id
              /\ \E t \in Texts(r, i) : e[2].word \in Range(t)

ResultIsOfDocument ==
    /\ document.kind = "document" => \A w \in written : Keeps(w)
    /\ \A w \in written : IsChunked(w)
    /\ \A r \in Range(result) : \A i \in DOMAIN r.chunks : IsAbout(r, i)

(* The result is said to be degraded if and only if a chunk lacks its      *)
(* vector -- as long as no stage was delivered twice and the flag was not  *)
(* used for the vectors of inferences: a clean answer for those deletes    *)
(* what the chunks have left there.                                        *)
DegradedIsExact ==
    ~repeated /\ ~touched =>
        \A r \in Range(result) :
            r.degraded <=> \E i \in DOMAIN r.chunks : r.chunks[i].vector = None
=============================================================================
