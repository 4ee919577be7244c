---------------------------- MODULE EntitiesStage ----------------------------
(***************************************************************************)
(* The entities of a job: what the model finds in each chunk, in windows   *)
(* of it when it is large, what the regex service finds in the whole text, *)
(* and how duplicates are merged, within a chunk and once more by the      *)
(* completion worker for the whole job.                                    *)
(***************************************************************************)
EXTENDS JobText

CONSTANTS
    LargeChunk,                 \* words a chunk has at most to be predicted whole
    WindowSize, WindowOverlap,  \* of a larger one
    PredictBatch,               \* GLINER_BATCH_SIZE
    Reach,                      \* OVERLAP_REGION_BUFFER
    Names,                      \* words that name something: [label, score]
    Alike(_, _),                \* texts that are similar enough to be one
    Threshold(_),               \* per label: the least score to be kept
    Rules                       \* names that a rule of the regex service finds

ASSUME WindowAssumption ==
    /\ WindowSize \in Nat \ {0} /\ WindowOverlap \in 0 .. WindowSize - 1
    /\ PredictBatch \in Nat \ {0} /\ LargeChunk \in Nat

ASSUME NamesAssumption ==
    /\ \A word \in DOMAIN Names : Names[word] \in [label : STRING, score : Nat]
    /\ Rules \subseteq DOMAIN Names

VARIABLES
    ent,                \* the entities worker
    raw                 \* Redis :entities_raw

entVars == <<ent, raw>>

EntIdle == [at |-> "idle", chunks |-> None, text |-> None, small |-> <<>>, large |-> <<>>, found |-> <<>>]

EntInit == ent = EntIdle /\ raw = <<>>

---------------------------------------------------------------------------
(* split_with_sliding_window: a last window of less than half the size is  *)
(* left out.                                                               *)
Windows(words) ==
    {s \in Cuts(Len(words), WindowSize, WindowSize - WindowOverlap) :
        s = 0 \/ Len(Part(words, s, WindowSize)) >= WindowSize \div 2}

(* What the model finds in a text, at its place in the text.               *)
Predict(words) ==
    LET Entity(i) == [word |-> words[i], label |-> Names[words[i]].label,
                      score |-> Names[words[i]].score, start |-> i]
        named == Chosen(Places(words), {i \in DOMAIN words : words[i] \in DOMAIN Names})
    IN  [k \in DOMAIN named |-> Entity(named[k])]

(* A Python dict in the order its keys were put in: <<key, value>> pairs.  *)
Put(dict, key, value) ==
    IF \E i \in DOMAIN dict : dict[i][1] = key
    THEN [i \in DOMAIN dict |-> IF dict[i][1] = key THEN <<key, value>> ELSE dict[i]]
    ELSE Append(dict, <<key, value>>)

Values(dict) == [i \in DOMAIN dict |-> dict[i][2]]

Near(a, b) == a.start =< b.start + 1 + Reach /\ b.start =< a.start + 1 + Reach

(* The loop of merge_entities, for which the place in the chunk matters,   *)
(* and of deduplicate_entities, on <<key, entity>> pairs: the first entry  *)
(* that is the same is replaced, under its old key, by a higher score.     *)
Same(e, m, placed) == e.label = m.label /\ Alike(e.word, m.word) /\ (placed => Near(e, m))

Merge(dict, key, e, placed) ==
    LET same == {i \in DOMAIN dict : Same(e, dict[i][2], placed)}
        i    == CHOOSE j \in same : \A k \in same : j =< k
    IN  IF same = {} THEN Put(dict, key, e)
        ELSE IF e.score > dict[i][2].score THEN Put(dict, dict[i][1], e)
        ELSE dict

MergeAll(keyed, placed) ==
    LET after[n \in 0 .. Len(keyed)] ==
            IF n = 0 THEN <<>> ELSE Merge(after[n - 1], keyed[n][1], keyed[n][2], placed)
    IN  after[Len(keyed)]

(* merge_entities, of the windows of a chunk that were heard.              *)
MergeWindows(words, heard) ==
    LET Shifted(s) == LET found == Predict(Part(words, s, WindowSize))
                      IN  [k \in DOMAIN found |-> [found[k] EXCEPT !.start = @ + s]]
        all == FlattenSeq([i \in DOMAIN words |-> IF i - 1 \in heard THEN Shifted(i - 1) ELSE <<>>])
    IN  Values(MergeAll([k \in DOMAIN all |-> <<<<all[k].label, all[k].start, all[k].word>>, all[k]>>], TRUE))

(* What is kept of the entities of a chunk.                                *)
Kept(entities, chunk) ==
    LET good == Chosen(entities, {e \in Range(entities) : e.score >= Threshold(e.label)})
    IN  [k \in DOMAIN good |-> [word |-> good[k].word, label |-> good[k].label,
                                score |-> good[k].score, chunk |-> chunk]]

(* deduplicate_entities, the entities by id.                               *)
EntityId(e) == <<e.label, e.word>>
Deduplicate(entities) == MergeAll([k \in DOMAIN entities |-> <<EntityId(entities[k]), entities[k]>>], FALSE)

---------------------------------------------------------------------------
EntTakes ==
    /\ ent.at = "idle" /\ status # "cancelled"
    /\ Takes("entities")
    /\ LET large == {i \in DOMAIN chunks : Len(chunks[i]) > LargeChunk}
       IN  ent' = [EntIdle EXCEPT !.at = "predicting", !.chunks = chunks, !.text = text,
                     !.large = Chosen(Places(chunks), large),
                     !.small = Chosen(Places(chunks), DOMAIN chunks \ large)]
    /\ UNCHANGED <<keyVars, told, repeated, written, faults, raw>>

(* The model may fail for a window; the chunk then has what the others     *)
(* have.                                                                   *)
PredictsLarge ==
    /\ ent.at = "predicting" /\ ent.large # <<>>
    /\ LET i == Head(ent.large)
       IN  \E heard \in SUBSET Windows(ent.chunks[i]) :
              /\ IF heard = Windows(ent.chunks[i]) THEN Calm ELSE Happens("model")
              /\ ent' = [ent EXCEPT !.large = Tail(@),
                           !.found = @ \o Kept(MergeWindows(ent.chunks[i], heard), i)]
    /\ UNCHANGED <<jobVars, raw>>

(* A batch that fails is predicted chunk by chunk; those that fail again   *)
(* are skipped.                                                            *)
PredictsBatch ==
    /\ ent.at = "predicting" /\ ent.large = <<>> /\ ent.small # <<>>
    /\ LET n     == IF PredictBatch < Len(ent.small) THEN PredictBatch ELSE Len(ent.small)
           batch == SubSeq(ent.small, 1, n)
       IN  \E heard \in SUBSET Range(batch) :
              /\ IF heard = Range(batch) THEN Calm ELSE Happens("model")
              /\ ent' = [ent EXCEPT !.small = SubSeq(@, n + 1, Len(@)),
                           !.found = @ \o FlattenSeq([k \in 1 .. n |->
                               IF batch[k] \in heard THEN Kept(Predict(ent.chunks[batch[k]]), batch[k])
                               ELSE <<>>])]
    /\ UNCHANGED <<jobVars, raw>>

(* The service cuts the text into chunks of its own, and names those; none *)
(* of them, 0 here, is a chunk of the job.                                 *)
ByRules(words) ==
    LET found == Chosen(words, Rules)
    IN  [k \in DOMAIN found |-> [word |-> found[k], label |-> Names[found[k]].label,
                                 score |-> 10, chunk |-> 0]]

(* When the service does not answer nobody misses it.                      *)
AddsRules ==
    /\ ent.at = "predicting" /\ ent.large = <<>> /\ ent.small = <<>>
    /\ \E answered \in BOOLEAN :
          /\ IF answered \/ ~env.regex THEN Calm ELSE Happens("model")
          /\ ent' = [ent EXCEPT !.at = "found",
                       !.found = @ \o IF answered /\ env.regex THEN ByRules(ent.text) ELSE <<>>]
    /\ UNCHANGED <<jobVars, raw>>

EntStores ==
    /\ ent.at = "found"
    /\ raw' = ent.found
    /\ Completes("entities")
    /\ ent' = EntIdle
    /\ UNCHANGED <<status, text, chunks, inferences, queue, repeated, written, faults>>

EntStopsCancelled ==
    /\ ent.at = "idle" /\ status = "cancelled"
    /\ Takes("entities")
    /\ UNCHANGED <<keyVars, told, repeated, written, faults, entVars>>

EntDies ==
    /\ ent.at # "idle"
    /\ ComesBack("entities")
    /\ ent' = EntIdle
    /\ UNCHANGED <<keyVars, told, written, raw>>

EntNext ==
    \/ EntTakes \/ PredictsLarge \/ PredictsBatch \/ AddsRules \/ EntStores
    \/ EntStopsCancelled \/ EntDies
=============================================================================
