--------------------------- MODULE InferencesStage ---------------------------
(***************************************************************************)
(* The inferences of a job: what the language model says of each chunk,    *)
(* several chunks to a request or one, through a cache that all jobs       *)
(* share.  Which worker takes which chunk, and how the results meet, is    *)
(* for InferenceJob; here one worker goes through all of them.             *)
(***************************************************************************)
EXTENDS JobText

CONSTANTS
    InferBatch,         \* INFERENCE_BATCH_SIZE
    MinConfidence       \* MIN_CONFIDENCE_THRESHOLD

ASSUME InferAssumption == InferBatch \in Nat \ {0}

VARIABLES
    inf,                \* the inference worker
    memo                \* Redis artifact:inference:*: facts by text

infVars == <<inf, memo>>

InfIdle == [at |-> "idle", texts |-> <<>>, got |-> <<>>, left |-> <<>>]

InfInit == inf = InfIdle /\ memo = <<>>

---------------------------------------------------------------------------
(* _discover_model: the configured model if it is served, else the first   *)
(* one; the configured one unheard if the server does not answer.          *)
Model ==
    LET llm == env.llm
    IN  IF ~llm.url THEN "none"
        ELSE IF llm.served = <<>> THEN llm.named
        ELSE IF llm.named \in Range(llm.served) THEN llm.named ELSE Head(llm.served)

(* What the model says of a text when it says something: facts, of which   *)
(* it is not always sure.                                                  *)
Facts(words) == <<[of |-> words, nth |-> 1, confidence |-> 9],
                  [of |-> words, nth |-> 2, confidence |-> 2],
                  [of |-> words, nth |-> 3, confidence |-> 8]>>

(* _validate_cached_inferences and its kind.                               *)
Sure(facts) == Chosen(facts, {f \in Range(facts) : f.confidence >= MinConfidence})

Remembers(t) == t \in DOMAIN memo
Remember(m, t, facts) == [u \in DOMAIN m \cup {t} |-> IF u = t THEN facts ELSE m[u]]

InfTakes ==
    /\ inf.at = "idle"
    /\ Takes("inferences")
    /\ \E w \in written : inf' = [InfIdle EXCEPT !.at = "ready", !.texts = w.chunks]
    /\ UNCHANGED <<keyVars, told, repeated, written, faults, memo>>

NextOnes ==
    LET done == Len(inf.got)
        rest == Len(inf.texts) - done
    IN  [k \in 1 .. (IF rest < InferBatch THEN rest ELSE InferBatch) |-> done + k]

(* _process_batch: what the cache has; the others go into one request.     *)
LooksUp ==
    /\ inf.at = "ready" /\ env.batches /\ Len(inf.got) < Len(inf.texts)
    /\ inf' = [inf EXCEPT !.at = "asking",
                  !.got = @ \o [k \in DOMAIN NextOnes |->
                      IF Remembers(inf.texts[NextOnes[k]]) THEN Sure(memo[inf.texts[NextOnes[k]]]) ELSE <<>>],
                  !.left = Chosen(NextOnes, {i \in Range(NextOnes) : ~Remembers(inf.texts[i])})]
    /\ UNCHANGED <<jobVars, faults, memo>>

(* extract_inferences_batch, _parse_batch_response: the facts that pass,   *)
(* by the passage they are given for.  A passage that the answer leaves    *)
(* out, all of them when it has no JSON array, has no facts, and that is   *)
(* what the cache is told.                                                 *)
AnswersBatch ==
    /\ inf.at = "asking" /\ inf.left # <<>>
    /\ LET asked == Range(inf.left)
       IN  \E given \in SUBSET asked :
             LET Of(i)   == IF i \in given THEN Sure(Facts(inf.texts[i])) ELSE <<>>
                 With(t) == {i \in asked : inf.texts[i] = t}
             IN  /\ IF given = asked \/ (given = {} /\ Model = "none") THEN Calm ELSE Happens("llm")
                 /\ Model = "none" => given = {}
                 /\ inf' = [inf EXCEPT !.at = "ready", !.left = <<>>,
                               !.got = [i \in DOMAIN @ |-> IF i \in asked THEN Of(i) ELSE @[i]]]
                 /\ memo' = [t \in DOMAIN memo \cup {inf.texts[i] : i \in asked} |->
                               IF With(t) = {} THEN memo[t]
                               ELSE Of(CHOOSE i \in With(t) : \A j \in With(t) : j =< i)]
    /\ UNCHANGED jobVars

HasNothingToAsk ==
    /\ inf.at = "asking" /\ inf.left = <<>>
    /\ inf' = [inf EXCEPT !.at = "ready"]
    /\ UNCHANGED <<jobVars, faults, memo>>

(* The request fails, LLM_RETRIES times: one after the other.              *)
CannotAskBatch ==
    /\ inf.at = "asking" /\ inf.left # <<>> /\ Model # "none"
    /\ Happens("llm")
    /\ inf' = [inf EXCEPT !.at = "alone"]
    /\ UNCHANGED <<jobVars, memo>>

(* _process_single, _adaptive_task: every chunk by itself.                 *)
TakesOne ==
    /\ inf.at = "ready" /\ ~env.batches /\ Len(inf.got) < Len(inf.texts)
    /\ inf' = [inf EXCEPT !.at = "alone", !.got = Append(@, <<>>), !.left = <<Len(inf.got) + 1>>]
    /\ UNCHANGED <<jobVars, faults, memo>>

One == inf.texts[Head(inf.left)]

Gets(facts) ==
    inf' = [inf EXCEPT !.at = IF Len(inf.left) = 1 THEN "ready" ELSE "alone",
               !.left = Tail(@), !.got = [@ EXCEPT ![Head(inf.left)] = facts]]

(* extract_inferences: remembered facts are filtered once more, for here   *)
(* they are remembered as the model gave them.                             *)
RecallsOne ==
    /\ inf.at = "alone"
    /\ Model = "none" \/ Remembers(One)
    /\ Gets(IF Model = "none" THEN <<>> ELSE Sure(memo[One]))
    /\ UNCHANGED <<jobVars, faults, memo>>

AnswersOne ==
    /\ inf.at = "alone" /\ Model # "none" /\ ~Remembers(One)
    /\ Gets(Sure(Facts(One)))
    /\ memo' = Remember(memo, One, Facts(One))
    /\ UNCHANGED <<jobVars, faults>>

(* No answer, or none with a JSON array: no facts, and nothing is          *)
(* remembered.                                                             *)
CannotAskOne ==
    /\ inf.at = "alone" /\ Model # "none" /\ ~Remembers(One)
    /\ Happens("llm")
    /\ Gets(<<>>)
    /\ UNCHANGED <<jobVars, memo>>

(* _do_assemble_locked, when every chunk has its result.                   *)
Assembled ==
    /\ inf.at = "ready" /\ Len(inf.got) = Len(inf.texts)
    /\ inferences' = inf.got
    /\ Completes("inferences")
    /\ inf' = InfIdle
    /\ UNCHANGED <<status, text, chunks, queue, repeated, written, faults, memo>>

InfDies ==
    /\ inf.at # "idle"
    /\ ComesBack("inferences")
    /\ inf' = InfIdle
    /\ UNCHANGED <<keyVars, told, written, memo>>

MemoExpires ==
    /\ memo # <<>>
    /\ Happens("expiry")
    /\ \E t \in DOMAIN memo : memo' = [u \in DOMAIN memo \ {t} |-> memo[u]]
    /\ UNCHANGED <<jobVars, inf>>

InfNext ==
    \/ InfTakes \/ LooksUp \/ AnswersBatch \/ HasNothingToAsk \/ CannotAskBatch
    \/ TakesOne \/ RecallsOne \/ AnswersOne \/ CannotAskOne \/ Assembled
    \/ InfDies \/ MemoExpires
=============================================================================
