------------------------------- MODULE JobText -------------------------------
(***************************************************************************)
(* What the stages that turn one document into text, vectors and entities  *)
(* share: the keys of the job in Redis, the messages of its stages, and    *)
(* how a text is cut into chunks and windows.                              *)
(*                                                                         *)
(* A text is a sequence of words.  Tokens and characters, of which the     *)
(* code counts sometimes the one and sometimes the other, are both words.  *)
(***************************************************************************)
EXTENDS Naturals, FiniteSets, SequencesExt

CONSTANTS
    ChunkSize, ChunkOverlap,    \* of chunk_text
    MaxChars,                   \* of a chunk of an audio transcription
    Environments                \* what the document is, what is asked for,
                                \* what may happen and how often

(* With an overlap of ChunkSize chunk_text would not come to an end.       *)
ASSUME ChunkAssumption ==
    /\ ChunkSize \in Nat \ {0} /\ MaxChars \in Nat \ {0}
    /\ ChunkOverlap \in 0 .. ChunkSize - 1

(* What a document is, of each kind: what Docling makes of it -- its text  *)
(* (md_content) and, apart from that, the items it lists with the page it  *)
(* found each on (json_content.texts; 0 is no page) -- and what the vision *)
(* service reads on each page; an image has one.  Nothing relates the      *)
(* items to the text: the tables are in the text and among no items.       *)
(* Every profile has the embeddings downstream of the entry                *)
(* (configs/pipeline.json).                                                *)
ASSUME EnvironmentAssumption ==
    \A e \in Environments :
        /\ e.document.kind \in {"document", "audio", "image"}
        /\ e.document.markdown \in Seq(STRING)
        /\ e.document.items \in Seq([page : Nat, words : Seq(STRING)])
        /\ e.document.pages \in Seq(Seq(STRING))
        /\ e.document.kind = "image" => e.document.pages # <<>>
        /\ e.document.segments \in Seq([speaker : STRING, words : Seq(STRING)])
        /\ "embeddings" \in e.stages
        /\ e.stages \subseteq {"embeddings", "entities", "inferences"}

VARIABLES
    env,                \* the environment of this behaviour; it never changes
    status,             \* Redis :status
    text, chunks,       \* Redis :text and :chunks, the artifacts behind them
    inferences,         \* Redis :micro_inferences: a text, or none, per chunk
    steps,              \* Redis :steps, those that are "completed"
    told,               \* job_progress events the completion worker has yet
                        \* to receive
    queue,              \* RabbitMQ: messages of the job per stage
    faults,
    repeated,           \* ghost: a stage was delivered once more
    written             \* ghost: all that was stored as text and chunks

keyVars == <<status, text, chunks, inferences, steps>>
jobVars == <<keyVars, told, queue, repeated, written>>

document == env.document
None     == <<>>

TextInit ==
    /\ env \in Environments
    /\ status = "pending"
    /\ text = None /\ chunks = None /\ inferences = None /\ steps = {} /\ told = 0
    /\ queue = [entry |-> 1, embeddings |-> 0, entities |-> 0, inferences |-> 0]
    /\ faults = 0 /\ repeated = FALSE /\ written = {}

Happens(what) == what \in env.may /\ faults < env.most /\ faults' = faults + 1
Calm == UNCHANGED faults

(* HSET :steps, stage.completed and job_progress.                          *)
Completes(stage) == steps' = steps \cup {stage} /\ told' = told + 1

Takes(stage) == queue[stage] > 0 /\ queue' = [queue EXCEPT ![stage] = @ - 1]

(* A worker that dies has not acknowledged its message.                    *)
ComesBack(stage) ==
    /\ Happens("crash")
    /\ queue' = [queue EXCEPT ![stage] = @ + 1]
    /\ repeated' = TRUE

---------------------------------------------------------------------------
(* Those elements of a sequence that are in S; the places in a sequence.   *)
Chosen(seq, S) == FlattenSeq([i \in DOMAIN seq |-> IF seq[i] \in S THEN <<seq[i]>> ELSE <<>>])
Places(seq)    == [i \in DOMAIN seq |-> i]

(* Where the parts begin that a loop of this kind cuts from a text: every  *)
(* step, until a part reaches the end.                                     *)
Cuts(len, size, step) ==
    {s \in 0 .. len - 1 : s % step = 0 /\ (s = 0 \/ s - step + size < len)}

Part(words, s, size) == SubSeq(words, s + 1, IF s + size < Len(words) THEN s + size ELSE Len(words))

ChunksAt(words, starts, size) ==
    FlattenSeq([i \in DOMAIN words |-> IF i - 1 \in starts THEN <<Part(words, i - 1, size)>> ELSE <<>>])

(* chunk_text of the extraction workers ...                                *)
ChunkText(words) == ChunksAt(words, Cuts(Len(words), ChunkSize, ChunkSize - ChunkOverlap), ChunkSize)

(* ... and of the others, which do not overlap.                            *)
SimpleChunks(words) == ChunksAt(words, Cuts(Len(words), MaxChars, MaxChars), MaxChars)

(* SegmentChunker: what one speaker says without a break, as long as it    *)
(* fits, under the name of the speaker.                                    *)
AddSegment(turns, seg) ==
    IF /\ turns # <<>> /\ Last(turns).speaker = seg.speaker
       /\ Len(Last(turns).words) + Len(seg.words) =< MaxChars
    THEN [turns EXCEPT ![Len(turns)].words = @ \o seg.words]
    ELSE Append(turns, seg)

Turns(segments) ==
    LET after[n \in 0 .. Len(segments)] ==
            IF n = 0 THEN <<>> ELSE AddSegment(after[n - 1], segments[n])
    IN  after[Len(segments)]

Spoken(turn) == IF turn.speaker = "" THEN turn.words ELSE <<turn.speaker>> \o turn.words

SpeakerChunks(segments) == FlattenSeq([i \in DOMAIN Turns(segments) |->
                                          SimpleChunks(Spoken(Turns(segments)[i]))])
=============================================================================
