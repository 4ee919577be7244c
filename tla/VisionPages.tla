----------------------------- MODULE VisionPages -----------------------------
(***************************************************************************)
(* The entry of a document: its text as Docling gives it, the quality gate *)
(* and the vision fallback, which goes through the pages of a suspect PDF  *)
(* and replaces thin ones by a transcription (run_quality_flow), and the   *)
(* storing of text and chunks.  Also the entry of a recording and an image. *)
(***************************************************************************)
EXTENDS JobText

CONSTANTS
    MinWords,           \* min_chars_per_page
    MaxPages            \* max_pages_per_document

VARIABLES
    flow,               \* the entry worker
    provenance          \* Redis :extraction_provenance: per page, how it went

flowVars == <<flow, provenance>>

Rest == [at |-> "idle", kept |-> <<>>, report |-> <<>>, used |-> 0, late |-> FALSE, text |-> None]

FlowInit == flow = Rest /\ provenance = None

NPages      == Len(document.pages)
DoclingText == document.markdown

(* compute_signals, evaluate_document; a document whose pages nobody has   *)
(* counted has one.                                                        *)
Suspect ==
    \/ DoclingText = <<>>
    \/ Len(DoclingText) < MinWords * (IF document.counted THEN NPages ELSE 1)
    \/ document.garbled

(* extract_page_texts: of the items that Docling lists those it has placed *)
(* on the page.  An item without a page, or with one that the document     *)
(* does not have, is on none, and what Docling does not list -- a table --  *)
(* is in the text of no page.                                              *)
PageText(p) == FlattenSeq([i \in DOMAIN document.items |->
                  IF document.items[i].page = p THEN document.items[i].words ELSE <<>>])

PagePasses(p) == Len(PageText(p)) >= MinWords

page == Len(flow.kept) + 1

Ends(words) == flow' = [flow EXCEPT !.at = "text", !.text = words]

(* Whatever the status is, it is overwritten.  (Where BaseWorker has failed *)
(* the job, with a plain string for a status, the HSET raises and the      *)
(* message is gone, as it would be if it were never taken: JobLifecycle.)  *)
Begins ==
    /\ flow.at = "idle"
    /\ Takes("entry")
    /\ flow' = [Rest EXCEPT !.at = "gate"]
    /\ status' = "extracting"
    /\ UNCHANGED <<text, chunks, inferences, steps, told, repeated, written, faults, provenance>>

(* The gate lets it pass, OCR is off, or it is no PDF.                     *)
KeepsWhole ==
    /\ flow.at = "gate" /\ document.kind = "document"
    /\ ~Suspect \/ ~document.pdf \/ ~env.ocr
    /\ Ends(DoclingText)
    /\ UNCHANGED <<jobVars, faults, provenance>>

OpensPdf ==
    /\ flow.at = "gate" /\ document.kind = "document"
    /\ Suspect /\ document.pdf /\ document.counted /\ env.ocr
    /\ flow' = [flow EXCEPT !.at = "pages"]
    /\ UNCHANGED <<jobVars, faults, provenance>>

(* An exception ends the flow and costs no text: what was replaced so far  *)
(* is forgotten.  range(None) raises one.                                  *)
FlowErrs ==
    /\ \/ /\ flow.at = "gate" /\ document.kind = "document"
          /\ Suspect /\ document.pdf /\ ~document.counted /\ env.ocr
          /\ Calm
       \/ flow.at = "pages" /\ Happens("vision")
    /\ flow' = [flow EXCEPT !.at = "text", !.text = DoclingText, !.report = <<>>]
    /\ UNCHANGED <<jobVars, provenance>>

AtPage == flow.at = "pages" /\ page =< NPages /\ status # "cancelled"

Goes(words, how) == flow' = [flow EXCEPT !.kept = Append(@, words), !.report = Append(@, how)]

KeepsGoodPage ==
    /\ AtPage
    /\ PagePasses(page)
    /\ Goes(PageText(page), "pass")
    /\ UNCHANGED <<jobVars, faults, provenance>>

KeepsPageOverBudget ==
    /\ AtPage
    /\ ~PagePasses(page)
    /\ flow.used >= MaxPages \/ flow.late
    /\ Goes(PageText(page), "degraded")
    /\ UNCHANGED <<jobVars, faults, provenance>>

(* max_seconds_per_document have passed.                                   *)
TimeRunsOut ==
    /\ flow.at = "pages" /\ ~flow.late
    /\ Happens("late")
    /\ flow' = [flow EXCEPT !.late = TRUE]
    /\ UNCHANGED <<jobVars, provenance>>

AsksVision == AtPage /\ ~PagePasses(page) /\ flow.used < MaxPages /\ ~flow.late

Replaces ==
    /\ AsksVision
    /\ document.pages[page] # <<>>
    /\ flow' = [flow EXCEPT !.kept = Append(@, document.pages[page]),
                            !.report = Append(@, "fallback"), !.used = @ + 1]
    /\ UNCHANGED <<jobVars, faults, provenance>>

(* Neither an empty answer nor an error is paid from the budget.           *)
SeesNothing ==
    /\ AsksVision
    /\ document.pages[page] = <<>>
    /\ Goes(PageText(page), "vision_empty")
    /\ UNCHANGED <<jobVars, faults, provenance>>

CannotSee ==
    /\ AsksVision
    /\ Happens("vision")
    /\ Goes(PageText(page), "vision_error")
    /\ UNCHANGED <<jobVars, provenance>>

(* A transcription that replaced nothing leaves the text as it was.        *)
Assembles ==
    /\ flow.at = "pages" /\ page > NPages
    /\ Ends(IF flow.used = 0 THEN DoclingText ELSE FlattenSeq(flow.kept))
    /\ provenance' = IF \A p \in 1 .. NPages : flow.report[p] = "pass" THEN provenance ELSE flow.report
    /\ UNCHANGED <<jobVars, faults>>

(* The audio worker has the recording transcribed ...                      *)
Hears ==
    /\ flow.at = "gate" /\ document.kind = "audio" /\ status # "cancelled"
    /\ Ends(FlattenSeq([i \in DOMAIN document.segments |-> document.segments[i].words]))
    /\ UNCHANGED <<jobVars, faults, provenance>>

(* ... and the image worker has the text of the image read.                *)
Reads ==
    /\ flow.at = "gate" /\ document.kind = "image" /\ status # "cancelled"
    /\ Ends(document.pages[1])
    /\ UNCHANGED <<jobVars, faults, provenance>>

Fails ==
    /\ flow' = Rest
    /\ status' = "failed"
    /\ UNCHANGED <<text, chunks, inferences, steps, told, queue, repeated, written, provenance>>

(* No server of the pool answers, max_retries times.                       *)
CannotHear == flow.at = "gate" /\ document.kind = "audio" /\ Happens("vision") /\ Fails
CannotRead == flow.at = "gate" /\ document.kind = "image" /\ Happens("vision") /\ Fails

NewChunks ==
    CASE document.kind = "document" -> ChunkText(flow.text)
      [] document.kind = "image"    -> SimpleChunks(flow.text)
      [] document.kind = "audio"    -> SpeakerChunks(document.segments)

Stores ==
    /\ flow' = [flow EXCEPT !.at = "stored"]
    /\ text' = flow.text /\ chunks' = NewChunks
    /\ steps' = steps \cup {"entry"}
    /\ written' = written \cup {[text |-> flow.text, chunks |-> NewChunks, report |-> flow.report]}
    /\ UNCHANGED <<inferences, told, queue, repeated, faults, provenance>>

(* The last look for a cancellation before the metadata are extracted.     *)
LooksAgain ==
    /\ flow.at = "text" /\ document.kind = "document" /\ status # "cancelled"
    /\ flow' = [flow EXCEPT !.at = "looked"]
    /\ UNCHANGED <<jobVars, faults, provenance>>

(* Text and chunks are stored, the stage reports; a job cancelled since    *)
(* the look is "processing" again.                                         *)
StoresText ==
    /\ flow.at = "looked" /\ flow.text # None
    /\ status' = "processing"
    /\ Stores

(* The audio and the image worker store an empty text like any other.      *)
StoresMedia ==
    /\ flow.at = "text" /\ document.kind # "document"
    /\ UNCHANGED status
    /\ Stores

(* With no chunk there is nothing to infer (skip_empty_inference_stage).   *)
Skipped == IF NewChunks = <<>> THEN {"inferences"} ELSE {}

Publishes ==
    /\ flow.at = "stored" /\ status # "cancelled"
    /\ flow' = [flow EXCEPT !.at = "published"]
    /\ queue' = [s \in DOMAIN queue |-> IF s \in env.stages \ Skipped THEN queue[s] + 1 ELSE queue[s]]
    /\ steps' = steps \cup (env.stages \cap Skipped)
    /\ told' = told + 1
    /\ UNCHANGED <<status, text, chunks, inferences, repeated, written, faults, provenance>>

Acks ==
    /\ flow.at = "published"
    /\ flow' = Rest
    /\ UNCHANGED <<jobVars, faults, provenance>>

(* Nothing was extracted.                                                  *)
FindsNoText ==
    /\ flow.at = "looked" /\ flow.text = None
    /\ Fails
    /\ UNCHANGED faults

(* A cancellation, at the next look for one.  The audio and the image      *)
(* worker handle it like any other exception.                              *)
StopsCancelled ==
    /\ flow.at \in IF document.kind = "document" THEN {"pages", "text", "stored"} ELSE {"gate", "stored"}
    /\ status = "cancelled"
    /\ IF document.kind = "document"
       THEN flow' = Rest /\ UNCHANGED <<jobVars, provenance>>
       ELSE Fails
    /\ UNCHANGED faults

EntryDies ==
    /\ flow.at # "idle"
    /\ ComesBack("entry")
    /\ flow' = Rest
    /\ UNCHANGED <<keyVars, told, written, provenance>>

EntryNext ==
    \/ Begins \/ KeepsWhole \/ OpensPdf \/ FlowErrs
    \/ KeepsGoodPage \/ KeepsPageOverBudget \/ TimeRunsOut
    \/ Replaces \/ SeesNothing \/ CannotSee \/ Assembles
    \/ Hears \/ Reads \/ CannotHear \/ CannotRead
    \/ LooksAgain \/ StoresText \/ StoresMedia \/ Publishes \/ Acks \/ FindsNoText \/ StopsCancelled
    \/ EntryDies
=============================================================================
