--------------------------- MODULE ChunkAssembly ---------------------------
(***************************************************************************)
(* What the inference stage of one job promises, without queues, counters  *)
(* or crashes: every chunk is finished once, the results are put together  *)
(* only when all chunks are finished, and the end of the stage is          *)
(* announced only after that.                                              *)
(***************************************************************************)
EXTENDS Naturals

CONSTANT N              \* the number of chunks of the job

VARIABLES
    done,               \* the chunks whose result is stored
    result,             \* the assembled result: a sequence of chunks, or <<>>
    told                \* the end of the stage has been announced

absVars == <<done, result, told>>

Chunks == 1..N

(* One result for each chunk, in the order of the chunks.                  *)
Listing == [c \in Chunks |-> c]

AbsInit ==
    /\ done = {}
    /\ result = <<>>
    /\ told = FALSE

Finish(c) ==
    /\ c \notin done
    /\ done' = done \cup {c}
    /\ UNCHANGED <<result, told>>

Assemble ==
    /\ done = Chunks
    /\ result = <<>>
    /\ result' = Listing
    /\ UNCHANGED <<done, told>>

Tell ==
    /\ result = Listing
    /\ told' = TRUE
    /\ UNCHANGED <<done, result>>

AbsNext == (\E c \in Chunks : Finish(c)) \/ Assemble \/ Tell

AbsSpec == AbsInit /\ [][AbsNext]_absVars
=============================================================================
