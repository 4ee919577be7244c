------------------------ MODULE MCInferenceAdaptive ------------------------
(* TLC instances of InferenceAdaptive. *)
EXTENDS InferenceAdaptive, TLC

CONSTANTS w1, w2
MCWorkers == {w1, w2}

(* Threads are interchangeable: sound for the safety runs only. *)
WorkerSymmetry == Permutations(MCWorkers)
=============================================================================
