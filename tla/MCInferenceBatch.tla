-------------------------- MODULE MCInferenceBatch --------------------------
(* TLC instances of InferenceBatch. *)
EXTENDS InferenceBatch, TLC

CONSTANTS w1, w2
MCWorkers == {w1, w2}
MCOversized == {2}

(* Workers are interchangeable: sound for the safety runs only. *)
WorkerSymmetry == Permutations(MCWorkers)
=============================================================================
