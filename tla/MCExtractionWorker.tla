------------------------- MODULE MCExtractionWorker -------------------------
(* TLC instance of ExtractionWorker: two replicas with one task each.       *)
EXTENDS ExtractionWorker

CONSTANTS w1, w2

MCSlots == {w1, w2}
MCWorkerOf == [s \in MCSlots |-> s]
Of(content, source) == [content |-> content, source |-> source]
Interrupted == [may |-> {"drop", "stop", "crash", "cancel", "error"}, most |-> 2,
                document |-> [j1 |-> Of("c1", "path"), j2 |-> Of("c1", "path")]]
Collected == [may |-> {"gc", "day", "delete"}, most |-> 3,
              document |-> [j1 |-> Of("c1", "inline"), j2 |-> Of("c1", "url")]]
MCEnvironments == {Interrupted, Collected}
=============================================================================
