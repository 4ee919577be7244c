--------------------------- MODULE MCJobLifecycle ---------------------------
(* TLC instances of JobLifecycle. *)
EXTENDS JobLifecycle, TLC

CONSTANTS h1, h2
OneHandler == {h1}
TwoHandlers == {h1, h2}
RagQueues == <<"embeddings">>
TwoQueues == <<"entities", "metadata">>
Benignly == [requests |-> {}, failures |-> {"transient", "crash"}]
Watched == [requests |-> {"timeout"},
            failures |-> {"entry_error", "crash", "redis", "restart", "unsubscribe", "publish"}]
Anything == [requests |-> {"cancel", "delete", "timeout"},
             failures |-> {"redis", "publish", "entry_error", "entry_crash", "entry_drop", "transient",
                           "permanent", "crash", "drop", "disk", "unsubscribe", "restart"}]
BenignOrWatched == {Benignly, Watched}
AnythingGoes == {Anything}
=============================================================================
