---------------------------- MODULE MCConsumers ----------------------------
(* TLC instance of Consumers: one message and two BaseWorkers, or one  *)
(* BaseAsyncWorker with a prefetch of two.                                 *)
EXTENDS Consumers

CONSTANTS s1, s2, w1, w2

MCSlots == {s1, s2}
MCReplicas == {w1, w2}
Two == [s \in MCSlots |-> IF s = s1 THEN w1 ELSE w2]
One == [s \in MCSlots |-> w1]
Sync == [kind |-> "base", delayed |-> TRUE, replica |-> Two, most |-> 2,
         may |-> {"drop", "stop", "crash", "cancel", "redis", "full"}]
Async == [kind |-> "async", delayed |-> TRUE, replica |-> One, most |-> 2,
          may |-> {"drop", "stop", "crash", "cancel", "redis"}]
Blocking == [kind |-> "base", delayed |-> FALSE, replica |-> Two, most |-> 1, may |-> {"drop"}]
MCEnvironments == {Sync, Async, Blocking}
=============================================================================
