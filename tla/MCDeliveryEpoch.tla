-------------------------- MODULE MCDeliveryEpoch --------------------------
(* TLC instances of DeliveryEpoch. *)
EXTENDS DeliveryEpoch, TLC

CONSTANTS m1, m2, h1, h2
MCMessages == {m1, m2}
=============================================================================
