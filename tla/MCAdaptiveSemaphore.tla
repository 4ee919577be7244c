------------------------ MODULE MCAdaptiveSemaphore ------------------------
(* TLC instance of AdaptiveSemaphore. *)
EXTENDS AdaptiveSemaphore

CONSTANTS c1, c2, c3, c4, c5
MCCallers == {c1, c2, c3, c4, c5}
=============================================================================
