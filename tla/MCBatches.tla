------------------------------ MODULE MCBatches ------------------------------
(* TLC instance of Batches: a batch of two or three documents alone, or a  *)
(* batch of one beside four uploads.                                       *)
EXTENDS Batches

MCUploads == {"u1", "u2", "u3", "u4"}
MCDocuments == {"d1", "d2", "d3"}
Troubled(valid, most) == [valid |-> valid, uploads |-> {}, most |-> most,
    may |-> {"redis", "publish", "leave", "fail", "again", "finalize", "crash"}]
Busy == [valid |-> {"d1"}, uploads |-> MCUploads, most |-> 1, may |-> {"redis"}]
MCEnvironments == {Troubled({"d1", "d2"}, 2), Troubled(MCDocuments, 1), Troubled({}, 1), Busy}
=============================================================================
