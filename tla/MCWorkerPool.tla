---------------------------- MODULE MCWorkerPool ----------------------------
(* Two parses on one worker. *)
EXTENDS WorkerPool

CONSTANTS p1, p2

MCParses == {p1, p2}
=============================================================================
