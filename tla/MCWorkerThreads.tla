-------------------------- MODULE MCWorkerThreads --------------------------
(* The main thread runs worker outer, whose program runs worker inner. *)
EXTENDS WorkerThreads, TLC

CONSTANTS outer, inner, runner

MCParent == (outer :> Main) @@ (inner :> outer)
=============================================================================
