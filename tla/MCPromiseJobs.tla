--------------------------- MODULE MCPromiseJobs ---------------------------
(* Values of the constants of PromiseJobs for TLC. *)
EXTENDS PromiseJobs

(* The files a replay may find: up to two different identifiers. *)
MCRecordings == {s \in UNION {[1..n -> Pair] : n \in 0..2} : IsInjective(s)}
=============================================================================
