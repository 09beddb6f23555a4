-------------------------- MODULE MCQueryExecution --------------------------
(* Two calls of one Agent on one source, with room for one or for both as    *)
(* the source's concurrency limit is edited.  MaxChanges administrative       *)
(* changes happen at any point: two let a change be followed by another of   *)
(* any kind, such as a revocation and a rotation, inside a single call.       *)
EXTENDS QueryExecution, TLC

Symmetry == Permutations(Requests)
=============================================================================
