-------------------------- MODULE MCConnectionPool --------------------------
(* Two callers, whose snapshots carry either of two execution revisions: an   *)
(* opener and a caller that joins, replaces or invalidates.  One entry object *)
(* more than callers, so that acquire never waits for an identity.  No        *)
(* symmetry, because liveness is checked as well.                             *)
EXTENDS ConnectionPool
=============================================================================
