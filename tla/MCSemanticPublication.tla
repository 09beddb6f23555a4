------------------------ MODULE MCSemanticPublication ------------------------
(* One template whose draft takes two queries, and one call of it.  Five      *)
(* writes and source revisions together are four writes (two drafts and two   *)
(* publications, or a restored draft in between) of an unchanged source, or   *)
(* three of them (a draft, its publication and that of the next trial) with   *)
(* one edit or upgrade under a trial or a call, after any first observation.  *)
EXTENDS SemanticPublication, TLC

Symmetry ==
  Permutations(Queries) \union Permutations(ServerVersions)

\* bound: writes and revisions of one behaviour
Bounded == catalog.revision + source.revision <= 5
=============================================================================
